----------------------------- MODULE MCIsolation -----------------------------
(* Isolation with the windows whose differences the code looks at, four at  *)
(* a time: the shell's desktop, a Linux program's window, a menu and a lock  *)
(* screen; or a program's window, an elevated program's, a lock screen and a *)
(* consent prompt, the latter a dialog, of a client each.                    *)
EXTENDS Isolation

CONSTANTS c1, c2, desktop, program, menu, admin, lockScreen, prompt
TwoClients == {c1, c2}
SixViews == {desktop, program, menu, admin, lockScreen, prompt}
FourOpen == {{desktop, program, menu, lockScreen}, {program, admin, lockScreen, prompt}}
Owners == [v \in View |-> CASE v = lockScreen -> c1 [] v = prompt -> c2 [] OTHER -> None]
Menus == {menu}
Programs == {program}
Desktops == {desktop}
Prompts == {prompt}
Admins == {admin}
=============================================================================
