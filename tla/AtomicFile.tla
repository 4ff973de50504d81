----------------------------- MODULE AtomicFile -----------------------------
(***************************************************************************)
(* What Render promises about its destination (the comment of              *)
(* renderer.go:82): "Render atomically renders a file contents to disk".   *)
(* Whatever happens in between, whoever reads the file finds what was in   *)
(* it or what it is being rendered with, all of it.                        *)
(***************************************************************************)
CONSTANTS Contents, None

VARIABLES
    file,     \* what a reader finds: None without a file
    wanted    \* what is being rendered, or None

Init == file \in Contents \cup {None} /\ wanted = None

Ask == wanted = None /\ wanted' \in Contents /\ UNCHANGED file

Replace == wanted # None /\ file' = wanted /\ UNCHANGED wanted

\* Also with an error or a crash, and then with the old file or the new one.
End == wanted # None /\ wanted' = None /\ UNCHANGED file

Next == Ask \/ Replace \/ End

Spec == Init /\ [][Next]_<<file, wanted>>
=============================================================================
