----------------------------- MODULE FileStore ------------------------------
(***************************************************************************)
(* What the directories promise to those who store files in them: a file   *)
(* is created, and never overwritten, by an answer 201, and removed by an  *)
(* answer 204; no other answer changes anything.                           *)
(***************************************************************************)
EXTENDS Functions

VARIABLES
  disk,   \* the directories and their files
  status  \* the status of the last answer about a file

Init == status = 0

(* The files of a directory with one more, or another under its name. *)
With(files, name, data) ==
  [n \in DOMAIN files \cup {name} |-> IF n = name THEN data ELSE files[n]]

Create ==
  /\ status' = 201
  /\ \E dir \in DOMAIN disk : \E name \in DOMAIN disk'[dir] \ DOMAIN disk[dir] :
       disk' = [disk EXCEPT ![dir] = With(@, name, disk'[dir][name])]

Remove ==
  /\ status' = 204
  /\ \E dir \in DOMAIN disk : \E name \in DOMAIN disk[dir] :
       disk' = [disk EXCEPT ![dir] = Restrict(@, DOMAIN @ \ {name})]

RemoveDirectory ==
  /\ status' = 204
  /\ \E dir \in DOMAIN disk :
       disk[dir] = <<>> /\ disk' = Restrict(disk, DOMAIN disk \ {dir})

Otherwise == status' \notin {201, 204} /\ UNCHANGED disk

Next == Create \/ Remove \/ RemoveDirectory \/ Otherwise

Spec == Init /\ [][Next]_<<disk, status>>
=============================================================================
