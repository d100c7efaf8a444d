------------------------------- MODULE SeenMarks ------------------------------
(***************************************************************************)
(* missed-seen.json: for each chat the mark of the last DM that needs no   *)
(* catch-up (SeenMark, SeenFile and bump_locked of bridge/src/missed.rs).  *)
(* A message, whatever else it has, has the fields chat, at and id.        *)
(***************************************************************************)
EXTENDS Integers

\* A SeenMark, ordered as the pair (at_ms, id).  NoMark stands for a chat that
\* missed-seen.json has no entry for.
Mark == [at : Nat, id : Nat]
NoMark == [at |-> -1, id |-> 0]
MarkOf(i) == [at |-> i.at, id |-> i.id]
Precedes(m, n) == m.at < n.at \/ (m.at = n.at /\ m.id < n.id)

\* Mutant of Bump: only a chat with no entry is written.
BumpOnce(cur, i) ==
    IF cur[i.chat] = NoMark THEN [cur EXCEPT ![i.chat] = MarkOf(i)] ELSE cur

\* note_live / bump_locked: under FILE_LOCK, the mark of the chat moves forward
\* only.
Bump(cur, i) ==
    IF Precedes(cur[i.chat], MarkOf(i)) THEN [cur EXCEPT ![i.chat] = MarkOf(i)]
    ELSE cur

\* A file that is cut short or cannot be read is taken for an empty one
\* (load_seen).
Emptied(cur) == [c \in DOMAIN cur |-> NoMark]

\* The other outcomes of a bump, all of them silent: save_seen drops the error of
\* a write that fails before or after it has truncated the file, and what could
\* not be read is replaced by a file with one mark.
FailedBumps(cur, i) == {cur, Emptied(cur), Bump(Emptied(cur), i)}
===============================================================================
