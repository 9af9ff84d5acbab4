----------------------------- MODULE DocumentTab -----------------------------
(* What one open browser tab knows of the document (documentAuthority), and *)
(* what it does with a snapshot that reaches it, over its socket, in the    *)
(* reply to its own command, or from GET /api/document/state.               *)
(*                                                                          *)
(* The project is the sequence of saves made to it: its file after save v   *)
(* contains the changes 1..v. A tab shows a set of changes, so that a patch *)
(* put on the wrong basis is visible as a hole.                             *)
EXTENDS Naturals, Sequences

CONSTANT NoFile

(* An event: its kind, the journal's seq it announces, and the file, by     *)
(* number of save, it was made from. A "delta" or "comments" event carries  *)
(* the last change alone and is made for the file `before`.                 *)
Event(kind, seq, v, before) == [kind |-> kind, seq |-> seq, v |-> v, before |-> before]
Whole(seq, v) == Event("whole", seq, v, NoFile)

Events == [kind : {"whole", "delta", "comments", "resync"}, seq : Nat, v : Nat,
           before : Nat \cup {NoFile}]

Starting == [phase |-> "starting", min |-> 0, seq |-> 0, token |-> NoFile,
             file |-> NoFile, shown |-> {}]

Larger(m, n) == IF m < n THEN n ELSE m

(* recoverDocument, up to its first request.                                *)
Recovering(t, minimum) ==
  [t EXCEPT !.phase = "recovering",
            !.min = Larger(minimum, IF t.phase = "recovering" THEN t.min ELSE t.seq)]

(* Mutant: a patch moves on whatever file it was made for.                 *)
FileAfterAny(t, e) == IF e.before = NoFile /\ e.kind # "whole" THEN NoFile ELSE e.v

(* noteDocumentFile: a whole project is its file; a patch only moves on     *)
(* from the file it was made for.                                           *)
FileAfter(t, e) ==
  CASE e.kind = "whole" \/ e.v = t.file -> e.v
    [] OTHER -> IF e.before # NoFile /\ e.before = t.file THEN e.v ELSE NoFile

(* The end of applyDocumentSnapshot: the tab shows the event and is ready.  *)
Showing(t, e) ==
  [phase |-> "ready", min |-> 0, seq |-> e.seq, token |-> e.v, file |-> FileAfter(t, e),
   shown |-> IF e.kind = "whole" THEN 1..e.v ELSE t.shown \cup {e.v}]

(* A delta names the seq and the state token (file and head) of its base.   *)
DeltaFits(t, e) ==
  /\ t.phase = "ready" /\ e.seq = t.seq + 1 /\ e.before = t.token
  /\ t.file = NoFile \/ e.before = t.file

(* Comments alone are enough for the next seq, on the file the tab holds.   *)
CommentsFit(t, e) ==
  /\ t.phase = "ready"
  /\ \/ e.seq = t.seq
     \/ e.seq = t.seq + 1 /\ t.file # NoFile /\ e.before = t.file

(* What applyDocumentSnapshot drops, and what it can show.                  *)
Ignores(t, e) ==
  \/ e.seq < t.seq
  \/ e.kind = "delta" /\ e.seq = t.seq /\ t.phase # "starting"
  \/ e.kind \in {"whole", "comments"} /\ t.phase = "recovering" /\ e.seq < t.min

Fits(t, e) ==
  CASE e.kind = "delta" -> DeltaFits(t, e)
    [] e.kind = "comments" -> CommentsFit(t, e)
    [] OTHER -> e.kind = "whole"

(* What it can neither drop nor show makes it ask for the document.         *)
Invalidates(t, e) == ~Ignores(t, e) /\ ~Fits(t, e)

Applied(t, e) ==
  CASE Ignores(t, e) -> t
    [] Invalidates(t, e) -> Recovering(t, e.seq)
    [] OTHER -> Showing(t, e)
=============================================================================
