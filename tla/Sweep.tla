------------------------------- MODULE Sweep -------------------------------
(***************************************************************************)
(* h5policy_check_gcol (h5_validate.pk): one global heap collection that   *)
(* the forensic sweep has found is parsed, object by object, to see        *)
(* whether a reader of it would stand still.  A reader, the library's      *)
(* H5HG__cache_heap_deserialize as the comments of the code describe it,   *)
(* parses the same cells in a size_t of one of two widths.                 *)
(*                                                                         *)
(* Cells are chosen when the check or the reader first reads them, and     *)
(* forgotten when both are past them.  An object header is an id, a cell   *)
(* that neither uses (reference count and padding), the length, low cell   *)
(* first, and nothing else.                                                *)
(***************************************************************************)
EXTENDS Integers

CONSTANTS
  Cells,      \* what a cell can hold
  Base,       \* one more than the most a cell can hold
  Masks,      \* for each width, one more than the largest size_t
  Objhdr,     \* size of the headers, of the collection and of an object
  Align,      \* what payloads are aligned to
  Slack,      \* objects the loop bound allows beyond csize / objhdr
  Sizes       \* bound: the sizes of collections that are looked at

Widths == {"wide", "narrow"}

(* A header has room for its four cells; the widths and the alignment are powers
   of one number, so that each divides the larger ones. *)
ASSUME SweepAssumption ==
  /\ Cells \subseteq 0..(Base - 1) /\ Base \in Nat \ {0, 1}
  /\ Masks \in [Widths -> Nat \ {0}] /\ Masks["wide"] % Masks["narrow"] = 0
  /\ Objhdr \in Nat /\ Objhdr >= 4 /\ Slack \in Nat
  /\ Align \in Nat \ {0} /\ Masks["narrow"] % Align = 0
  /\ Sizes \subseteq {n \in Objhdr..(Masks["wide"] - 1) : n % Align = 0}

VARIABLES
  csize,      \* the declared size of the collection
  reader,     \* the width of the reader
  cells,      \* what is known of the collection's cells
  p, guard,   \* the check's cursor, and the objects it has begun
  check,      \* "parsing", or how the check ended
  r, reading, \* the reader's cursor, "parsing" or how it ended
  parted      \* history: the reader advanced by another length than the check

sweepVars == <<csize, reader, cells, p, guard, check, r, reading, parted>>

\* h5policy_align8_at_width
AlignAt(n, mask) == ((((n % mask) + (Align - 1)) % mask) \div Align) * Align

\* Fault: the sum of header and payload is taken as it is.
AdvanceExact(idx, osize, mask) ==
  IF idx = 0 THEN osize % mask ELSE Objhdr + AlignAt(osize, mask)

\* h5policy_gcol_advance
Advance(idx, osize, mask) ==
  IF idx = 0 THEN osize % mask ELSE (Objhdr + AlignAt(osize, mask)) % mask

\* What the library computes in a size_t, none of it checked.
ReaderAdvance(idx, osize, mask) ==
  LET size == osize % mask
      up == (size + Align - 1) % mask
  IN IF idx = 0 THEN size ELSE (Objhdr + (up - (up % Align))) % mask

Objects == csize \div Objhdr
Fits(width) == csize < Masks[width]

SweepInit ==
  /\ csize \in Sizes
  /\ reader \in {w \in Widths : Fits(w)}
  /\ cells = [i \in {} |-> 0]
  /\ p = Objhdr /\ guard = 0 /\ check = "parsing"
  /\ r = Objhdr /\ reading = "parsing"
  /\ parted = FALSE

\* The header at q, some choice of its cells that agrees with what is known.
Header(q) == {q, q + 2, q + 3}
Read(known, q) ==
  {[i \in DOMAIN known \cup Header(q) |-> IF i \in DOMAIN known THEN known[i] ELSE new[i]] :
     new \in [Header(q) \ DOMAIN known -> Cells]}
Index(f, q) == f[q]
Length(f, q) == f[q + 2] + Base * f[q + 3]
Keep(f, q) == [i \in {j \in DOMAIN f : j >= q} |-> f[i]]

\* What the check makes of one object.
JudgeObject(need, narrow, left) ==
  IF need = 0 THEN "stuck wide"
  ELSE IF Fits("narrow") /\ narrow = 0 THEN "stuck narrow"
  ELSE IF need > left THEN "overrun"
  ELSE "parsing"

\* Past the end, out of patience, or too little left for a header.
EndCheck ==
  /\ check = "parsing"
  /\ \/ p >= csize /\ check' = "done" /\ UNCHANGED guard
     \/ /\ p < csize
        /\ guard' = guard + 1
        /\ \/ guard' > Objects + Slack /\ check' = "gave up"
           \/ guard' <= Objects + Slack /\ csize - p < Objhdr /\ check' = "done"
  /\ UNCHANGED <<csize, reader, cells, p, r, reading, parted>>

\* The check takes an object when the reader has read the last one: neither sees
\* the other, so that this is one order for all of them.
CheckObject ==
  /\ check = "parsing" /\ p < csize /\ (r = p \/ reading # "parsing")
  /\ guard' = guard + 1
  /\ guard' <= Objects + Slack /\ csize - p >= Objhdr
  /\ \E f \in Read(cells, p) :
       LET need == Advance(Index(f, p), Length(f, p), Masks["wide"])
           narrow == Advance(Index(f, p), Length(f, p), Masks["narrow"])
       IN /\ cells' = Keep(f, IF reading = "parsing" THEN r ELSE p)
          /\ check' = JudgeObject(need, narrow, csize - p)
          /\ p' = IF check' = "parsing" THEN p + need ELSE p
  /\ UNCHANGED <<csize, reader, r, reading, parted>>

\* The reader, behind the check.  A length that is too long for the collection is
\* refused; an advance of zero is not, and keeps it where it is.
ReadObject ==
  /\ reading = "parsing" /\ (check # "parsing" \/ r < p)
  /\ \/ /\ csize - r < Objhdr
        /\ reading' = "done"
        /\ UNCHANGED <<cells, r, parted>>
     \/ /\ csize - r >= Objhdr
        /\ \E f \in Read(cells, r) :
             LET need == ReaderAdvance(Index(f, r), Length(f, r), Masks[reader])
             IN /\ reading' = IF need = 0 THEN "stuck"
                              ELSE IF need > csize - r THEN "refused" ELSE "parsing"
                /\ r' = IF reading' = "parsing" THEN r + need ELSE r
                /\ parted' = \/ parted
                              \/ need \notin {0, Advance(Index(f, r), Length(f, r), Masks["wide"])}
                /\ cells' = Keep(f, r')
  /\ UNCHANGED <<csize, reader, p, guard, check>>

SweepOver == check # "parsing" /\ reading # "parsing" /\ UNCHANGED sweepVars

SweepNext == EndCheck \/ CheckObject \/ ReadObject \/ SweepOver

SweepSpec == SweepInit /\ [][SweepNext]_sweepVars

-----------------------------------------------------------------------------
StuckAt == [wide |-> "stuck wide", narrow |-> "stuck narrow"]
Reported == check \in {"stuck wide", "stuck narrow"}
BothDone == check # "parsing" /\ reading # "parsing"

SweepTypeOK ==
  /\ csize \in Sizes /\ reader \in Widths
  /\ DOMAIN cells \subseteq 0..csize /\ \A i \in DOMAIN cells : cells[i] \in Cells
  /\ p \in Objhdr..csize /\ guard \in 0..(Objects + Slack + 1)
  /\ check \in {"parsing", "done", "gave up", "overrun", "stuck wide", "stuck narrow"}
  /\ r \in Objhdr..csize /\ reading \in {"parsing", "done", "refused", "stuck"}
  /\ parted \in BOOLEAN

\* Nothing is reported of a collection that every reader gets through: the
\* reader of the reported width, if it can hold the collection, reaches that
\* object and stands still there.
ReportedIsStuck ==
  BothDone /\ check = StuckAt[reader] => reading = "stuck" /\ r = p

\* A reader that stands still is reported, and at the object where it does,
\* unless the loop bound ended the check before, or the reader had gone on where
\* the check, with a longer length, met the end.
StuckIsReported ==
  BothDone /\ reading = "stuck" /\ check # "gave up" /\ ~parted => Reported /\ r = p

\* What the check reports is what stops a reader, and where.
ReportsExact == ReportedIsStuck /\ StuckIsReported

\* h5_validate.pk:1460: the sweep walks each collection's object list, "flagging
\* any entry whose size advances the parser by zero bytes AT ANY SUPPORTED
\* size_t WIDTH".
EveryStuckReported == BothDone /\ reading = "stuck" => Reported
=============================================================================
