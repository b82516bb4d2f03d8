------------------------------- MODULE ScanVar -------------------------------
(***************************************************************************)
(* A scanner variable and its source (src/src/scanner.c): the files that   *)
(* match a pattern are read one after the other, each match of the         *)
(* variable's pattern is folded into its value by the variable's           *)
(* aggregator, and an invalidation asks for a new scan.                    *)
(*                                                                         *)
(* The scan runs under the source's mutex on the thread that evaluates an  *)
(* expression; scanner_invalidate takes no mutex and is called by the      *)
(* scanner thread and, for a trigger, by the main thread.  A file may      *)
(* yield any sequence of matches each time it is opened.  A source with    *)
(* CheckTime whose files have not changed does nothing, a stutter here.    *)
(***************************************************************************)
EXTENDS Integers, Sequences, SequencesExt

CONSTANTS
  Aggregators,  \* the aggregators to consider, among those of scan_var_t
  Values,       \* the numbers a pattern may match
  Files,        \* how many files the source's pattern expands to
  MaxMatches,   \* bound on the matches in one file
  MaxScans      \* bound on the number of scans

ASSUME AggregatorsAssumption ==
  Aggregators \subseteq {"First", "Last", "Sum", "Product"}
ASSUME ValuesAssumption == Values \subseteq Int
ASSUME BoundsAssumption == Files \in Nat \ {0} /\ MaxMatches \in Nat /\ MaxScans \in Nat

VARIABLES
  multi,        \* var->multi
  var,          \* the fields invalid, count, val and pval of the scan_var_t
  src_invalid,  \* src->invalid
  scan,         \* the scan in progress: the file and what is left to match of it
  seen,         \* the matches of the current or latest scan
  silent,       \* did a file end in it before the first match
  torn,         \* was the variable invalidated during it, or valid when it began:
                \* an invalidation during a scan may renew the source but not the
                \* variable, and the next scan adds to what it has
  vals,         \* the value the variable had after each scan that matched
  scans         \* number of scans so far

vars == <<multi, var, src_invalid, scan, seen, silent, torn, vals, scans>>

Idle == [pc |-> "idle", file |-> 1, rest |-> <<>>]

Init ==
  /\ multi \in Aggregators
  /\ var = [invalid |-> TRUE, count |-> 0, val |-> 0, pval |-> 0]
  /\ src_invalid = TRUE
  /\ scan = Idle
  /\ seen = <<>>
  /\ silent = FALSE /\ torn = FALSE
  /\ vals = <<0>>
  /\ scans = 0

\* The aggregators: the value after another match
Fold(m, val, count, x) ==
  CASE m = "Sum"     -> val + x
    [] m = "Product" -> val * x
    [] m = "Last"    -> x
    [] m = "First"   -> IF count = 0 THEN x ELSE val

\* Faulty variant of Renewed: the value is cleared before it is kept
RenewedLate(v) == IF v.invalid THEN [v EXCEPT !.pval = 0, !.count = 0, !.val = 0] ELSE v

\* Faulty variant of Renewed: the value is not cleared
RenewedNot(v) == IF v.invalid THEN [v EXCEPT !.pval = v.val, !.count = 0] ELSE v

\* The first match after an invalidation starts over
Renewed(v) == IF v.invalid THEN [v EXCEPT !.pval = v.val, !.count = 0, !.val = 0] ELSE v

\* scanner_var_values_update
Matched(v, x) ==
  LET r == Renewed(v)
  IN  IF multi = "First" /\ r.count # 0 THEN [r EXCEPT !.invalid = FALSE]
      ELSE [r EXCEPT !.val = Fold(multi, r.val, r.count, x), !.count = @ + 1,
                     !.invalid = FALSE]

\* An expression reads the variable: scanner_get_value starts a scan
Demand ==
  /\ scan.pc = "idle"
  /\ src_invalid
  /\ scans < MaxScans
  /\ scan' = [Idle EXCEPT !.pc = "open"]
  /\ seen' = <<>>
  /\ silent' = FALSE
  /\ torn' = ~var.invalid
  /\ scans' = scans + 1
  /\ UNCHANGED <<multi, var, src_invalid, vals>>

\* Faulty variant of NextFile: one file too many
NextFileTooFar == IF scan.file > Files THEN Idle
                  ELSE [pc |-> "open", file |-> scan.file + 1, rest |-> <<>>]

NextFile == IF scan.file = Files THEN Idle
            ELSE [pc |-> "open", file |-> scan.file + 1, rest |-> <<>>]

\* scanner_file_update opens the next file, which may not be readable
OpenFile ==
  /\ scan.pc = "open"
  /\ \/ \E m \in BoundedSeq(Values, MaxMatches) :
          /\ scan' = [scan EXCEPT !.pc = "read", !.rest = m]
          /\ src_invalid' = FALSE
     \/ scan' = NextFile /\ UNCHANGED src_invalid
  /\ vals' = IF scan'.pc = "idle" /\ seen # <<>> THEN Append(vals, var.val) ELSE vals
  /\ UNCHANGED <<multi, var, seen, silent, torn, scans>>

\* scanner_source_update: a line matches
ReadMatch ==
  /\ scan.pc = "read"
  /\ scan.rest # <<>>
  /\ var' = Matched(var, Head(scan.rest))
  /\ seen' = Append(seen, Head(scan.rest))
  /\ scan' = [scan EXCEPT !.rest = Tail(@)]
  /\ UNCHANGED <<multi, src_invalid, silent, torn, vals, scans>>

\* ... and at the end of each file the source's variables are all valid
EndFile ==
  /\ scan.pc = "read"
  /\ scan.rest = <<>>
  /\ var' = [var EXCEPT !.invalid = FALSE]
  /\ silent' = (silent \/ seen = <<>>)
  /\ scan' = NextFile
  /\ vals' = IF scan'.pc = "idle" /\ seen # <<>> THEN Append(vals, var.val) ELSE vals
  /\ UNCHANGED <<multi, src_invalid, seen, torn, scans>>

\* scanner_invalidate, scanner_var_invalidate
Invalidate ==
  /\ var' = [var EXCEPT !.invalid = TRUE]
  /\ src_invalid' = TRUE
  /\ torn' = (torn \/ scan.pc # "idle")
  /\ UNCHANGED <<multi, scan, seen, silent, vals, scans>>

Next == Demand \/ OpenFile \/ ReadMatch \/ EndFile \/ Invalidate

Spec == Init /\ [][Next]_vars

----------------------------------------------------------------------------
(* Properties *)

\* Every variable keeps its type.
TypeOK ==
  /\ multi \in Aggregators
  /\ var \in [invalid : BOOLEAN, count : Nat, val : Int, pval : Int]
  /\ src_invalid \in BOOLEAN
  /\ scan \in [pc : {"idle", "open", "read"}, file : 1..Files, rest : Seq(Values)]
  /\ seen \in Seq(Values) /\ vals \in Seq(Int)
  /\ {silent, torn} \subseteq BOOLEAN /\ scans \in 0..MaxScans

\* What doc/sfwbar.rst says of the aggregators: "the first occurrence", "the
\* last occurrence", "the sum of all occurrences", "the product of all
\* occurrences of the pattern in the source".
Aggregate(m, s) ==
  CASE m = "First"   -> Head(s)
    [] m = "Last"    -> s[Len(s)]
    [] m = "Sum"     -> FoldLeft(LAMBDA a, x : a + x, 0, s)
    [] m = "Product" -> FoldLeft(LAMBDA a, x : a * x, 1, s)

\* After a scan that matched, the variable's value is the aggregate of the
\* matches of that scan, whatever it was before ...
Aggregated == scan.pc = "idle" /\ seen # <<>> => var.val = Aggregate(multi, seen)

\* ... which the code only ensures if no file ended before the first match and
\* no invalidation fell into this scan or was half lost in the one before.
AggregatedIfHeard == ~silent /\ ~torn => Aggregated

\* doc/sfwbar.rst on .pval: "previous value of the variable": after such a scan
\* it is the value of the one before that matched, unless an invalidation fell
\* into a scan.
KeepsPrevious ==
  scan.pc = "idle" /\ seen # <<>> /\ ~silent /\ ~torn => /\ var.val = vals[Len(vals)]
                                                         /\ var.pval = vals[Len(vals) - 1]

=============================================================================
