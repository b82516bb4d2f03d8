---------------------------- MODULE ScanVarProofs ----------------------------
(* Proofs about a scanner variable, for any number of files, matches and     *)
(* scans and whatever numbers are matched: its fields keep their types,      *)
(* .pval is what .val was after the scan before, and the aggregators that    *)
(* pick one match pick the right one.                                       *)
EXTENDS ScanVar, TLAPS

Vars == [invalid : BOOLEAN, count : Nat, val : Int, pval : Int]
Scans == [pc : {"idle", "open", "read"}, file : 1..Files, rest : Seq(Values)]

\* What is so between any two steps: outside of a scan, and in one until the first
\* match, the value is the one of the latest scan that matched.
ValInv ==
  /\ vals # <<>>
  /\ scan.pc = "idle" \/ seen = <<>> => var.val = vals[Len(vals)]

\* A scan that no invalidation falls into finds the variable invalid until its first
\* match, unless a file has ended before, and valid from there on; the value
\* that it had is the previous one.
ScanInv ==
  scan.pc # "idle" /\ ~torn =>
    /\ ~silent /\ seen = <<>> => var.invalid
    /\ seen # <<>> => ~var.invalid
    /\ ~silent /\ seen # <<>> => var.pval = vals[Len(vals)]

\* The previous value after a scan.
PrevInv ==
  scan.pc = "idle" /\ ~silent /\ ~torn /\ seen # <<>> =>
    Len(vals) > 1 /\ var.pval = vals[Len(vals) - 1]

IInv == TypeOK /\ ValInv /\ ScanInv /\ PrevInv

\* A file's matches are numbers of the pattern's.
LEMMA MatchesType ==
  ASSUME NEW s \in BoundedSeq(Values, MaxMatches)
  PROVE  s \in Seq(Values)
<1>1. PICK m \in 0..MaxMatches : s \in [1..m -> Values]
  BY BoundsAssumption DEF BoundedSeq, SeqOf
<1>2. m \in Nat
  BY BoundsAssumption
<1> QED BY <1>1, <1>2

\* A sequence that got one more element ends with it.
LEMMA Appended ==
  ASSUME NEW S, NEW s \in Seq(S), NEW x \in S
  PROVE  /\ Append(s, x) \in Seq(S) /\ Append(s, x) # <<>>
         /\ Len(Append(s, x)) = Len(s) + 1 /\ Append(s, x)[Len(s) + 1] = x
         /\ \A i \in 1..Len(s) : Append(s, x)[i] = s[i]
OBVIOUS

\* The first match since an invalidation makes the value the previous one.
LEMMA RenewedFields ==
  ASSUME NEW v \in Vars
  PROVE  /\ Renewed(v) \in Vars
         /\ v.invalid => Renewed(v).pval = v.val /\ Renewed(v).count = 0 /\ Renewed(v).val = 0
         /\ ~v.invalid => Renewed(v) = v
<1>1. CASE v.invalid
  <2> DEFINE r == Renewed(v)
  <2>1. r = [v EXCEPT !.pval = v.val, !.count = 0, !.val = 0]
    BY <1>1 DEF Renewed
  <2>2. v.val \in Int
    BY DEF Vars
  <2> HIDE DEF r
  <2>3. r \in Vars /\ r.pval = v.val /\ r.count = 0 /\ r.val = 0
    <3>1. PICK c \in Nat : c = 0
      OBVIOUS
    <3>2. PICK b \in Int : b = 0
      OBVIOUS
    <3>3. PICK p \in Int : p = v.val
      BY <2>2
    <3>4. r = [v EXCEPT !.pval = p, !.count = c, !.val = b]
      BY <2>1, <3>1, <3>2, <3>3
    <3>5. r \in Vars /\ r.pval = p /\ r.count = c /\ r.val = b
      BY <3>4 DEF Vars
    <3> QED BY <3>1, <3>2, <3>3, <3>5
  <2> QED BY <1>1, <2>3 DEF r
<1>2. CASE ~v.invalid
  BY <1>2 DEF Renewed
<1> QED BY <1>1, <1>2

\* A match leaves the variable valid, and the previous value as it was renewed
\* (scanner_var_values_update).
LEMMA MatchedFields ==
  ASSUME NEW v \in Vars, NEW x \in Int, multi \in Aggregators
  PROVE  /\ Matched(v, x) \in Vars /\ Matched(v, x).invalid = FALSE
         /\ Matched(v, x).pval = Renewed(v).pval
<1> DEFINE r == Renewed(v)
           f == Fold(multi, r.val, r.count, x)
           y == Matched(v, x)
<1>1. r \in Vars /\ r.val \in Int /\ r.count \in Nat
  BY RenewedFields DEF Vars
<1>2. f \in Int
  <2>1. multi \in {"First", "Last", "Sum", "Product"}
    BY AggregatorsAssumption
  <2>2. r.val + x \in Int /\ r.val * x \in Int
    BY <1>1
  <2> HIDE DEF r
  <2> QED BY <2>1, <2>2, <1>1 DEF Fold
<1>3. CASE multi = "First" /\ r.count # 0
  <2>1. y = [r EXCEPT !.invalid = FALSE]
    BY <1>3 DEF Matched
  <2> HIDE DEF r, y
  <2>2. y \in Vars /\ y.invalid = FALSE /\ y.pval = r.pval
    BY <2>1, <1>1 DEF Vars
  <2> QED BY <2>2 DEF r, y
<1>4. CASE ~(multi = "First" /\ r.count # 0)
  <2>1. PICK c \in Nat : c = r.count + 1
    BY <1>1
  <2>2. y = [r EXCEPT !.val = f, !.count = c, !.invalid = FALSE]
    BY <1>4, <2>1 DEF Matched
  <2> HIDE DEF r, f, y
  <2>3. y \in Vars /\ y.invalid = FALSE /\ y.pval = r.pval
    BY <2>2, <1>1, <1>2 DEF Vars
  <2> QED BY <2>3 DEF r, y
<1> QED BY <1>3, <1>4

\* The type invariant, as the proofs use it.
LEMMA TypeParts ==
  TypeOK <=> /\ multi \in Aggregators /\ var \in Vars /\ src_invalid \in BOOLEAN /\ scan \in Scans
             /\ seen \in Seq(Values) /\ vals \in Seq(Int)
             /\ silent \in BOOLEAN /\ torn \in BOOLEAN /\ scans \in 0..MaxScans
BY DEF TypeOK, Vars, Scans

LEMMA IdleType == Idle \in Scans /\ [Idle EXCEPT !.pc = "open"] \in Scans
<1>1. 1 \in 1..Files /\ <<>> \in Seq(Values)
  BY BoundsAssumption
<1> QED BY <1>1 DEF Idle, Scans

LEMMA InitInv == Init => IInv
<1> SUFFICES ASSUME Init PROVE IInv
  OBVIOUS
<1>1. scan \in Scans /\ var \in Vars
  BY IdleType DEF Init, Vars
<1>2. TypeOK
  <2>1. <<>> \in Seq(Values) /\ <<0>> \in Seq(Int) /\ 0 \in 0..MaxScans
    BY BoundsAssumption
  <2> QED BY <1>1, <2>1, TypeParts DEF Init
<1>3. ValInv /\ ScanInv /\ PrevInv
  BY DEF Init, ValInv, ScanInv, PrevInv, Idle
<1> QED BY <1>2, <1>3 DEF IInv

\* The file that is looked at next is one of the source's, or the scan is over.
LEMMA NextFileType ==
  ASSUME scan \in Scans
  PROVE  NextFile \in Scans /\ NextFile.pc \in {"idle", "open"}
<1>1. CASE scan.file = Files
  BY <1>1, IdleType DEF NextFile, Idle
<1>2. CASE scan.file # Files
  <2>1. scan.file + 1 \in 1..Files /\ <<>> \in Seq(Values)
    BY <1>2, BoundsAssumption DEF Scans
  <2>2. NextFile = [pc |-> "open", file |-> scan.file + 1, rest |-> <<>>]
    BY <1>2 DEF NextFile
  <2> QED BY <2>1, <2>2 DEF Scans
<1> QED BY <1>1, <1>2

LEMMA DemandInv == IInv /\ Demand => IInv'
<1> SUFFICES ASSUME IInv, Demand PROVE IInv'
  OBVIOUS
<1>1. scan' \in Scans /\ scan'.pc = "open"
  <2>1. scan' = [Idle EXCEPT !.pc = "open"]
    BY DEF Demand
  <2> QED BY <2>1, IdleType DEF Idle
<1>2. var.invalid \in BOOLEAN /\ scans \in 0..MaxScans /\ scans < MaxScans
  BY TypeParts DEF IInv, Vars, Demand
<1>3. scans' \in 0..MaxScans
  BY <1>2, BoundsAssumption DEF Demand
<1>4. torn' \in BOOLEAN /\ silent' \in BOOLEAN /\ seen' = <<>>
  BY <1>2 DEF Demand
<1>5. TypeOK'
  BY <1>1, <1>3, <1>4 DEF IInv, Demand, TypeOK, Scans
<1>6. ValInv'
  BY DEF IInv, ValInv, Demand
<1>7. ScanInv' /\ PrevInv'
  BY <1>1, <1>4 DEF ScanInv, PrevInv, Demand
<1> QED BY <1>5, <1>6, <1>7 DEF IInv

LEMMA InvalidateInv == IInv /\ Invalidate => IInv'
<1> SUFFICES ASSUME IInv, Invalidate PROVE IInv'
  OBVIOUS
<1>1. var' \in Vars /\ var'.val = var.val /\ var'.pval = var.pval
  <2>1. var \in Vars /\ var' = [var EXCEPT !.invalid = TRUE]
    BY TypeParts DEF IInv, Invalidate
  <2> QED BY <2>1 DEF Vars
<1>2. TypeOK'
  BY <1>1 DEF IInv, TypeOK, Invalidate
<1>3. ValInv'
  BY <1>1 DEF IInv, ValInv, Invalidate
<1>4. ScanInv' /\ PrevInv'
  BY <1>1 DEF IInv, ScanInv, PrevInv, Invalidate, TypeOK
<1> QED BY <1>2, <1>3, <1>4 DEF IInv

LEMMA ReadMatchInv == IInv /\ ReadMatch => IInv'
<1> SUFFICES ASSUME IInv, ReadMatch PROVE IInv'
  OBVIOUS
<1> DEFINE x == Head(scan.rest)
<1>1. x \in Values /\ x \in Int /\ Tail(scan.rest) \in Seq(Values)
  BY ValuesAssumption DEF IInv, TypeOK, ReadMatch
<1>2. /\ var' \in Vars /\ ~var'.invalid
      /\ var'.pval = IF var.invalid THEN var.val ELSE var.pval
  <2>1. multi \in Aggregators /\ var \in Vars
    BY TypeParts DEF IInv
  <2>2. var' = Matched(var, x)
    BY DEF ReadMatch
  <2> HIDE DEF x
  <2>3. /\ var' \in Vars /\ var'.invalid = FALSE /\ var'.pval = Renewed(var).pval
    BY <2>1, <2>2, <1>1, MatchedFields
  <2>4. Renewed(var).pval = IF var.invalid THEN var.val ELSE var.pval
    BY <2>1, RenewedFields
  <2> QED BY <2>3, <2>4
<1>3. seen' \in Seq(Values) /\ seen' # <<>>
  <2>1. seen \in Seq(Values) /\ seen' = Append(seen, x)
    BY DEF IInv, TypeOK, ReadMatch
  <2> HIDE DEF x
  <2> QED BY <2>1, <1>1, Appended
<1>4. /\ scan' = [scan EXCEPT !.rest = Tail(@)] /\ scan.pc = "read"
      /\ UNCHANGED <<multi, src_invalid, silent, torn, vals, scans>>
  BY DEF ReadMatch
<1>5. scan' \in Scans /\ scan'.pc = "read"
  <2>1. scan \in Scans /\ scan' = [scan EXCEPT !.rest = Tail(scan.rest)]
    BY <1>4, TypeParts DEF IInv
  <2> QED BY <2>1, <1>1, <1>4 DEF Scans
<1> HIDE DEF x
<1>6. TypeOK'
  BY <1>2, <1>3, <1>4, <1>5 DEF IInv, TypeOK, Vars, Scans
<1>7. ValInv'
  BY <1>3, <1>4, <1>5 DEF IInv, ValInv
<1>8. ScanInv'
  <2> SUFFICES ASSUME ~torn'
               PROVE  ~silent' => var'.pval = vals'[Len(vals')]
    BY <1>2, <1>3, <1>5 DEF ScanInv
  <2>1. CASE seen = <<>>
    BY <2>1, <1>2, <1>4 DEF IInv, ScanInv, ValInv
  <2>2. CASE seen # <<>>
    BY <2>2, <1>2, <1>4 DEF IInv, ScanInv
  <2> QED BY <2>1, <2>2
<1>9. PrevInv'
  BY <1>5 DEF PrevInv
<1> QED BY <1>6, <1>7, <1>8, <1>9 DEF IInv

\* A scan that ends records the value if it has matched; one that goes on does not.
LEMMA Ended ==
  ASSUME IInv, scan.pc # "idle", scan'.pc \in {"idle", "open", "read"},
         vals' = IF scan'.pc = "idle" /\ seen # <<>> THEN Append(vals, var.val) ELSE vals
  PROVE  /\ vals' \in Seq(Int) /\ vals' # <<>>
         /\ scan'.pc = "idle" \/ seen = <<>> => var.val = vals'[Len(vals')]
         /\ scan'.pc = "idle" /\ seen # <<>> =>
              Len(vals') > 1 /\ vals'[Len(vals') - 1] = vals[Len(vals)]
<1>1. vals \in Seq(Int) /\ vals # <<>> /\ var.val \in Int
  BY DEF IInv, TypeOK, ValInv
<1>2. CASE scan'.pc = "idle" /\ seen # <<>>
  <2>1. vals' = Append(vals, var.val)
    BY <1>2
  <2>2. Len(vals) \in Nat /\ Len(vals) > 0
    BY <1>1
  <2> QED BY <1>1, <1>2, <2>1, <2>2, Appended
<1>3. CASE ~(scan'.pc = "idle" /\ seen # <<>>)
  BY <1>1, <1>3 DEF IInv, ValInv
<1> QED BY <1>2, <1>3

LEMMA OpenFileInv == IInv /\ OpenFile => IInv'
<1> SUFFICES ASSUME IInv, OpenFile PROVE IInv'
  OBVIOUS
<1>1. scan.pc = "open" /\ scan \in Scans
  BY TypeParts DEF IInv, OpenFile
<1>2. scan' \in Scans /\ src_invalid' \in BOOLEAN
  <2>1. CASE \E m \in BoundedSeq(Values, MaxMatches) :
               /\ scan' = [scan EXCEPT !.pc = "read", !.rest = m]
               /\ src_invalid' = FALSE
    <3>1. PICK m \in BoundedSeq(Values, MaxMatches) :
               /\ scan' = [scan EXCEPT !.pc = "read", !.rest = m]
               /\ src_invalid' = FALSE
      BY <2>1
    <3>2. m \in Seq(Values)
      BY MatchesType
    <3>3. scan' \in Scans
      BY <3>1, <3>2, <1>1 DEF Scans
    <3> QED BY <3>1, <3>3
  <2>2. CASE scan' = NextFile /\ UNCHANGED src_invalid
    BY <2>2, <1>1, NextFileType, TypeParts DEF IInv
  <2> QED BY <2>1, <2>2 DEF OpenFile
<1>3. /\ vals' = IF scan'.pc = "idle" /\ seen # <<>> THEN Append(vals, var.val) ELSE vals
      /\ UNCHANGED <<multi, var, seen, silent, torn, scans>>
  BY DEF OpenFile
<1>4. /\ vals' \in Seq(Int) /\ vals' # <<>>
      /\ scan'.pc = "idle" \/ seen = <<>> => var.val = vals'[Len(vals')]
      /\ scan'.pc = "idle" /\ seen # <<>> =>
           Len(vals') > 1 /\ vals'[Len(vals') - 1] = vals[Len(vals)]
  BY <1>1, <1>2, <1>3, Ended DEF Scans
<1>5. TypeOK'
  BY <1>2, <1>3, <1>4 DEF IInv, TypeOK, Scans
<1>6. ValInv'
  BY <1>3, <1>4 DEF ValInv
<1>7. ScanInv'
  <2> SUFFICES ASSUME scan'.pc # "idle" PROVE ScanInv'
    BY DEF ScanInv
  <2>1. vals' = vals
    BY <1>3
  <2> QED BY <2>1, <1>1, <1>3 DEF IInv, ScanInv
<1>8. PrevInv'
  BY <1>1, <1>3, <1>4 DEF IInv, ScanInv, PrevInv
<1> QED BY <1>5, <1>6, <1>7, <1>8 DEF IInv

LEMMA EndFileInv == IInv /\ EndFile => IInv'
<1> SUFFICES ASSUME IInv, EndFile PROVE IInv'
  OBVIOUS
<1>1. scan.pc = "read" /\ scan \in Scans /\ scan' = NextFile
  BY TypeParts DEF IInv, EndFile
<1>2. scan' \in Scans /\ scan'.pc \in {"idle", "open"}
  BY <1>1, NextFileType
<1>3. /\ vals' = IF scan'.pc = "idle" /\ seen # <<>> THEN Append(vals, var.val) ELSE vals
      /\ silent' = (silent \/ seen = <<>>)
      /\ UNCHANGED <<multi, src_invalid, seen, torn, scans>>
  BY DEF EndFile
<1>4. /\ vals' \in Seq(Int) /\ vals' # <<>>
      /\ scan'.pc = "idle" \/ seen = <<>> => var.val = vals'[Len(vals')]
      /\ scan'.pc = "idle" /\ seen # <<>> =>
           Len(vals') > 1 /\ vals'[Len(vals') - 1] = vals[Len(vals)]
  BY <1>1, <1>2, <1>3, Ended
<1>5. var' \in Vars /\ var'.invalid = FALSE /\ var'.val = var.val /\ var'.pval = var.pval
  <2>1. var \in Vars /\ var' = [var EXCEPT !.invalid = FALSE]
    BY TypeParts DEF IInv, EndFile
  <2> QED BY <2>1 DEF Vars
<1>6. silent' \in BOOLEAN
  BY <1>3, TypeParts DEF IInv
<1>7. TypeOK'
  BY <1>2, <1>3, <1>4, <1>5, <1>6 DEF IInv, TypeOK, Vars, Scans
<1>8. ValInv'
  BY <1>3, <1>4, <1>5 DEF ValInv
<1>9. ScanInv'
  <2> SUFFICES ASSUME scan'.pc # "idle", ~torn'
               PROVE  ~silent' /\ seen' # <<>> => var'.pval = vals'[Len(vals')]
    BY <1>3, <1>5 DEF ScanInv
  <2> QED BY <1>1, <1>3, <1>5 DEF IInv, ScanInv
<1>10. PrevInv'
  BY <1>1, <1>3, <1>4, <1>5 DEF IInv, ScanInv, PrevInv
<1> QED BY <1>7, <1>8, <1>9, <1>10 DEF IInv

\* Every step keeps what is so between two steps.
LEMMA StepInv == IInv /\ [Next]_vars => IInv'
<1> SUFFICES ASSUME IInv, [Next]_vars PROVE IInv'
  OBVIOUS
<1>1. CASE UNCHANGED vars
  BY <1>1 DEF vars, IInv, TypeOK, ValInv, ScanInv, PrevInv
<1> QED BY <1>1, DemandInv, OpenFileInv, ReadMatchInv, EndFileInv, InvalidateInv DEF Next

\* The fields of a variable keep their types, and the relation of its value to its
\* previous one is kept, by each step of a scan and by each invalidation.
THEOREM Invariance == Spec => []IInv
BY InitInv, StepInv, PTL DEF Spec

\* The fields of a variable and of its source keep their types.
THEOREM FieldsCorrect == Spec => []TypeOK
<1>1. IInv => TypeOK
  BY DEF IInv
<1> QED BY <1>1, Invariance, PTL

\* After a scan that matched and that no invalidation fell into, .pval is the value of
\* the scan before that matched, for any number of files, matches and scans.
THEOREM PreviousKept == Spec => []KeepsPrevious
<1>1. IInv => KeepsPrevious
  BY DEF IInv, ValInv, PrevInv, KeepsPrevious
<1> QED BY <1>1, Invariance, PTL

\* With an aggregator that picks one match, the value during and after a scan is the
\* match it picks of those there have been, if no file ended before the first
\* one and no invalidation fell into the scan.
PickInv ==
  seen # <<>> /\ ~silent /\ ~torn =>
    /\ var.count # 0
    /\ var.val = IF multi = "First" THEN seen[1] ELSE seen[Len(seen)]

PickedInv == IInv /\ PickInv

LEMMA Picked ==
  ASSUME NEW m \in {"First", "Last"}, NEW s \in Seq(Values), s # <<>>
  PROVE  Aggregate(m, s) = IF m = "First" THEN s[1] ELSE s[Len(s)]
<1>1. CASE m = "First"
  <2>1. Aggregate(m, s) = Head(s)
    BY <1>1 DEF Aggregate
  <2> QED BY <1>1, <2>1
<1>2. CASE m = "Last"
  <2>1. Aggregate(m, s) = s[Len(s)]
    BY <1>2 DEF Aggregate
  <2> QED BY <1>2, <2>1
<1> QED BY <1>1, <1>2

\* A match is the value of a variable that is renewed by it; afterwards it
\* is if the aggregator picks the last.
LEMMA MatchPicked ==
  ASSUME NEW v \in Vars, NEW x \in Int, Aggregators \subseteq {"First", "Last"},
         multi \in Aggregators, v.invalid \/ v.count # 0
  PROVE  /\ Matched(v, x).count # 0
         /\ Matched(v, x).val = IF v.invalid \/ multi = "Last" THEN x ELSE v.val
<1> DEFINE r == Renewed(v)
           f == Fold(multi, r.val, r.count, x)
           y == Matched(v, x)
<1>1. /\ r \in Vars /\ r.count \in Nat /\ (v.invalid => r.count = 0)
      /\ (~v.invalid => r.count # 0 /\ r.val = v.val)
  BY RenewedFields DEF Vars
<1>2. multi \in {"First", "Last"}
  OBVIOUS
<1> HIDE DEF r
<1>3. CASE multi = "First" /\ r.count # 0
  <2>1. y = [r EXCEPT !.invalid = FALSE]
    BY <1>3 DEF Matched, r
  <2> HIDE DEF y
  <2>2. y.count = r.count /\ y.val = r.val
    BY <2>1, <1>1 DEF Vars
  <2> QED BY <2>2, <1>1, <1>3 DEF y
<1>4. CASE ~(multi = "First" /\ r.count # 0)
  <2>1. PICK c \in Nat : c = r.count + 1
    BY <1>1
  <2>2. y = [r EXCEPT !.val = f, !.count = c, !.invalid = FALSE]
    BY <1>4, <2>1 DEF Matched, r
  <2>3. f = x
    BY <1>2, <1>4 DEF Fold
  <2> HIDE DEF f, y
  <2>4. y = [r EXCEPT !.val = x, !.count = c, !.invalid = FALSE]
    BY <2>2, <2>3
  <2>5. y.count = c /\ y.val = x
    BY <2>4, <1>1 DEF Vars
  <2> QED BY <2>1, <2>5, <1>1, <1>2, <1>4 DEF y
<1> QED BY <1>3, <1>4

LEMMA PickStep ==
  ASSUME Aggregators \subseteq {"First", "Last"}, PickedInv, [Next]_vars
  PROVE  PickInv'
<1>1. IInv /\ TypeOK /\ multi \in Aggregators /\ var \in Vars
  BY TypeParts DEF PickedInv, IInv
<1>2. CASE Demand
  BY <1>2 DEF Demand, PickInv
<1>3. CASE ReadMatch
  <2> DEFINE x == Head(scan.rest)
  <2>1. /\ var' = Matched(var, x) /\ seen' = Append(seen, x)
        /\ UNCHANGED <<multi, silent, torn>> /\ scan.pc = "read"
    BY <1>3 DEF ReadMatch
  <2>2. x \in Values /\ x \in Int
    BY <1>1, <1>3, ValuesAssumption DEF TypeOK, ReadMatch
  <2> HIDE DEF x
  <2>3. /\ seen' \in Seq(Values) /\ seen' # <<>> /\ Len(seen') = Len(seen) + 1
        /\ seen'[Len(seen) + 1] = x /\ \A i \in 1..Len(seen) : seen'[i] = seen[i]
    <3>1. seen \in Seq(Values)
      BY <1>1 DEF TypeOK
    <3> QED BY <3>1, <2>1, <2>2, Appended
  <2> SUFFICES ASSUME ~silent, ~torn
               PROVE  var'.count # 0 /\ var'.val = IF multi = "First" THEN seen'[1] ELSE x
    <3>1. seen'[Len(seen')] = x
      BY <2>3
    <3>2. multi' = multi /\ silent' = silent /\ torn' = torn
      BY <2>1
    <3> QED BY <3>1, <3>2 DEF PickInv
  <2>5. CASE seen = <<>>
    <3>1. var.invalid
      BY <2>1, <2>5, <1>1 DEF IInv, ScanInv
    <3>2. var'.count # 0 /\ var'.val = x
      BY <3>1, <2>1, <2>2, <1>1, MatchPicked
    <3>3. seen'[1] = x
      BY <2>3, <2>5, Len(<<>>) = 0
    <3> QED BY <3>2, <3>3
  <2>6. CASE seen # <<>>
    <3>1. ~var.invalid /\ var.count # 0 /\ (multi = "First" => var.val = seen[1])
      BY <2>1, <2>6, <1>1 DEF IInv, ScanInv, PickedInv, PickInv
    <3>2. var'.count # 0 /\ var'.val = IF multi = "Last" THEN x ELSE var.val
      BY <3>1, <2>1, <2>2, <1>1, MatchPicked
    <3>3. seen'[1] = seen[1]
      <4>1. seen \in Seq(Values) /\ 1 \in 1..Len(seen)
        BY <2>6, <1>1 DEF TypeOK
      <4> QED BY <4>1, <2>3
    <3>4. multi \in {"First", "Last"}
      BY <1>1
    <3> QED BY <3>1, <3>2, <3>3, <3>4
  <2> QED BY <2>5, <2>6
<1>4. CASE OpenFile
  BY <1>4, <1>1 DEF OpenFile, PickedInv, PickInv
<1>5. CASE EndFile \/ Invalidate
  <2>1. UNCHANGED <<multi, seen>> /\ (~silent' /\ ~torn' => ~silent /\ ~torn)
    <3>1. silent \in BOOLEAN /\ torn \in BOOLEAN
      BY <1>1, TypeParts
    <3>2. CASE EndFile
      BY <3>1, <3>2 DEF EndFile
    <3>3. CASE Invalidate
      BY <3>1, <3>3 DEF Invalidate
    <3> QED BY <3>2, <3>3, <1>5
  <2>2. var'.count = var.count /\ var'.val = var.val
    <3>1. CASE EndFile
      <4>1. var' = [var EXCEPT !.invalid = FALSE]
        BY <3>1 DEF EndFile
      <4> QED BY <4>1, <1>1 DEF Vars
    <3>2. CASE Invalidate
      <4>1. var' = [var EXCEPT !.invalid = TRUE]
        BY <3>2 DEF Invalidate
      <4> QED BY <4>1, <1>1 DEF Vars
    <3> QED BY <3>1, <3>2, <1>5
  <2> QED BY <2>1, <2>2 DEF PickedInv, PickInv
<1>6. CASE UNCHANGED vars
  BY <1>6 DEF vars, PickedInv, PickInv
<1> QED BY <1>2, <1>3, <1>4, <1>5, <1>6 DEF Next

\* With the aggregators that pick one match, a scan that no file ended early in and
\* no invalidation fell into leaves the first, or the last, of its matches, for
\* any number of files, matches and scans.  (A sum is a recursion over data.)
THEOREM PickedAsSaid ==
  ASSUME Aggregators \subseteq {"First", "Last"}
  PROVE  Spec => []AggregatedIfHeard
<1>1. Init => PickedInv
  <2>1. Init => PickInv
    BY DEF Init, PickInv
  <2> QED BY <2>1, InitInv DEF PickedInv
<1>2. PickedInv /\ [Next]_vars => PickedInv'
  BY PickStep, StepInv DEF PickedInv
<1>3. PickedInv => AggregatedIfHeard
  <2> SUFFICES ASSUME PickedInv, ~silent, ~torn, seen # <<>>
               PROVE  var.val = Aggregate(multi, seen)
    BY DEF AggregatedIfHeard, Aggregated
  <2>1. multi \in {"First", "Last"} /\ seen \in Seq(Values)
    BY DEF PickedInv, IInv, TypeOK
  <2> QED BY <2>1, Picked DEF PickedInv, PickInv
<1> QED BY <1>1, <1>2, <1>3, PTL DEF Spec
=============================================================================
