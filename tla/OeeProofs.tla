----------------------------- MODULE OeeProofs -----------------------------
(***************************************************************************)
(* Theorems about Oee, for any equipment, reasons and length of the day:   *)
(* the downtime records are the seconds the equipment stood, the report    *)
(* counts of each record the seconds that lie in its window, and so their  *)
(* sum is the time stood and no operating time is made up.                 *)
(***************************************************************************)
EXTENDS Oee, FiniteSetTheorems, WellFoundedInduction, TLAPS

-----------------------------------------------------------------------------
(* The invariant.                                                          *)

\* When a record ends that is compared with others: an open one has not ended.
EndsBefore(r, s) == r.to # Open /\ r.to <= s.from

\* Records of one equipment and reason follow each other; so one is open at most.
RowsApart ==
  \A r, s \in rows : r.of = s.of /\ r.reason = s.reason /\ r # s =>
    EndsBefore(r, s) \/ EndsBefore(s, r)

RowsPast == \A row \in rows : row.from <= now /\ row.to <= now

StoodIsCovered ==
  \A e \in Equipment, reason \in Reasons, t \in 0 .. now - 1 :
    <<e, reason, t>> \in stood <=>
      \E row \in rows : row.of = e /\ row.reason = reason /\ Covers(row, t, now)

\* An equipment stands for a reason when a record of it is open.
StandingIsOpen ==
  \A e \in Equipment, reason \in Reasons :
    <<e, reason>> \in standing <=>
      \E row \in rows : row.of = e /\ row.reason = reason /\ row.to = Open

StoodIsPast == \A x \in stood : x[3] < now

OeeInv == OeeTypeOK /\ IsFiniteSet(rows) /\ RowsApart /\ RowsPast
          /\ StandingIsOpen /\ StoodIsPast /\ StoodIsCovered

Rows == [of : Equipment, reason : Reasons, from : 0 .. MaxTime, to : Open .. MaxTime]

-----------------------------------------------------------------------------
(* The steps.                                                              *)

\* A step that changes nothing.
LEMMA NothingChanges ==
  ASSUME OeeInv, UNCHANGED oeeVars
  PROVE  OeeInv'
  BY DEF oeeVars, OeeInv, OeeTypeOK, RowsApart, RowsPast, StandingIsOpen, StoodIsPast,
         StoodIsCovered, Covers, Never

\* A second passes.
LEMMA TickKeeps ==
  ASSUME OeeInv, Tick
  PROVE  OeeInv'
  <1>0. \A y \in standing : y[1] \in Equipment /\ y[2] \in Reasons /\ y = <<y[1], y[2]>>
    BY DEF OeeInv, OeeTypeOK
  <1>1. /\ now \in 0 .. MaxTime /\ now < MaxTime /\ now' = now + 1 /\ MaxTime \in Nat
        /\ rows \subseteq Rows /\ rows' = rows /\ standing' = standing
        /\ planned' = planned /\ first' = first /\ heard' = heard
    BY OeeAssumption DEF OeeInv, OeeTypeOK, Rows, Tick
  <1>2. \A x : x \in stood' <=> x \in stood \/ \E y \in standing : x = <<y[1], y[2], now>>
    BY DEF Tick
  <1>3. \A row \in rows : /\ row.of \in Equipment /\ row.reason \in Reasons
                          /\ row.from \in 0 .. MaxTime /\ row.to \in Open .. MaxTime
    BY <1>1 DEF Rows
  <1>4. OeeTypeOK'
    <2>1. stood \subseteq Equipment \X Reasons \X (0 .. MaxTime - 1)
      BY DEF OeeInv, OeeTypeOK
    <2>2. now \in 0 .. MaxTime - 1
      BY <1>1
    <2>3. stood' \subseteq Equipment \X Reasons \X (0 .. MaxTime - 1)
      BY <1>0, <1>2, <2>1, <2>2
    <2>4. now' \in 0 .. MaxTime
      BY <1>1
    <2> QED
      BY <1>1, <2>3, <2>4 DEF OeeInv, OeeTypeOK
  <1>5. RowsApart' /\ StandingIsOpen'
    BY <1>1 DEF OeeInv, RowsApart, EndsBefore, StandingIsOpen
  <1>6. RowsPast'
    BY <1>1, <1>3 DEF OeeInv, RowsPast, Open
  <1>7. StoodIsPast'
    <2> SUFFICES ASSUME NEW x \in stood' PROVE x[3] < now + 1
      BY <1>1 DEF StoodIsPast
    <2>1. CASE x \in stood
      <3>1. x[3] < now /\ x[3] \in 0 .. MaxTime - 1
        BY <2>1 DEF OeeInv, OeeTypeOK, StoodIsPast
      <3> QED
        BY <1>1, <3>1
    <2>2. CASE \E y \in standing : x = <<y[1], y[2], now>>
      BY <1>1, <2>2
    <2> QED
      BY <1>2, <2>1, <2>2
  <1>8. StoodIsCovered'
    <2>0. 0 .. now' - 1 = 0 .. now
      BY <1>1
    <2>1. ASSUME NEW e \in Equipment, NEW reason \in Reasons, NEW t \in 0 .. now
          PROVE  <<e, reason, t>> \in stood' <=>
                   \E row \in rows : row.of = e /\ row.reason = reason /\ Covers(row, t, now')
      <3>1. CASE t = now
        <4>1. <<e, reason, t>> \notin stood
          BY <1>1, <3>1 DEF OeeInv, StoodIsPast
        <4>2. \A row \in rows : Covers(row, t, now') <=> row.to = Open
          BY <1>1, <1>3, <3>1 DEF OeeInv, RowsPast, Covers, Open
        <4>3. <<e, reason, t>> \in stood' <=> <<e, reason>> \in standing
          BY <1>0, <1>2, <3>1, <4>1
        <4> QED
          BY <4>2, <4>3 DEF OeeInv, StandingIsOpen
      <3>2. CASE t # now
        <4>1. t \in 0 .. now - 1
          BY <1>1, <3>2
        <4>2. \A row \in rows : Covers(row, t, now') <=> Covers(row, t, now)
          BY <1>1, <1>3, <4>1 DEF Covers, Open
        <4>3. <<e, reason, t>> \in stood' <=> <<e, reason, t>> \in stood
          BY <1>2, <3>2
        <4> QED
          BY <4>1, <4>2, <4>3 DEF OeeInv, StoodIsCovered
      <3> QED
        BY <3>1, <3>2
    <2> QED
      BY <1>1, <2>0, <2>1 DEF StoodIsCovered
  <1> QED
    BY <1>1, <1>4, <1>5, <1>6, <1>7, <1>8 DEF OeeInv

\* A report moves stamps only.
LEMMA PushKeeps ==
  ASSUME OeeInv, NEW stamp \in 0 .. now + Ahead, AcceptPush(stamp)
  PROVE  OeeInv'
  <1>1. /\ now \in 0 .. MaxTime /\ MaxTime \in Nat /\ Ahead \in Nat
        /\ first \in 0 .. Never /\ heard \in 0 .. Never
    BY OeeAssumption DEF OeeInv, OeeTypeOK
  <1>2. first' \in 0 .. Never /\ heard' \in 0 .. Never
    BY <1>1 DEF AcceptPush, Smaller, Never
  <1>3. UNCHANGED <<planned, now, rows, standing, stood>>
    BY DEF AcceptPush
  <1> QED
    BY <1>2, <1>3
       DEF OeeInv, OeeTypeOK, RowsApart, RowsPast, StandingIsOpen, StoodIsPast, StoodIsCovered,
           Covers, Never

\* A record is opened when none of its kind is open.
LEMMA NewKeeps ==
  ASSUME OeeInv, NEW e \in Equipment, NEW reason \in Reasons, OpenDowntime(e, reason),
         OpenRows(e, reason) = {}
  PROVE  OeeInv'
  <1> DEFINE new == [of |-> e, reason |-> reason, from |-> now, to |-> Open]
  <1>1. /\ now \in 0 .. MaxTime /\ MaxTime \in Nat /\ rows \subseteq Rows
        /\ rows' = rows \cup {new}
        /\ standing' = standing \cup {<<e, reason>>}
        /\ UNCHANGED <<planned, now, first, heard, stood>>
        /\ \A row \in rows : row.of = e /\ row.reason = reason => row.to # Open
    BY OeeAssumption DEF OeeInv, OeeTypeOK, Rows, OpenDowntime, OpenRows
  <1>2. /\ new.of = e /\ new.reason = reason /\ new.from = now /\ new.to = Open
        /\ new \in Rows
    BY <1>1 DEF Rows, Open
  <1> HIDE DEF new
  <1>3. OeeTypeOK'
    BY <1>1, <1>2 DEF OeeInv, OeeTypeOK, Rows, Never, Open
  <1>4. \A row \in rows : /\ row.from \in 0 .. MaxTime /\ row.to \in Open .. MaxTime
                          /\ row.from <= now /\ row.to <= now
    BY <1>1 DEF Rows, OeeInv, RowsPast
  <1>5. RowsApart'
    <2> SUFFICES ASSUME NEW r \in rows', NEW s \in rows', r.of = s.of, r.reason = s.reason, r # s
                 PROVE  EndsBefore(r, s) \/ EndsBefore(s, r)
      BY DEF RowsApart, EndsBefore
    <2>1. CASE r \in rows /\ s \in rows
      BY <2>1 DEF OeeInv, RowsApart
    <2>2. CASE r \in rows /\ s = new
      BY <1>1, <1>2, <1>4, <2>2 DEF EndsBefore
    <2>3. CASE r = new /\ s \in rows
      BY <1>1, <1>2, <1>4, <2>3 DEF EndsBefore
    <2> QED
      BY <1>1, <2>1, <2>2, <2>3
  <1>6. RowsPast'
    BY <1>1, <1>2, <1>4 DEF RowsPast, Open
  <1>7. StoodIsPast'
    BY <1>1 DEF OeeInv, StoodIsPast
  <1>8. \A t \in 0 .. now - 1 : ~Covers(new, t, now)
    BY <1>1, <1>2 DEF Covers
  <1>9. StoodIsCovered'
    <2>1. ASSUME NEW d \in Equipment, NEW why \in Reasons, NEW t \in 0 .. now - 1
          PROVE  <<d, why, t>> \in stood <=>
                   \E row \in rows' : row.of = d /\ row.reason = why /\ Covers(row, t, now)
      BY <1>1, <1>8 DEF OeeInv, StoodIsCovered
    <2> QED
      BY <1>1, <2>1 DEF StoodIsCovered
  <1>10. IsFiniteSet(rows')
    BY <1>1, FS_AddElement DEF OeeInv
  <1>11. StandingIsOpen'
    <2>1. ASSUME NEW d \in Equipment, NEW why \in Reasons
          PROVE  <<d, why>> \in standing' <=>
                   \E row \in rows' : row.of = d /\ row.reason = why /\ row.to = Open
      <3>1. <<d, why>> \in standing <=>
              \E row \in rows : row.of = d /\ row.reason = why /\ row.to = Open
        BY DEF OeeInv, StandingIsOpen
      <3>2. <<d, why>> \in standing' <=> <<d, why>> \in standing \/ (d = e /\ why = reason)
        BY <1>1
      <3> QED
        BY <1>1, <1>2, <3>1, <3>2
    <2> QED
      BY <2>1 DEF StandingIsOpen
  <1> QED
    BY <1>3, <1>5, <1>6, <1>7, <1>9, <1>10, <1>11 DEF OeeInv

\* A record that is open stays as it is: the equipment stands for that reason already.
LEMMA OpenKeeps ==
  ASSUME OeeInv, NEW e \in Equipment, NEW reason \in Reasons, OpenDowntime(e, reason)
  PROVE  OeeInv'
  <1>1. CASE OpenRows(e, reason) = {}
    BY <1>1, NewKeeps
  <1>2. CASE OpenRows(e, reason) # {}
    <2>1. <<e, reason>> \in standing
      BY <1>2 DEF OeeInv, StandingIsOpen, OpenRows
    <2>2. UNCHANGED oeeVars
      BY <1>2, <2>1 DEF OpenDowntime, oeeVars
    <2> QED
      BY <2>2, NothingChanges
  <1> QED
    BY <1>1, <1>2

\* The record that is open is closed; it keeps its seconds.
LEMMA CloseKeeps ==
  ASSUME OeeInv, NEW e \in Equipment, NEW reason \in Reasons, CloseDowntime(e, reason)
  PROVE  OeeInv'
  <1> DEFINE ending == {row \in rows : row.of = e /\ row.reason = reason /\ row.to = Open}
             Closed(row) == [row EXCEPT !.to = now]
  <1>1. /\ now \in 0 .. MaxTime /\ MaxTime \in Nat /\ rows \subseteq Rows
        /\ rows' = (rows \ ending) \cup {Closed(row) : row \in ending}
        /\ standing' = standing \ {<<e, reason>>}
        /\ UNCHANGED <<planned, now, first, heard, stood>>
    BY OeeAssumption DEF OeeInv, OeeTypeOK, Rows, CloseDowntime, OpenRows
  <1>2. \A row \in rows : /\ row.of \in Equipment /\ row.reason \in Reasons
                          /\ row.from \in 0 .. MaxTime /\ row.to \in Open .. MaxTime
                          /\ row.from <= now /\ row.to <= now
    BY <1>1 DEF Rows, OeeInv, RowsPast
  <1>3. \A row \in ending : /\ Closed(row) \in Rows
                            /\ Closed(row).of = row.of /\ Closed(row).reason = row.reason
                            /\ Closed(row).from = row.from /\ Closed(row).to = now
    BY <1>1 DEF Rows, Open
  <1>4. PICK f \in [rows -> Rows] :
          /\ rows' = {f[row] : row \in rows}
          /\ \A row \in rows : /\ f[row].of = row.of /\ f[row].reason = row.reason
                               /\ f[row].from = row.from
                               /\ f[row].to = row.to \/ (row.to = Open /\ f[row].to = now)
    <2> DEFINE g == [row \in rows |-> IF row \in ending THEN Closed(row) ELSE row]
    <2>1. g \in [rows -> Rows]
      BY <1>1, <1>3
    <2>2. rows' = {g[row] : row \in rows}
      BY <1>1
    <2>3. \A row \in rows : /\ g[row].of = row.of /\ g[row].reason = row.reason
                            /\ g[row].from = row.from
                            /\ g[row].to = row.to \/ (row.to = Open /\ g[row].to = now)
      BY <1>3
    <2> QED
      BY <2>1, <2>2, <2>3
  <1>5. StandingIsOpen'
    <2>1. ASSUME NEW d \in Equipment, NEW why \in Reasons
          PROVE  <<d, why>> \in standing' <=>
                   \E row \in rows' : row.of = d /\ row.reason = why /\ row.to = Open
      <3>1. <<d, why>> \in standing <=>
              \E row \in rows : row.of = d /\ row.reason = why /\ row.to = Open
        BY DEF OeeInv, StandingIsOpen
      <3>2. <<d, why>> \in standing' <=> <<d, why>> \in standing /\ ~(d = e /\ why = reason)
        BY <1>1
      <3>3. \A row : row \in rows' /\ row.to = Open <=> row \in rows \ ending /\ row.to = Open
        <4>1. \A row \in ending : Closed(row).to # Open
          BY <1>1, <1>3 DEF Open
        <4>2. \A row : row \in rows' <=> row \in rows \ ending \/ \E r \in ending : row = Closed(r)
          BY <1>1
        <4> HIDE DEF ending, Closed
        <4> QED
          BY <4>1, <4>2
      <3> QED
        BY <3>1, <3>2, <3>3
    <2> QED
      BY <2>1 DEF StandingIsOpen
  <1> HIDE DEF ending, Closed
  <1>6. OeeTypeOK'
    BY <1>1, <1>4 DEF OeeInv, OeeTypeOK, Rows, Never
  <1>7. RowsApart'
    <2> SUFFICES ASSUME NEW r \in rows, NEW s \in rows,
                        f[r].of = f[s].of, f[r].reason = f[s].reason, f[r] # f[s]
                 PROVE  EndsBefore(f[r], f[s]) \/ EndsBefore(f[s], f[r])
      BY <1>4 DEF RowsApart, EndsBefore
    <2>1. EndsBefore(r, s) \/ EndsBefore(s, r)
      BY <1>4 DEF OeeInv, RowsApart
    <2>2. \A q \in rows : q.to # Open => f[q].to = q.to
      BY <1>4
    <2> QED
      BY <1>4, <2>1, <2>2 DEF EndsBefore
  <1>8. RowsPast'
    BY <1>1, <1>2, <1>4 DEF RowsPast
  <1>9. StoodIsPast'
    BY <1>1 DEF OeeInv, StoodIsPast
  <1>10. \A row \in rows, t \in 0 .. now - 1 : Covers(f[row], t, now) <=> Covers(row, t, now)
    BY <1>1, <1>2, <1>4 DEF Covers, Open
  <1>11. StoodIsCovered'
    <2>1. ASSUME NEW d \in Equipment, NEW why \in Reasons, NEW t \in 0 .. now - 1
          PROVE  <<d, why, t>> \in stood <=>
                   \E row \in rows' : row.of = d /\ row.reason = why /\ Covers(row, t, now)
      <3>1. (\E row \in rows' : row.of = d /\ row.reason = why /\ Covers(row, t, now))
              <=> \E row \in rows : row.of = d /\ row.reason = why /\ Covers(row, t, now)
        BY <1>4, <1>10
      <3> QED
        BY <3>1 DEF OeeInv, StoodIsCovered
    <2>2. stood' = stood /\ now' = now
      BY <1>1
    <2> QED
      BY <2>1, <2>2 DEF StoodIsCovered
  <1>12. IsFiniteSet(rows')
    <2>1. f \in Surjection(rows, rows')
      BY <1>4 DEF Surjection
    <2> QED
      BY <2>1, FS_Surjection DEF OeeInv
  <1> QED
    BY <1>5, <1>6, <1>7, <1>8, <1>9, <1>11, <1>12 DEF OeeInv

-----------------------------------------------------------------------------
(* Sums over finite sets, by induction on their sizes.                      *)

\* The element that a sum over a set takes next.
Taken(S) == CHOOSE x \in S : TRUE

\* A function is the sum of w over the subsets of S, as MapThenSumSet adds it up.
AddsUp(w, S, sum) ==
  sum = [s \in SUBSET S |-> IF s = {} THEN 0 ELSE w[Taken(s)] + sum[s \ {Taken(s)}]]

\* Induction, on a set of numbers.
LEMMA NumbersFromZero ==
  ASSUME NEW T, T \subseteq Nat, 0 \in T, \A n \in T : n + 1 \in T
  PROVE  T = Nat
  <1> DEFINE R == OpToRel(<, Nat)
  <1> SUFFICES ASSUME Nat \ T # {} PROVE FALSE
    OBVIOUS
  <1>1. IsWellFoundedOn(R, Nat)
    BY NatLessThanWellFounded, Zenon
  <1>2. PICK n \in Nat \ T : \A m \in Nat \ T : ~(<<m, n>> \in R)
    <2> HIDE DEF R
    <2> QED BY <1>1, WFMin
  <1>3. \A m \in Nat \ T : ~(m < n)
    BY <1>2 DEF OpToRel
  <1>4. n \in Nat /\ n # 0 /\ n \notin T
    BY <1>2
  <1>5. n - 1 \in Nat /\ n - 1 < n /\ (n - 1) + 1 = n
    BY <1>4
  <1> QED
    BY <1>2, <1>3, <1>4, <1>5

\* What a sum takes next is an element, and leaves one less.
LEMMA OneLess ==
  ASSUME NEW S, IsFiniteSet(S), NEW s \in SUBSET S, s # {}
  PROVE  /\ Taken(s) \in s
         /\ s \ {Taken(s)} \in SUBSET S
         /\ IsFiniteSet(s) /\ IsFiniteSet(s \ {Taken(s)})
         /\ Cardinality(s) \in Nat /\ Cardinality(s \ {Taken(s)}) \in Nat
         /\ Cardinality(s \ {Taken(s)}) + 1 = Cardinality(s)
  <1>1. Taken(s) \in s
    BY DEF Taken
  <1>2. IsFiniteSet(s) /\ Cardinality(s) \in Nat
    BY FS_Subset, FS_CardinalityType
  <1>3. /\ IsFiniteSet(s \ {Taken(s)}) /\ Cardinality(s \ {Taken(s)}) \in Nat
        /\ Cardinality(s \ {Taken(s)}) = Cardinality(s) - 1
    BY <1>1, <1>2, FS_RemoveElement, FS_CardinalityType
  <1> QED
    BY <1>1, <1>2, <1>3

\* What holds of no elements and of one element more holds of every subset.
LEMMA SubsetsFromNone ==
  ASSUME NEW S, IsFiniteSet(S), NEW T, T \subseteq SUBSET S,
         {} \in T, \A s \in SUBSET S : s # {} /\ s \ {Taken(s)} \in T => s \in T
  PROVE  T = SUBSET S
  <1> DEFINE N == {n \in Nat : \A s \in SUBSET S : Cardinality(s) = n => s \in T}
  <1>1. \A s \in SUBSET S : IsFiniteSet(s) /\ Cardinality(s) \in Nat
    BY FS_Subset, FS_CardinalityType
  <1>2. 0 \in N
    BY <1>1, FS_EmptySet
  <1>3. ASSUME NEW n \in N PROVE n + 1 \in N
    <2> SUFFICES ASSUME NEW s \in SUBSET S, Cardinality(s) = n + 1 PROVE s \in T
      OBVIOUS
    <2>1. s # {}
      BY FS_EmptySet
    <2>2. /\ s \ {Taken(s)} \in SUBSET S /\ Cardinality(s \ {Taken(s)}) \in Nat
          /\ Cardinality(s \ {Taken(s)}) + 1 = n + 1
      BY <2>1, OneLess
    <2>3. n \in Nat
      OBVIOUS
    <2>4. Cardinality(s \ {Taken(s)}) = n
      BY <2>2, <2>3
    <2> QED
      BY <2>1, <2>2, <2>4
  <1>4. N = Nat
    <2> HIDE DEF N
    <2>1. N \subseteq Nat
      BY DEF N
    <2> QED
      BY <1>2, <1>3, <2>1, NumbersFromZero
  <1> QED
    BY <1>1, <1>4

\* Every finite sum is defined.
LEMMA SumsExist ==
  ASSUME NEW S, IsFiniteSet(S), NEW w \in [S -> Nat]
  PROVE  \E sum \in [SUBSET S -> Nat] : AddsUp(w, S, sum)
  <1> DEFINE Step(sum, s) == sum[s] = IF s = {} THEN 0 ELSE w[Taken(s)] + sum[s \ {Taken(s)}]
             UpTo(sum, n) == \A s \in SUBSET S : Cardinality(s) <= n => Step(sum, s)
             N == {n \in Nat : \E sum \in [SUBSET S -> Nat] : UpTo(sum, n)}
  <1>1. \A s \in SUBSET S : IsFiniteSet(s) /\ Cardinality(s) \in Nat /\ Cardinality(s) <= Cardinality(S)
    BY FS_Subset, FS_CardinalityType
  <1>2. 0 \in N
    <2>1. \A s \in SUBSET S : Cardinality(s) <= 0 => s = {}
      BY <1>1, FS_EmptySet
    <2>2. UpTo([s \in SUBSET S |-> 0], 0)
      BY <2>1
    <2>3. [s \in SUBSET S |-> 0] \in [SUBSET S -> Nat]
      OBVIOUS
    <2> QED
      BY <2>2, <2>3
  <1>3. ASSUME NEW n \in N PROVE n + 1 \in N
    <2>1. PICK old \in [SUBSET S -> Nat] : UpTo(old, n)
      OBVIOUS
    <2> DEFINE new == [s \in SUBSET S |-> IF Cardinality(s) = n + 1
                                           THEN w[Taken(s)] + old[s \ {Taken(s)}] ELSE old[s]]
    <2>2. \A s \in SUBSET S : s # {} =>
            /\ Taken(s) \in S /\ s \ {Taken(s)} \in SUBSET S
            /\ Cardinality(s \ {Taken(s)}) + 1 = Cardinality(s)
            /\ Cardinality(s \ {Taken(s)}) \in Nat
      BY OneLess
    <2>3. \A s \in SUBSET S : Cardinality(s) = n + 1 => s # {}
      <3>1. Cardinality({}) = 0 /\ n + 1 # 0
        BY FS_EmptySet
      <3> QED
        BY <3>1
    <2>4. new \in [SUBSET S -> Nat]
      BY <2>2, <2>3
    <2>5. ASSUME NEW s \in SUBSET S, Cardinality(s) <= n + 1 PROVE Step(new, s)
      <3>1. CASE s = {}
        <4>1. Cardinality(s) = 0
          BY <3>1, FS_EmptySet
        <4>2. new[s] = old[s] /\ Cardinality(s) <= n
          BY <4>1
        <4> QED
          BY <2>1, <3>1, <4>2
      <3>2. CASE s # {}
        <4>1. Cardinality(s \ {Taken(s)}) # n + 1 /\ new[s \ {Taken(s)}] = old[s \ {Taken(s)}]
          BY <1>1, <2>2, <2>5, <3>2
        <4>2. new[s] = w[Taken(s)] + old[s \ {Taken(s)}]
          <5>1. CASE Cardinality(s) = n + 1
            BY <5>1
          <5>2. CASE Cardinality(s) # n + 1
            <6>1. Cardinality(s) <= n /\ new[s] = old[s]
              BY <1>1, <2>5, <5>2
            <6> QED
              BY <2>1, <3>2, <6>1
          <5> QED
            BY <5>1, <5>2
        <4> QED
          BY <3>2, <4>1, <4>2
      <3> QED
        BY <3>1, <3>2
    <2>6. UpTo(new, n + 1)
      BY <2>5
    <2>7. n + 1 \in Nat
      OBVIOUS
    <2> HIDE DEF new, UpTo
    <2> QED
      BY <2>4, <2>6, <2>7
  <1>4. N = Nat
    <2> HIDE DEF N
    <2>1. N \subseteq Nat
      BY DEF N
    <2> QED
      BY <1>2, <1>3, <2>1, NumbersFromZero
  <1>5. PICK sum \in [SUBSET S -> Nat] : UpTo(sum, Cardinality(S))
    BY <1>4, FS_CardinalityType
  <1>6. \A s \in SUBSET S : Step(sum, s)
    BY <1>1, <1>5
  <1> QED
    BY <1>6 DEF AddsUp

\* What a sum is, step by step.
LEMMA SumStep ==
  ASSUME NEW S, NEW w, NEW sum, AddsUp(w, S, sum)
  PROVE  /\ sum[{}] = 0
         /\ \A s \in SUBSET S : s # {} => sum[s] = w[Taken(s)] + sum[s \ {Taken(s)}]
  BY DEF AddsUp

\* Sums that are added up of the same values are the same.
LEMMA SumIsOne ==
  ASSUME NEW S, IsFiniteSet(S), NEW w, NEW sum, NEW other, AddsUp(w, S, sum), AddsUp(w, S, other)
  PROVE  sum = other
  <1> DEFINE T == {s \in SUBSET S : sum[s] = other[s]}
  <1>1. T = SUBSET S
    <2>1. {} \in T
      BY SumStep
    <2>2. \A s \in SUBSET S : s # {} /\ s \ {Taken(s)} \in T => s \in T
      BY SumStep
    <2> HIDE DEF T
    <2>3. T \subseteq SUBSET S
      BY DEF T
    <2> QED
      BY <2>1, <2>2, <2>3, SubsetsFromNone
  <1> QED
    BY <1>1 DEF AddsUp

\* The sum of the sizes of sets that lie apart is the size of their union.
LEMMA SumOfSizes ==
  ASSUME NEW S, IsFiniteSet(S), NEW c, NEW w,
         \A x \in S : IsFiniteSet(c[x]) /\ w[x] = Cardinality(c[x]),
         \A x, y \in S : x # y => c[x] \cap c[y] = {},
         NEW sum, AddsUp(w, S, sum)
  PROVE  sum[S] = Cardinality(UNION {c[x] : x \in S})
  <1> DEFINE All(s) == UNION {c[x] : x \in s}
             T == {s \in SUBSET S : IsFiniteSet(All(s)) /\ sum[s] = Cardinality(All(s))}
  <1>0. \A s \in SUBSET S : s # {} => sum[s] = w[Taken(s)] + sum[s \ {Taken(s)}]
    BY SumStep
  <1>1. {} \in T
    <2>1. All({}) = {}
      OBVIOUS
    <2> QED
      BY <2>1, SumStep, FS_EmptySet
  <1>2. ASSUME NEW s \in SUBSET S, s # {}, s \ {Taken(s)} \in T
        PROVE  s \in T
    <2> DEFINE x == Taken(s)
               r == s \ {x}
    <2>1. x \in s /\ x \in S
      BY <1>2, OneLess
    <2> HIDE DEF x
    <2>2. All(s) = c[x] \cup All(r)
      BY <2>1
    <2>3. c[x] \cap All(r) = {}
      BY <2>1
    <2>4. IsFiniteSet(All(r)) /\ sum[r] = Cardinality(All(r)) /\ Cardinality(All(r)) \in Nat
      BY <1>2, FS_CardinalityType DEF x
    <2>5. IsFiniteSet(c[x]) /\ Cardinality(c[x]) \in Nat
      BY <2>1, FS_CardinalityType
    <2> HIDE DEF All
    <2>6. /\ IsFiniteSet(c[x] \cup All(r))
          /\ Cardinality(c[x] \cup All(r)) = Cardinality(c[x]) + Cardinality(All(r))
      <3>1. Cardinality({}) = 0
        BY FS_EmptySet
      <3>2. /\ IsFiniteSet(c[x] \cup All(r))
            /\ Cardinality(c[x] \cup All(r)) = Cardinality(c[x]) + Cardinality(All(r)) - Cardinality({})
        <4> HIDE DEF r
        <4> QED
          BY <2>3, <2>4, <2>5, FS_Union
      <3> QED
        BY <2>4, <2>5, <3>1, <3>2
    <2>7. sum[s] = w[x] + sum[r]
      <3>1. sum[s] = w[Taken(s)] + sum[s \ {Taken(s)}]
        BY <1>0, <1>2
      <3> QED
        BY <3>1 DEF x
    <2> QED
      BY <2>1, <2>2, <2>4, <2>6, <2>7
  <1>3. T = SUBSET S
    <2> HIDE DEF T
    <2>1. T \subseteq SUBSET S
      BY DEF T
    <2> QED
      BY <1>1, <1>2, <2>1, SubsetsFromNone
  <1>4. sum[S] = Cardinality(All(S))
    BY <1>3
  <1> QED
    BY <1>4

\* What two values cover together for each element their sums cover for all.
LEMMA SumsCover ==
  ASSUME NEW S, IsFiniteSet(S), NEW p \in Nat, NEW d \in [S -> Nat], NEW u \in [S -> Nat],
         \A x \in S : p <= d[x] + u[x],
         NEW sumD \in [SUBSET S -> Nat], AddsUp(d, S, sumD),
         NEW sumU \in [SUBSET S -> Nat], AddsUp(u, S, sumU)
  PROVE  p * Cardinality(S) <= sumD[S] + sumU[S]
  <1> DEFINE T == {s \in SUBSET S : p * Cardinality(s) <= sumD[s] + sumU[s]}
  <1>1. {} \in T
    BY FS_EmptySet, SumStep
  <1>2. ASSUME NEW s \in SUBSET S, s # {}, s \ {Taken(s)} \in T
        PROVE  s \in T
    <2> DEFINE x == Taken(s)
               r == s \ {x}
    <2>1. /\ x \in S /\ r \in SUBSET S /\ Cardinality(r) \in Nat
          /\ Cardinality(s) = Cardinality(r) + 1
      BY <1>2, OneLess
    <2>2. sumD[s] = d[x] + sumD[r] /\ sumU[s] = u[x] + sumU[r]
      BY <1>2, SumStep
    <2>3. p * Cardinality(r) <= sumD[r] + sumU[r]
      BY <1>2
    <2> HIDE DEF x, r
    <2>4. \A n \in Nat : p * n \in Nat /\ p * (n + 1) = p * n + p
      OBVIOUS
    <2>5. /\ p * Cardinality(s) = p * Cardinality(r) + p /\ p * Cardinality(r) \in Nat
          /\ d[x] \in Nat /\ u[x] \in Nat /\ sumD[r] \in Nat /\ sumU[r] \in Nat
          /\ p <= d[x] + u[x]
      BY <2>1, <2>4
    <2> QED
      BY <2>2, <2>3, <2>5
  <1>3. T = SUBSET S
    <2>1. T \subseteq SUBSET S
      OBVIOUS
    <2>2. \A s \in SUBSET S : s # {} /\ s \ {Taken(s)} \in T => s \in T
      BY <1>2
    <2> HIDE DEF T
    <2> QED
      BY <1>1, <2>1, <2>2, SubsetsFromNone
  <1> QED
    BY <1>3

-----------------------------------------------------------------------------
(* What the sums of the report add up to, in a state of the invariant.       *)

\* What the report counts of one record are the seconds it covers in the window.
LEMMA RowSeconds ==
  ASSUME OeeInv, NEW row \in rows
  PROVE  Seconds(row) = Cardinality({t \in Moments : Covers(row, t, now)})
  <1> DEFINE begin == Larger(row.from, Start)
             end == IF row.to = Open THEN now ELSE row.to
  <1>1. /\ now \in Nat /\ planned \in Nat /\ first \in Nat
        /\ row.from \in Nat /\ row.to \in Open .. MaxTime /\ MaxTime \in Nat
        /\ row.from <= now /\ row.to <= now
    <2>1. MaxTime \in Nat /\ Ahead \in Nat /\ Settings \subseteq Nat
      BY OeeAssumption
    <2>2. Never \in Nat
      BY <2>1 DEF Never
    <2>3. /\ planned \in Settings /\ now \in 0 .. MaxTime /\ first \in 0 .. Never
          /\ rows \subseteq Rows
      BY DEF OeeInv, OeeTypeOK, Rows
    <2>4. row.from \in 0 .. MaxTime /\ row.to \in Open .. MaxTime
      BY <2>3 DEF Rows
    <2>5. row.from <= now /\ row.to <= now
      BY DEF OeeInv, RowsPast
    <2> QED
      BY <2>1, <2>2, <2>3, <2>4, <2>5
  <1>2. Start \in Int
    BY <1>1 DEF Start, LineOpenAt
  <1>3. /\ begin \in Nat /\ begin >= row.from /\ begin >= Start
        /\ begin = row.from \/ begin = Start
    BY <1>1, <1>2 DEF Larger
  <1>4. end \in Nat /\ end <= now
    BY <1>1 DEF Open
  <1>5. \A t : Covers(row, t, now) <=> row.from <= t /\ t < end
    BY DEF Covers
  <1>6. Seconds(row) = Larger(end - begin, 0)
    BY DEF Seconds
  <1> HIDE DEF begin, end
  <1>7. {t \in Moments : Covers(row, t, now)} = begin .. end - 1
    BY <1>1, <1>2, <1>3, <1>4, <1>5 DEF Moments
  <1>8. Cardinality(begin .. end - 1) = IF begin > end - 1 THEN 0 ELSE end - 1 - begin + 1
    BY <1>3, <1>4, FS_Interval
  <1>9. Larger(end - begin, 0) = Cardinality(begin .. end - 1)
    BY <1>3, <1>4, <1>8 DEF Larger
  <1> QED
    BY <1>6, <1>7, <1>9, Zenon

\* The sum that a report takes over a set is one that adds up.
LEMMA SecondsAddUp ==
  ASSUME NEW S, IsFiniteSet(S), NEW w \in [S -> Nat], \A x \in S : w[x] = Seconds(x)
  PROVE  \E sum \in [SUBSET S -> Nat] : AddsUp(w, S, sum) /\ MapThenSumSet(Seconds, S) = sum[S]
  <1> DEFINE Adds(sum) == sum = [s \in SUBSET S |->
               IF s = {} THEN 0
               ELSE LET x == CHOOSE x \in s : TRUE IN Seconds(x) + sum[s \ {x}]]
             iter == CHOOSE sum : Adds(sum)
  <1>1. MapThenSumSet(Seconds, S) = iter[S]
    BY DEF MapThenSumSet, MapThenFoldSet
  <1>2. \A s \in SUBSET S : s # {} => Taken(s) \in s /\ w[Taken(s)] = Seconds(Taken(s))
    BY DEF Taken
  <1>3. \A sum : AddsUp(w, S, sum) <=> Adds(sum)
    BY <1>2 DEF AddsUp, Taken
  <1> HIDE DEF Adds
  <1>4. PICK sum \in [SUBSET S -> Nat] : AddsUp(w, S, sum)
    BY SumsExist
  <1>5. AddsUp(w, S, iter)
    BY <1>3, <1>4
  <1> HIDE DEF iter
  <1>6. sum = iter
    BY <1>4, <1>5, SumIsOne
  <1> QED
    BY <1>1, <1>4, <1>6

\* The window is a stretch of seconds.
LEMMA MomentsFinite ==
  ASSUME OeeInv
  PROVE  IsFiniteSet(Moments) /\ Cardinality(Moments) \in Nat
  <1>1. now \in Nat
    BY OeeAssumption DEF OeeInv, OeeTypeOK
  <1>2. IsFiniteSet(0 .. now - 1)
    BY <1>1, FS_Interval
  <1>3. IsFiniteSet(Moments)
    BY <1>2, FS_Subset DEF Moments
  <1> QED
    BY <1>3, FS_CardinalityType

\* The seconds of the records of one equipment are the seconds it stood.
LEMMA DowntimeOfOne ==
  ASSUME OeeInv, NEW e \in Equipment
  PROVE  /\ IsFiniteSet(StoodFor(e))
         /\ DowntimeSeconds(e) = Cardinality(StoodFor(e))
  <1> DEFINE S == {row \in rows : row.of = e}
             Hit(row) == {t \in Moments : Covers(row, t, now)}
             c == [row \in S |-> {<<e, row.reason, t>> : t \in Hit(row)}]
             w == [row \in S |-> Cardinality(Hit(row))]
  <1>1. IsFiniteSet(S)
    BY FS_Subset DEF OeeInv
  <1>2. \A row \in S : IsFiniteSet(Hit(row)) /\ Cardinality(Hit(row)) \in Nat
    BY MomentsFinite, FS_Subset, FS_CardinalityType
  <1>3. ASSUME NEW row \in S
        PROVE  IsFiniteSet(c[row]) /\ w[row] = Cardinality(c[row])
    <2> DEFINE f == [t \in Hit(row) |-> <<e, row.reason, t>>]
    <2>0. c[row] = {<<e, row.reason, t>> : t \in Hit(row)} /\ w[row] = Cardinality(Hit(row))
      OBVIOUS
    <2> HIDE DEF c, w, Hit
    <2>1. f \in Bijection(Hit(row), c[row])
      <3>1. f \in [Hit(row) -> c[row]]
        BY <2>0
      <3>2. \A t, u \in Hit(row) : f[t] = f[u] => t = u
        OBVIOUS
      <3>3. \A x \in c[row] : \E t \in Hit(row) : f[t] = x
        BY <2>0
      <3> QED
        BY <3>1, <3>2, <3>3 DEF Bijection, Injection, Surjection, IsInjective
    <2> HIDE DEF f
    <2>2. ExistsBijection(Hit(row), c[row])
      BY <2>1 DEF ExistsBijection
    <2> QED
      BY <1>2, <2>0, <2>2, FS_Bijection
  <1>4. \A row \in S : w[row] = Seconds(row)
    BY RowSeconds
  <1>5. w \in [S -> Nat]
    BY <1>2
  <1>6. ASSUME NEW r \in S, NEW s \in S, r # s PROVE c[r] \cap c[s] = {}
    <2> SUFFICES ASSUME NEW t \in Hit(r), t \in Hit(s), r.reason = s.reason PROVE FALSE
      OBVIOUS
    <2>1. EndsBefore(r, s) \/ EndsBefore(s, r)
      BY <1>6 DEF OeeInv, RowsApart
    <2>2. /\ t \in Int /\ now \in Int
          /\ r.from \in Int /\ r.to \in Int /\ s.from \in Int /\ s.to \in Int
      BY OeeAssumption DEF OeeInv, OeeTypeOK, Moments, Open
    <2> QED
      BY <2>1, <2>2 DEF Covers, EndsBefore
  <1>7. UNION {c[row] : row \in S} = StoodFor(e)
    <2>1. \A x : x \in StoodFor(e) <=>
            \E reason \in Reasons, t \in Moments : x = <<e, reason, t>> /\ <<e, reason, t>> \in stood
      <3>1. stood \subseteq Equipment \X Reasons \X (0 .. MaxTime - 1)
        BY DEF OeeInv, OeeTypeOK
      <3>2. \A x \in stood : x[2] \in Reasons /\ x = <<x[1], x[2], x[3]>>
        BY <3>1
      <3>3. \A x : x \in StoodFor(e) <=> x \in stood /\ x[1] = e /\ x[3] \in Moments
        BY DEF StoodFor
      <3>4. ASSUME NEW x \in StoodFor(e)
            PROVE  \E reason \in Reasons, t \in Moments : x = <<e, reason, t>> /\ <<e, reason, t>> \in stood
        <4>1. x = <<e, x[2], x[3]>> /\ x[2] \in Reasons /\ x[3] \in Moments /\ x \in stood
          BY <3>2, <3>3, <3>4
        <4> QED
          BY <4>1
      <3>5. \A reason, t : <<e, reason, t>>[1] = e /\ <<e, reason, t>>[3] = t
        OBVIOUS
      <3>6. ASSUME NEW reason \in Reasons, NEW t \in Moments, <<e, reason, t>> \in stood
            PROVE  <<e, reason, t>> \in StoodFor(e)
        BY <3>3, <3>5, <3>6
      <3> QED
        BY <3>4, <3>6
    <2>2. \A t \in Moments : t \in 0 .. now - 1
      BY DEF Moments
    <2>3. \A reason \in Reasons, t \in Moments :
            <<e, reason, t>> \in stood <=>
              \E row \in S : row.reason = reason /\ Covers(row, t, now)
      BY <2>2 DEF OeeInv, StoodIsCovered
    <2>4. \A row \in S : row.reason \in Reasons
      BY DEF OeeInv, OeeTypeOK
    <2>5. \A x : x \in UNION {c[row] : row \in S} <=>
            \E row \in S, t \in Moments : Covers(row, t, now) /\ x = <<e, row.reason, t>>
      <3>1. \A row \in S : \A x : x \in c[row] <=>
              \E t \in Moments : Covers(row, t, now) /\ x = <<e, row.reason, t>>
        OBVIOUS
      <3> HIDE DEF c, S
      <3> QED
        BY <3>1
    <2> HIDE DEF c, S
    <2> QED
      BY <2>1, <2>3, <2>4, <2>5
  <1>8. \A row \in S : IsFiniteSet(c[row])
    BY <1>3
  <1> HIDE DEF S, c, w, Hit
  <1>9. PICK sum \in [SUBSET S -> Nat] : AddsUp(w, S, sum) /\ MapThenSumSet(Seconds, S) = sum[S]
    BY <1>1, <1>4, <1>5, SecondsAddUp
  <1>10. sum[S] = Cardinality(UNION {c[row] : row \in S})
    BY <1>1, <1>3, <1>6, <1>9, SumOfSizes
  <1>11. DowntimeSeconds(e) = Cardinality(StoodFor(e))
    BY <1>7, <1>9, <1>10 DEF DowntimeSeconds, S
  <1>12. IsFiniteSet(StoodFor(e))
    <2> DEFINE C == {c[row] : row \in S}
    <2>1. IsFiniteSet(C)
      <3> DEFINE g == [row \in S |-> c[row]]
      <3>1. g \in Surjection(S, C)
        BY DEF Surjection
      <3> HIDE DEF g, C
      <3> QED
        BY <1>1, <3>1, FS_Surjection
    <2>2. \A T \in C : IsFiniteSet(T)
      BY <1>8
    <2> HIDE DEF C
    <2>3. IsFiniteSet(UNION C)
      BY <2>1, <2>2, FS_UNION
    <2> QED
      BY <1>7, <2>3 DEF C
  <1> QED
    BY <1>11, <1>12

\* The same of the sum over equipment: a theorem of these provers cannot be given the
\* operator, so each sum of the report has its own.
LEMMA DowntimesAddUp ==
  ASSUME NEW S, IsFiniteSet(S), NEW w \in [S -> Nat], \A x \in S : w[x] = DowntimeSeconds(x)
  PROVE  \E sum \in [SUBSET S -> Nat] : AddsUp(w, S, sum) /\ MapThenSumSet(DowntimeSeconds, S) = sum[S]
  <1> DEFINE Adds(sum) == sum = [s \in SUBSET S |->
               IF s = {} THEN 0
               ELSE LET x == CHOOSE x \in s : TRUE IN DowntimeSeconds(x) + sum[s \ {x}]]
             iter == CHOOSE sum : Adds(sum)
  <1>1. MapThenSumSet(DowntimeSeconds, S) = iter[S]
    BY DEF MapThenSumSet, MapThenFoldSet
  <1>2. \A s \in SUBSET S : s # {} => Taken(s) \in s /\ w[Taken(s)] = DowntimeSeconds(Taken(s))
    BY DEF Taken
  <1>3. \A sum : AddsUp(w, S, sum) <=> Adds(sum)
    BY <1>2 DEF AddsUp, Taken
  <1> HIDE DEF Adds
  <1>4. PICK sum \in [SUBSET S -> Nat] : AddsUp(w, S, sum)
    BY SumsExist
  <1>5. AddsUp(w, S, iter)
    BY <1>3, <1>4
  <1> HIDE DEF iter
  <1>6. sum = iter
    BY <1>4, <1>5, SumIsOne
  <1> QED
    BY <1>1, <1>4, <1>6

\* And of the sum of what really happened.
LEMMA UpSecondsAddUp ==
  ASSUME NEW S, IsFiniteSet(S), NEW w \in [S -> Nat], \A x \in S : w[x] = UpSeconds(x)
  PROVE  \E sum \in [SUBSET S -> Nat] : AddsUp(w, S, sum) /\ MapThenSumSet(UpSeconds, S) = sum[S]
  <1> DEFINE Adds(sum) == sum = [s \in SUBSET S |->
               IF s = {} THEN 0
               ELSE LET x == CHOOSE x \in s : TRUE IN UpSeconds(x) + sum[s \ {x}]]
             iter == CHOOSE sum : Adds(sum)
  <1>1. MapThenSumSet(UpSeconds, S) = iter[S]
    BY DEF MapThenSumSet, MapThenFoldSet
  <1>2. \A s \in SUBSET S : s # {} => Taken(s) \in s /\ w[Taken(s)] = UpSeconds(Taken(s))
    BY DEF Taken
  <1>3. \A sum : AddsUp(w, S, sum) <=> Adds(sum)
    BY <1>2 DEF AddsUp, Taken
  <1> HIDE DEF Adds
  <1>4. PICK sum \in [SUBSET S -> Nat] : AddsUp(w, S, sum)
    BY SumsExist
  <1>5. AddsUp(w, S, iter)
    BY <1>3, <1>4
  <1> HIDE DEF iter
  <1>6. sum = iter
    BY <1>4, <1>5, SumIsOne
  <1> QED
    BY <1>1, <1>4, <1>6

\* In a window of some length the planned time is the seconds of the window.
LEMMA PlannedIsWindow ==
  ASSUME OeeInv, HasWindow, Start >= 0, Start < now
  PROVE  PlannedTime \in Nat /\ PlannedTime = Cardinality(Moments)
  <1>1. now \in Nat /\ planned \in Nat /\ first \in Nat
    <2>1. Never \in Nat
      BY OeeAssumption DEF Never
    <2> QED
      BY <2>1, OeeAssumption DEF OeeInv, OeeTypeOK
  <1>2. Start \in Nat
    BY <1>1 DEF Start, LineOpenAt
  <1>3. PlannedTime = now - Start
    BY <1>1, <1>2 DEF PlannedTime, Start, LineOpenAt, Larger
  <1>4. Moments = Start .. now - 1
    BY <1>1, <1>2 DEF Moments
  <1>5. Cardinality(Start .. now - 1) = now - Start
    BY <1>1, <1>2, FS_Interval
  <1>6. Cardinality(Moments) = Cardinality(Start .. now - 1)
    BY <1>4, Zenon
  <1> QED
    BY <1>1, <1>2, <1>3, <1>5, <1>6

\* An equipment was up when it did not stand.
LEMMA UpOfOne ==
  ASSUME OeeInv, NEW e \in Equipment
  PROVE  /\ UpSeconds(e) \in Nat /\ DowntimeSeconds(e) \in Nat
         /\ Cardinality(Moments) <= DowntimeSeconds(e) + UpSeconds(e)
         /\ OneReasonAtATime(e) => Cardinality(Moments) = DowntimeSeconds(e) + UpSeconds(e)
  <1> DEFINE M == Moments
             X == StoodFor(e)
             D == {t \in M : \E x \in X : x[3] = t}
             f == [x \in X |-> x[3]]
  <1>1. IsFiniteSet(X) /\ DowntimeSeconds(e) = Cardinality(X) /\ Cardinality(X) \in Nat
    BY DowntimeOfOne, FS_CardinalityType
  <1>2. IsFiniteSet(M) /\ Cardinality(M) \in Nat
    BY MomentsFinite
  <1>3. \A x \in X : x[3] \in M
    BY DEF StoodFor
  <1>4. D \subseteq M /\ M \cap D = D
    OBVIOUS
  <1>5. UpSeconds(e) = Cardinality(M \ D)
    <2>1. M \ D = {t \in M : ~\E x \in X : x[3] = t}
      OBVIOUS
    <2> QED
      BY <2>1 DEF UpSeconds
  <1>6. f \in Surjection(X, D)
    BY <1>3 DEF Surjection
  <1>7. OneReasonAtATime(e) => f \in Injection(X, D)
    BY <1>3 DEF OneReasonAtATime, Injection, IsInjective
  <1> HIDE DEF f, D, M, X
  <1>8. /\ IsFiniteSet(D) /\ Cardinality(D) <= Cardinality(X) /\ Cardinality(D) \in Nat
        /\ f \in Injection(X, D) => Cardinality(D) = Cardinality(X)
    BY <1>1, <1>6, FS_Surjection, FS_CardinalityType
  <1>9. Cardinality(M \ D) = Cardinality(M) - Cardinality(M \cap D) /\ IsFiniteSet(M \ D)
    BY <1>2, FS_Difference
  <1>10. Cardinality(M \cap D) = Cardinality(D)
    BY <1>4, Zenon
  <1>11. Cardinality(M \ D) \in Nat
    BY <1>9, FS_CardinalityType
  <1>12. Cardinality(M) = Cardinality(Moments)
    BY Zenon DEF M
  <1> QED
    BY <1>1, <1>2, <1>5, <1>7, <1>8, <1>9, <1>10, <1>11, <1>12

\* What an equipment is given is what it was up or less; the line's sums follow.
LEMMA NoneMadeUp ==
  ASSUME OeeInv
  PROVE  NoOperatingTimeMadeUp
  <1> SUFFICES ASSUME HasWindow, Start >= 0, Start < now
               PROVE  /\ \A e \in Equipment : /\ OperatingTime(e) <= UpSeconds(e)
                                              /\ OneReasonAtATime(e) => OperatingTime(e) = UpSeconds(e)
                      /\ LineOperatingTime <= MapThenSumSet(UpSeconds, Equipment)
    BY DEF NoOperatingTimeMadeUp
  <1> DEFINE p == PlannedTime
             d == [e \in Equipment |-> DowntimeSeconds(e)]
             u == [e \in Equipment |-> UpSeconds(e)]
  <1>1. p \in Nat /\ p = Cardinality(Moments)
    BY PlannedIsWindow
  <1>2. \A e \in Equipment :
          /\ UpSeconds(e) \in Nat /\ DowntimeSeconds(e) \in Nat
          /\ p <= DowntimeSeconds(e) + UpSeconds(e)
          /\ OneReasonAtATime(e) => p = DowntimeSeconds(e) + UpSeconds(e)
    BY <1>1, UpOfOne
  <1>3. \A e \in Equipment : OperatingTime(e) = Larger(p - DowntimeSeconds(e), 0)
    BY DEF OperatingTime
  <1>4. d \in [Equipment -> Nat] /\ u \in [Equipment -> Nat] /\ \A e \in Equipment : p <= d[e] + u[e]
    BY <1>2
  <1>5. /\ \A e \in Equipment : d[e] = DowntimeSeconds(e)
        /\ \A e \in Equipment : u[e] = UpSeconds(e)
    OBVIOUS
  <1>6. LineOperatingTime = Larger(p * Cardinality(Equipment) - MapThenSumSet(DowntimeSeconds, Equipment), 0)
    BY DEF LineOperatingTime
  <1>7. IsFiniteSet(Equipment) /\ Cardinality(Equipment) \in Nat
    BY OeeAssumption, FS_CardinalityType
  <1> HIDE DEF p, d, u
  <1>8. PICK sumD \in [SUBSET Equipment -> Nat] :
          AddsUp(d, Equipment, sumD) /\ MapThenSumSet(DowntimeSeconds, Equipment) = sumD[Equipment]
    BY <1>4, <1>5, <1>7, DowntimesAddUp
  <1>9. PICK sumU \in [SUBSET Equipment -> Nat] :
          AddsUp(u, Equipment, sumU) /\ MapThenSumSet(UpSeconds, Equipment) = sumU[Equipment]
    BY <1>4, <1>5, <1>7, UpSecondsAddUp
  <1>10. p * Cardinality(Equipment) <= sumD[Equipment] + sumU[Equipment]
    BY <1>1, <1>4, <1>7, <1>8, <1>9, SumsCover
  <1>11. /\ sumD[Equipment] \in Nat /\ sumU[Equipment] \in Nat
         /\ p * Cardinality(Equipment) \in Nat
    BY <1>1, <1>7
  <1>12. LineOperatingTime <= MapThenSumSet(UpSeconds, Equipment)
    BY <1>6, <1>8, <1>9, <1>10, <1>11 DEF Larger
  <1>13. \A e \in Equipment : /\ OperatingTime(e) <= UpSeconds(e)
                              /\ OneReasonAtATime(e) => OperatingTime(e) = UpSeconds(e)
    <2> SUFFICES ASSUME NEW e \in Equipment
                 PROVE  /\ OperatingTime(e) <= UpSeconds(e)
                        /\ OneReasonAtATime(e) => OperatingTime(e) = UpSeconds(e)
      OBVIOUS
    <2>1. OperatingTime(e) = IF p - DowntimeSeconds(e) > 0 THEN p - DowntimeSeconds(e) ELSE 0
      BY <1>3 DEF Larger
    <2> QED
      BY <1>1, <1>2, <2>1
  <1> QED
    BY <1>12, <1>13

-----------------------------------------------------------------------------
(* The theorems.                                                           *)

\* Records, stamps and seconds stay what they are, and records of one equipment
\* and reason follow each other.
THEOREM OeeCorrect == OeeSpec => []OeeInv
  <1>1. OeeInit => OeeInv
    <2> SUFFICES ASSUME OeeInit PROVE OeeInv
      OBVIOUS
    <2>1. MaxTime \in Nat /\ Never \in Nat
      BY OeeAssumption DEF Never
    <2> QED
      BY <2>1, FS_EmptySet DEF OeeInit, OeeInv, OeeTypeOK, RowsApart, RowsPast, StandingIsOpen,
                              StoodIsPast, StoodIsCovered
  <1>2. OeeInv /\ [OeeNext]_oeeVars => OeeInv'
    <2> SUFFICES ASSUME OeeInv, [OeeNext]_oeeVars PROVE OeeInv'
      OBVIOUS
    <2>1. CASE UNCHANGED oeeVars
      BY <2>1, NothingChanges
    <2> QED
      BY <2>1, TickKeeps, PushKeeps, OpenKeeps, CloseKeeps DEF OeeNext
  <1> QED
    BY <1>1, <1>2, PTL DEF OeeSpec

\* Every variable keeps its type.
THEOREM OeeTypeCorrect == OeeSpec => []OeeTypeOK
  BY OeeCorrect, PTL DEF OeeInv

\* The downtime records are the seconds stood: none is missing, none is made up and
\* none is covered twice.
THEOREM RecordsHold == OeeSpec => []SecondsAreRecordedOnce
  <1>1. OeeInv => SecondsAreRecordedOnce
    <2> SUFFICES ASSUME OeeInv PROVE SecondsAreRecordedOnce
      OBVIOUS
    <2>1. /\ now \in 0 .. MaxTime /\ MaxTime \in Nat
          /\ \A row \in rows : row.from \in 0 .. MaxTime /\ row.to \in Open .. MaxTime
      BY OeeAssumption DEF OeeInv, OeeTypeOK
    <2>2. \A r, s \in rows : EndsBefore(r, s) =>
            \A t \in 0 .. now - 1 : ~(Covers(r, t, now) /\ Covers(s, t, now))
      BY <2>1 DEF EndsBefore, Covers, Open
    <2> QED
      BY <2>2 DEF OeeInv, StoodIsCovered, RowsApart, SecondsAreRecordedOnce
  <1> QED
    BY <1>1, OeeCorrect, PTL

\* What the report counts of a record are the seconds it covers in the window,
\* wherever the window begins: before the day, within the record, or after it.
THEOREM RecordCountsItsSeconds ==
  OeeSpec => [](\A row \in rows : Seconds(row) = Cardinality({t \in Moments : Covers(row, t, now)}))
  <1> DEFINE Counted ==
        \A row \in rows : Seconds(row) = Cardinality({t \in Moments : Covers(row, t, now)})
  <1>1. OeeInv => Counted
    BY RowSeconds
  <1> QED
    BY <1>1, OeeCorrect, PTL

\* The records, cut at the window and open ones up to now, add up to the seconds
\* that the equipment stood.
THEOREM DowntimeAddsUp == OeeSpec => []DowntimeIsTimeStood
  <1>1. OeeInv => DowntimeIsTimeStood
    BY DowntimeOfOne DEF DowntimeIsTimeStood
  <1> QED
    BY <1>1, OeeCorrect, PTL

\* No operating time is made up, of an equipment or of the line.
THEOREM OperatingTimeIsReal == OeeSpec => []NoOperatingTimeMadeUp
  BY NoneMadeUp, OeeCorrect, PTL
=============================================================================
