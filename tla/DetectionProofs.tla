-------------------------- MODULE DetectionProofs ---------------------------
(***************************************************************************)
(* What the runner and iptsd read in a report descriptor, for descriptors  *)
(* of any length, nesting and order of items: on the regular ones both end *)
(* up with the same reports and collections.                               *)
(***************************************************************************)
EXTENDS Detection, FiniteSetTheorems, SequenceTheorems, TLAPS

-----------------------------------------------------------------------------
(* Types.                                                                  *)

UsageTags == Nat \X Nat
ReportIds == {NoID} \cup 0..255

HidGlobals == [usage_page : Nat, report_id : ReportIds, report_count : Nat, report_size : Nat]
HidFields == [usage : UsageTags, usage_min : UsageTags, usage_max : UsageTags]
HidReports == [type : ReportTags, report_id : ReportIds, bits : Nat, fields : Seq(HidFields)]
HidHeads == [type : Nat, usage : UsageTags]
HidCollections ==
    [type : Nat, usage : UsageTags, reports : Seq(HidReports), closed : Seq(HidReports),
     inner : Seq(HidHeads)]

\* An entry of the table of the detector.
Entries == [type : ReportTags, report_id : ReportIds, total_bits : Nat, usages : Seq(UsageTags)]

HidType ==
    /\ m_global \in HidGlobals /\ m_global_stack \in Seq(HidGlobals)
    /\ m_local \in HidFields
    /\ m_collection \in HidCollections /\ m_collection_stack \in Seq(HidCollections)
    /\ status \in {"parsing", "done", "thrown", "undefined"}

DetectorType ==
    /\ state \in [usage_page : Nat, report_id : ReportIds, report_count : Nat, report_size : Nat,
                  usage : UsageTags, collection_depth : 0..MAX_COLLECTION_DEPTH,
                  reports : Seq(Entries), has_touchscreen : BOOLEAN, has_touchpad : BOOLEAN]
    /\ Len(state.reports) <= MAX_REPORTS

InputType ==
    /\ pending \in Seq(Items) /\ blocks \in 0..MaxBlocks
    /\ stacked \in BOOLEAN /\ open \in BOOLEAN

-----------------------------------------------------------------------------
(* What both hold in the middle of a descriptor.                           *)

\* What tells reports apart.
Key(report) == <<report.type, report.report_id>>
KeysOf(S) == {Key(r) : r \in S}
Distinct(reports) == \A i, j \in DOMAIN reports : Key(reports[i]) = Key(reports[j]) => i = j

\* The reports of the collections on a stack, and with them those of one more.
OnStack(stack) == UNION {ToSet(Reports(stack[l])) : l \in DOMAIN stack}
Held(stack, coll) == OnStack(stack) \cup ToSet(Reports(coll))

\* No report is split over two collections, or comes twice in one.
StackUnsplit(stack) ==
    \A l \in DOMAIN stack :
        /\ Distinct(Reports(stack[l]))
        /\ \A k \in DOMAIN stack :
               k # l => KeysOf(ToSet(Reports(stack[k]))) \cap KeysOf(ToSet(Reports(stack[l]))) = {}
Unsplit(stack, coll) ==
    /\ StackUnsplit(stack)
    /\ Distinct(Reports(coll))
    /\ KeysOf(OnStack(stack)) \cap KeysOf(ToSet(Reports(coll))) = {}

\* The detector has had room for everything.
Room(reports) ==
    /\ IsFiniteSet(KeysOf(reports)) /\ Cardinality(KeysOf(reports)) <= MAX_REPORTS
    /\ \A r \in reports : Len(r.fields) <= MAX_USAGES_PER_REPORT /\ r.bits < WORD

\* So far the descriptor is one the two parsers are compared on.  Once it is not
\* it never is again.
Comparable ==
    /\ status \in {"parsing", "done"} /\ ~stacked
    /\ Unsplit(m_collection_stack, m_collection)
    /\ Room(Held(m_collection_stack, m_collection))

\* A report of the tree and an entry of the table say the same.
Same(report, entry) ==
    /\ Key(report) = Key(entry)
    /\ report.bits = entry.total_bits
    /\ Usages(report) = ToSet(entry.usages)
    /\ Len(entry.usages) <= Len(report.fields)

Agree(reports, entries) ==
    /\ \A r \in reports : \E e \in entries : Same(r, e)
    /\ \A e \in entries : \E r \in reports : Same(r, e)

SameReports == Agree(Held(m_collection_stack, m_collection), ToSet(state.reports))

SameItems ==
    /\ m_global.usage_page = state.usage_page /\ m_global.report_id = state.report_id
    /\ m_global.report_count = state.report_count /\ m_global.report_size = state.report_size
    /\ m_local.usage = state.usage

\* An application collection with a usage has been opened.
Heads(stack, coll) ==
    (UNION {ToSet(Collections(stack[l])) : l \in DOMAIN stack}) \cup ToSet(Collections(coll))
Opened(usage) ==
    [type |-> Application, usage |-> usage] \in Heads(m_collection_stack, m_collection)

SameKinds ==
    /\ state.has_touchscreen <=> Opened(TOUCHSCREEN)
    /\ state.has_touchpad <=> Opened(TOUCHPAD)

SameSoFar == SameReports /\ SameItems /\ SameKinds

\* The descriptor itself is no collection.
Root == IF m_collection_stack = <<>> THEN m_collection ELSE m_collection_stack[1]

IInv ==
    /\ HidType /\ DetectorType /\ InputType
    /\ Distinct(state.reports)
    /\ status = "done" => ~open
    /\ Root.usage = NoUsage
    /\ Comparable => SameSoFar

-----------------------------------------------------------------------------
(* Reports in sequences.                                                   *)

LEMMA ToSetConcat ==
  ASSUME NEW S, NEW A \in Seq(S), NEW B \in Seq(S)
  PROVE  ToSet(A \o B) = ToSet(A) \cup ToSet(B)
<1>1. /\ A \o B \in Seq(S) /\ Len(A \o B) = Len(A) + Len(B)
      /\ \A i \in 1..(Len(A) + Len(B)) :
             (A \o B)[i] = IF i <= Len(A) THEN A[i] ELSE B[i - Len(A)]
  BY ConcatProperties
<1>2. Len(A) \in Nat /\ Len(B) \in Nat /\ DOMAIN A = 1..Len(A) /\ DOMAIN B = 1..Len(B)
      /\ DOMAIN (A \o B) = 1..(Len(A) + Len(B))
  BY <1>1
<1>3. ASSUME NEW i \in DOMAIN A PROVE A[i] \in ToSet(A \o B)
  <2>1. i \in DOMAIN (A \o B) /\ (A \o B)[i] = A[i]
    BY <1>1, <1>2
  <2> QED
    BY <2>1 DEF ToSet
<1>4. ASSUME NEW i \in DOMAIN B PROVE B[i] \in ToSet(A \o B)
  <2>1. Len(A) + i \in DOMAIN (A \o B) /\ (A \o B)[Len(A) + i] = B[i]
    BY <1>1, <1>2
  <2> QED
    BY <2>1 DEF ToSet
<1>5. ASSUME NEW i \in DOMAIN (A \o B) PROVE (A \o B)[i] \in ToSet(A) \cup ToSet(B)
  <2>1. CASE i <= Len(A)
    BY <1>1, <1>2, <2>1 DEF ToSet
  <2>2. CASE ~(i <= Len(A))
    <3>1. i - Len(A) \in DOMAIN B /\ (A \o B)[i] = B[i - Len(A)]
      BY <1>1, <1>2, <2>2
    <3> QED
      BY <3>1 DEF ToSet
  <2> QED
    BY <2>1, <2>2
<1> QED
  BY <1>3, <1>4, <1>5 DEF ToSet

LEMMA ToSetAppend ==
  ASSUME NEW S, NEW A \in Seq(S), NEW r \in S
  PROVE  ToSet(Append(A, r)) = ToSet(A) \cup {r}
<1>1. /\ DOMAIN A = 1..Len(A) /\ DOMAIN Append(A, r) = 1..(Len(A) + 1)
      /\ Append(A, r)[Len(A) + 1] = r
      /\ \A i \in 1..Len(A) : Append(A, r)[i] = A[i]
      /\ Len(A) \in Nat
  BY AppendProperties
<1>2. Len(A) + 1 \in DOMAIN Append(A, r) /\ DOMAIN Append(A, r) = DOMAIN A \cup {Len(A) + 1}
  BY <1>1
<1> QED
  BY <1>1, <1>2, Zenon DEF ToSet

LEMMA DistinctConcat ==
  ASSUME NEW S, NEW A \in Seq(S), NEW B \in Seq(S)
  PROVE  Distinct(A \o B) <=> /\ Distinct(A) /\ Distinct(B)
                              /\ KeysOf(ToSet(A)) \cap KeysOf(ToSet(B)) = {}
<1> DEFINE C == A \o B
<1>1. /\ Len(A) \in Nat /\ Len(B) \in Nat /\ DOMAIN A = 1..Len(A) /\ DOMAIN B = 1..Len(B)
      /\ DOMAIN C = 1..(Len(A) + Len(B))
      /\ \A i \in DOMAIN C : C[i] = IF i <= Len(A) THEN A[i] ELSE B[i - Len(A)]
  BY ConcatProperties
<1>2. \A i \in DOMAIN A : i \in DOMAIN C /\ C[i] = A[i]
  BY <1>1
<1>3. \A i \in DOMAIN B : Len(A) + i \in DOMAIN C /\ C[Len(A) + i] = B[i]
  BY <1>1
<1> HIDE DEF C
<1>4. ASSUME Distinct(C) PROVE Distinct(A)
  BY <1>2, <1>4 DEF Distinct
<1>5. ASSUME Distinct(C) PROVE Distinct(B)
  <2> SUFFICES ASSUME NEW i \in DOMAIN B, NEW j \in DOMAIN B, Key(B[i]) = Key(B[j])
               PROVE  i = j
    BY DEF Distinct
  <2>1. Len(A) + i = Len(A) + j
    BY <1>3, <1>5 DEF Distinct
  <2> QED
    BY <1>1, <2>1
<1>6. ASSUME Distinct(C) PROVE KeysOf(ToSet(A)) \cap KeysOf(ToSet(B)) = {}
  <2> SUFFICES ASSUME NEW i \in DOMAIN A, NEW j \in DOMAIN B, Key(A[i]) = Key(B[j])
               PROVE  FALSE
    BY DEF KeysOf, ToSet
  <2>1. i = Len(A) + j
    BY <1>2, <1>3, <1>6 DEF Distinct
  <2> QED
    BY <1>1, <2>1
<1>7. ASSUME Distinct(A), Distinct(B), KeysOf(ToSet(A)) \cap KeysOf(ToSet(B)) = {}
      PROVE  Distinct(C)
  <2>1. \A i \in DOMAIN A, j \in DOMAIN B : Key(A[i]) # Key(B[j])
    BY <1>7 DEF KeysOf, ToSet
  <2> SUFFICES ASSUME NEW i \in DOMAIN C, NEW j \in DOMAIN C, Key(C[i]) = Key(C[j])
               PROVE  i = j
    BY DEF Distinct
  <2>2. CASE i <= Len(A) /\ j <= Len(A)
    <3>1. i \in DOMAIN A /\ j \in DOMAIN A /\ C[i] = A[i] /\ C[j] = A[j]
      BY <1>1, <2>2
    <3> QED
      BY <3>1, <1>7 DEF Distinct
  <2>3. CASE i <= Len(A) /\ ~(j <= Len(A))
    <3>1. i \in DOMAIN A /\ j - Len(A) \in DOMAIN B /\ C[i] = A[i] /\ C[j] = B[j - Len(A)]
      BY <1>1, <2>3
    <3> QED
      BY <3>1, <2>1
  <2>4. CASE ~(i <= Len(A)) /\ j <= Len(A)
    <3>1. j \in DOMAIN A /\ i - Len(A) \in DOMAIN B /\ C[j] = A[j] /\ C[i] = B[i - Len(A)]
      BY <1>1, <2>4
    <3> QED
      BY <3>1, <2>1
  <2>5. CASE ~(i <= Len(A)) /\ ~(j <= Len(A))
    <3>1. i - Len(A) \in DOMAIN B /\ j - Len(A) \in DOMAIN B
          /\ C[i] = B[i - Len(A)] /\ C[j] = B[j - Len(A)]
      BY <1>1, <2>5
    <3>2. i - Len(A) = j - Len(A)
      BY <3>1, <1>7 DEF Distinct
    <3> QED
      BY <1>1, <3>2
  <2> QED
    BY <2>2, <2>3, <2>4, <2>5
<1> QED
  BY <1>4, <1>5, <1>6, <1>7 DEF C

LEMMA DistinctAppend ==
  ASSUME NEW S, NEW A \in Seq(S), NEW r \in S
  PROVE  Distinct(Append(A, r)) <=> Distinct(A) /\ Key(r) \notin KeysOf(ToSet(A))
<1>1. <<r>> \in Seq(S) /\ Append(A, r) = A \o <<r>>
  BY AppendIsConcat
<1>2. Distinct(<<r>>) /\ ToSet(<<r>>) = {r}
  BY DEF Distinct, ToSet
<1>3. Distinct(A \o <<r>>) <=> /\ Distinct(A) /\ Distinct(<<r>>)
                              /\ KeysOf(ToSet(A)) \cap KeysOf(ToSet(<<r>>)) = {}
  BY <1>1, DistinctConcat
<1> QED
  BY <1>1, <1>2, <1>3 DEF KeysOf

-----------------------------------------------------------------------------
(* Collections and stacks of them.                                         *)

LEMMA CollectionType ==
  ASSUME NEW c \in HidCollections
  PROVE  /\ c.reports \in Seq(HidReports) /\ c.closed \in Seq(HidReports)
         /\ Reports(c) \in Seq(HidReports)
         /\ Collections(c) \in Seq(HidHeads)
<1>1. /\ c.reports \in Seq(HidReports) /\ c.closed \in Seq(HidReports)
      /\ c.inner \in Seq(HidHeads) /\ [type |-> c.type, usage |-> c.usage] \in HidHeads
  BY DEF HidCollections, HidHeads
<1>2. <<[type |-> c.type, usage |-> c.usage]>> \in Seq(HidHeads)
  BY <1>1
<1> QED
  BY <1>1, <1>2, ConcatProperties DEF Reports, Collections

LEMMA NewCollectionType ==
  ASSUME NEW type \in Nat, NEW usage \in UsageTags
  PROVE  LET new == NewCollection(type, usage)
         IN  /\ new \in HidCollections /\ new.usage = usage
             /\ Reports(new) = <<>> /\ ToSet(Reports(new)) = {}
             /\ ToSet(Collections(new)) = {[type |-> type, usage |-> usage]}
<1> DEFINE new == NewCollection(type, usage)
<1>1. new \in HidCollections /\ new.usage = usage
      /\ new.reports = <<>> /\ new.closed = <<>> /\ new.inner = <<>> /\ new.type = type
  BY EmptySeq DEF NewCollection, HidCollections
<1> HIDE DEF new
<1>2. Reports(new) = <<>>
  BY <1>1, ConcatEmptySeq, EmptySeq DEF Reports
<1>3. [type |-> type, usage |-> usage] \in HidHeads
  BY DEF HidHeads
<1>4. Collections(new) = <<[type |-> type, usage |-> usage]>>
  BY <1>1, <1>3, ConcatEmptySeq DEF Collections
<1>5. ToSet(<<>>) = {}
  BY DEF ToSet
<1>6. ToSet(<<[type |-> type, usage |-> usage]>>) = {[type |-> type, usage |-> usage]}
  BY DEF ToSet
<1> QED
  BY <1>1, <1>2, <1>4, <1>5, <1>6 DEF new

\* What a pushed collection holds stays on the stack.
LEMMA Pushed ==
  ASSUME NEW stack \in Seq(HidCollections), NEW c \in HidCollections
  PROVE  /\ OnStack(Append(stack, c)) = Held(stack, c)
         /\ StackUnsplit(Append(stack, c)) <=> Unsplit(stack, c)
         /\ \A d : Heads(Append(stack, c), d) = Heads(stack, c) \cup ToSet(Collections(d))
<1> DEFINE n == Len(stack)
           pushed == Append(stack, c)
<1>1. /\ n \in Nat /\ DOMAIN stack = 1..n /\ DOMAIN pushed = 1..(n + 1)
      /\ \A l \in 1..n : pushed[l] = stack[l]
      /\ pushed[n + 1] = c
  BY AppendProperties
<1>2. DOMAIN pushed = DOMAIN stack \cup {n + 1} /\ n + 1 \notin DOMAIN stack
      /\ \A l \in DOMAIN stack : pushed[l] = stack[l]
  BY <1>1
<1> HIDE DEF n, pushed
<1>3. OnStack(pushed) = Held(stack, c)
  BY <1>1, <1>2, Zenon DEF OnStack, Held
<1>4. StackUnsplit(pushed) <=> Unsplit(stack, c)
  <2> DEFINE K(d) == KeysOf(ToSet(Reports(d)))
  <2>1. StackUnsplit(pushed) <=>
            /\ \A l \in DOMAIN stack : Distinct(Reports(stack[l]))
            /\ Distinct(Reports(c))
            /\ \A k, l \in DOMAIN stack : k # l => K(stack[k]) \cap K(stack[l]) = {}
            /\ \A l \in DOMAIN stack : K(stack[l]) \cap K(c) = {}
    <3> HIDE DEF K
    <3>1. StackUnsplit(pushed) <=>
            \A l \in DOMAIN pushed :
              /\ Distinct(Reports(pushed[l]))
              /\ \A k \in DOMAIN pushed : k # l => K(pushed[k]) \cap K(pushed[l]) = {}
      BY DEF StackUnsplit, K
    <3>2. \A l \in DOMAIN stack : l # n + 1
      BY <1>2
    <3>3. \A l \in DOMAIN stack : K(c) \cap K(stack[l]) = K(stack[l]) \cap K(c)
      OBVIOUS
    <3> QED
      BY <3>1, <3>2, <3>3, <1>1, <1>2
  <2>2. (\A l \in DOMAIN stack : K(stack[l]) \cap K(c) = {})
            <=> KeysOf(OnStack(stack)) \cap K(c) = {}
    <3>1. ASSUME NEW key PROVE key \in KeysOf(OnStack(stack)) <=> \E l \in DOMAIN stack : key \in K(stack[l])
      BY DEF OnStack, KeysOf
    <3> HIDE DEF K
    <3> QED
      BY <3>1
  <2> QED
    BY <2>1, <2>2 DEF Unsplit, StackUnsplit
<1>5. ASSUME NEW d PROVE Heads(pushed, d) = Heads(stack, c) \cup ToSet(Collections(d))
  <2> DEFINE H(e) == ToSet(Collections(e))
  <2>1. UNION {H(pushed[l]) : l \in DOMAIN pushed} = (UNION {H(stack[l]) : l \in DOMAIN stack}) \cup H(c)
    <3> HIDE DEF H
    <3> QED
      BY <1>1, <1>2, Zenon
  <2> QED
    BY <2>1 DEF Heads
<1> QED
  BY <1>3, <1>4, <1>5 DEF pushed

\* A stack is the one below its top with the top pushed on it.
LEMMA Popped ==
  ASSUME NEW S, NEW stack \in Seq(S), stack # <<>>
  PROVE  /\ Front(stack) \in Seq(S) /\ Last(stack) \in S
         /\ stack = Append(Front(stack), Last(stack))
         /\ Front(stack) # <<>> => Front(stack)[1] = stack[1]
         /\ Front(stack) = <<>> => Last(stack) = stack[1]
<1> DEFINE n == Len(stack) - 1
<1>1. n \in Nat /\ Len(stack) = n + 1 /\ DOMAIN stack = 1..(n + 1)
      /\ \A i \in 1..(n + 1) : stack[i] \in S
  OBVIOUS
<1>2. Front(stack) = SubSeq(stack, 1, n) /\ Last(stack) = stack[n + 1]
  BY <1>1 DEF Front, Last
<1> HIDE DEF n
<1>3. /\ Front(stack) \in Seq(S) /\ Len(Front(stack)) = n
      /\ \A i \in 1..n : Front(stack)[i] = stack[i]
  BY <1>1, <1>2
<1>4. Last(stack) \in S
  BY <1>1, <1>2
<1>5. stack = Append(Front(stack), Last(stack))
  <2>1. /\ Append(Front(stack), Last(stack)) \in Seq(S)
        /\ Len(Append(Front(stack), Last(stack))) = n + 1
        /\ \A i \in 1..n : Append(Front(stack), Last(stack))[i] = stack[i]
        /\ Append(Front(stack), Last(stack))[n + 1] = stack[n + 1]
    BY <1>2, <1>3, <1>4, AppendProperties
  <2>2. \A i \in 1..Len(stack) : Append(Front(stack), Last(stack))[i] = stack[i]
    BY <1>1, <2>1
  <2> QED
    BY <1>1, <2>1, <2>2, SeqEqual
<1>6. Front(stack) # <<>> => Front(stack)[1] = stack[1]
  BY <1>1, <1>3
<1>7. Front(stack) = <<>> => Last(stack) = stack[1]
  BY <1>1, <1>2, <1>3
<1> QED
  BY <1>3, <1>4, <1>5, <1>6, <1>7

\* What a closed collection holds becomes part of the one around it.
LEMMA Closing ==
  ASSUME NEW stack \in Seq(HidCollections), stack # <<>>, NEW c \in HidCollections
  PROVE  LET d == [Last(stack) EXCEPT !.closed = @ \o Reports(c), !.inner = @ \o Collections(c)]
         IN  /\ d \in HidCollections /\ d.usage = Last(stack).usage
             /\ Held(Front(stack), d) = Held(stack, c)
             /\ Unsplit(Front(stack), d) <=> Unsplit(stack, c)
             /\ Heads(Front(stack), d) = Heads(stack, c)
<1> DEFINE below == Front(stack)
           p == Last(stack)
           d == [p EXCEPT !.closed = @ \o Reports(c), !.inner = @ \o Collections(c)]
           head == [type |-> p.type, usage |-> p.usage]
<1>1. below \in Seq(HidCollections) /\ p \in HidCollections /\ stack = Append(below, p)
  BY Popped
<1> HIDE DEF below, p
<1>2. /\ p.reports \in Seq(HidReports) /\ p.closed \in Seq(HidReports)
      /\ Reports(p) \in Seq(HidReports) /\ Reports(c) \in Seq(HidReports)
      /\ Collections(c) \in Seq(HidHeads) /\ p.inner \in Seq(HidHeads)
      /\ head \in HidHeads /\ <<head>> \in Seq(HidHeads)
  <2>1. /\ p.reports \in Seq(HidReports) /\ p.closed \in Seq(HidReports)
        /\ p.inner \in Seq(HidHeads) /\ head \in HidHeads
    BY <1>1 DEF HidCollections, HidHeads
  <2>2. Reports(p) \in Seq(HidReports) /\ Reports(c) \in Seq(HidReports)
        /\ Collections(c) \in Seq(HidHeads)
    BY <1>1, CollectionType
  <2> HIDE DEF head
  <2> QED
    BY <2>1, <2>2
<1>3. p.closed \o Reports(c) \in Seq(HidReports) /\ p.inner \o Collections(c) \in Seq(HidHeads)
  BY <1>2, ConcatProperties
<1>4. /\ d \in HidCollections /\ d.usage = p.usage /\ d.type = p.type
      /\ d.reports = p.reports /\ d.closed = p.closed \o Reports(c)
      /\ d.inner = p.inner \o Collections(c)
  BY <1>1, <1>3 DEF HidCollections
<1> HIDE DEF d
<1>5. Reports(d) = Reports(p) \o Reports(c)
  <2>1. (p.reports \o p.closed) \o Reports(c) = p.reports \o (p.closed \o Reports(c))
    <3>1. \A A, B, C \in Seq(HidReports) : (A \o B) \o C = A \o (B \o C)
      BY ConcatAssociative
    <3> QED
      BY <1>2, <3>1, Zenon
  <2>2. Reports(d) = d.reports \o d.closed /\ Reports(p) = p.reports \o p.closed
    BY DEF Reports
  <2> QED
    BY <2>1, <2>2, <1>4
<1>6. ToSet(Reports(d)) = ToSet(Reports(p)) \cup ToSet(Reports(c))
  BY <1>2, <1>5, ToSetConcat
<1>7. Held(below, d) = Held(stack, c)
  BY <1>1, <1>6, Pushed DEF Held
<1>8. Unsplit(below, d) <=> Unsplit(stack, c)
  <2>1. Distinct(Reports(d)) <=>
            /\ Distinct(Reports(p)) /\ Distinct(Reports(c))
            /\ KeysOf(ToSet(Reports(p))) \cap KeysOf(ToSet(Reports(c))) = {}
    BY <1>2, <1>5, DistinctConcat
  <2>2. StackUnsplit(stack) <=> Unsplit(below, p)
    BY <1>1, Pushed
  <2>3. OnStack(stack) = OnStack(below) \cup ToSet(Reports(p))
    BY <1>1, Pushed DEF Held
  <2>4. KeysOf(OnStack(stack)) = KeysOf(OnStack(below)) \cup KeysOf(ToSet(Reports(p)))
    BY <2>3 DEF KeysOf
  <2>5. KeysOf(ToSet(Reports(d))) = KeysOf(ToSet(Reports(p))) \cup KeysOf(ToSet(Reports(c)))
    BY <1>6 DEF KeysOf
  <2> QED
    BY <2>1, <2>2, <2>4, <2>5 DEF Unsplit
<1>9. Heads(below, d) = Heads(stack, c)
  <2>0. \A A, B \in Seq(HidHeads) : ToSet(A \o B) = ToSet(A) \cup ToSet(B)
    BY ToSetConcat
  <2>1. ToSet(Collections(p)) = ToSet(<<head>>) \cup ToSet(p.inner)
    <3>1. Collections(p) = <<head>> \o p.inner
      BY DEF Collections
    <3> HIDE DEF head
    <3> QED
      BY <1>2, <2>0, <3>1, Zenon
  <2>2. Collections(d) = <<head>> \o (p.inner \o Collections(c))
    BY <1>4 DEF Collections
  <2>3. ToSet(Collections(d)) = ToSet(<<head>>) \cup ToSet(p.inner) \cup ToSet(Collections(c))
    <3> HIDE DEF head
    <3>1. ToSet(p.inner \o Collections(c)) = ToSet(p.inner) \cup ToSet(Collections(c))
      BY <1>2, ToSetConcat
    <3>2. ToSet(<<head>> \o (p.inner \o Collections(c)))
             = ToSet(<<head>>) \cup ToSet(p.inner \o Collections(c))
      BY <1>2, <1>3, <2>0, Zenon
    <3> QED
      BY <2>2, <3>1, <3>2
  <2>4. Heads(stack, c) = Heads(below, p) \cup ToSet(Collections(c))
    BY <1>1, Pushed
  <2> QED
    BY <2>1, <2>3, <2>4 DEF Heads
<1> QED
  BY <1>4, <1>7, <1>8, <1>9 DEF d, below, p

-----------------------------------------------------------------------------
(* A field is added: by iptsd to a report of the current collection.       *)

NewReport(type) == [type |-> type, report_id |-> m_global.report_id, bits |-> 0, fields |-> <<>>]

LEMMA FieldType ==
  ASSUME HidType, NEW r \in HidReports
  PROVE  /\ WithField(r) \in HidReports
         /\ Key(WithField(r)) = Key(r)
         /\ WithField(r).bits = r.bits + m_global.report_count * m_global.report_size
         /\ Len(WithField(r).fields) = Len(r.fields) + 1
         /\ Usages(WithField(r)) = (Usages(r) \cup {m_local.usage}) \ {NoUsage}
<1>1. m_global.report_count \in Nat /\ m_global.report_size \in Nat
  BY DEF HidType, HidGlobals
<1>2. FieldBits \in Nat
  BY <1>1 DEF FieldBits
<1>3. Field \in HidFields /\ Field.usage = m_local.usage
  BY DEF HidType, HidFields, Field
<1>4. /\ r.fields \in Seq(HidFields) /\ r.bits \in Nat /\ r.type \in ReportTags
      /\ r.report_id \in ReportIds
  BY DEF HidReports
<1>5. /\ Append(r.fields, Field) \in Seq(HidFields)
      /\ Len(Append(r.fields, Field)) = Len(r.fields) + 1
      /\ DOMAIN Append(r.fields, Field) = DOMAIN r.fields \cup {Len(r.fields) + 1}
      /\ \A i \in DOMAIN r.fields : Append(r.fields, Field)[i] = r.fields[i]
      /\ Append(r.fields, Field)[Len(r.fields) + 1] = Field
  BY <1>3, <1>4, AppendProperties
<1>6. /\ WithField(r) \in HidReports
      /\ WithField(r).fields = Append(r.fields, Field)
      /\ WithField(r).bits = r.bits + FieldBits
      /\ WithField(r).type = r.type /\ WithField(r).report_id = r.report_id
  <2> HIDE DEF Field, FieldBits
  <2>1. DOMAIN r = {"type", "report_id", "bits", "fields"} /\ r.bits + FieldBits \in Nat
    BY <1>2, <1>4 DEF HidReports
  <2>2. WithField(r) = [r EXCEPT !.bits = r.bits + FieldBits, !.fields = Append(r.fields, Field)]
    BY DEF WithField
  <2> DEFINE bits == r.bits + FieldBits
             fields == Append(r.fields, Field)
  <2>3. bits \in Nat /\ fields \in Seq(HidFields)
    BY <1>5, <2>1
  <2> HIDE DEF bits, fields
  <2>4. [r EXCEPT !.bits = bits, !.fields = fields] \in HidReports
    BY <2>3 DEF HidReports
  <2>5. LET w == [r EXCEPT !.bits = bits, !.fields = fields]
        IN  w.fields = fields /\ w.bits = bits /\ w.type = r.type /\ w.report_id = r.report_id
    BY <2>1
  <2> QED
    BY <2>2, <2>4, <2>5 DEF bits, fields
<1> HIDE DEF Field
<1>7. Usages(WithField(r)) = (Usages(r) \cup {m_local.usage}) \ {NoUsage}
  <2> DEFINE longer == WithField(r).fields
  <2>1. DOMAIN longer = DOMAIN r.fields \cup {Len(r.fields) + 1}
        /\ (\A i \in DOMAIN r.fields : longer[i].usage = r.fields[i].usage)
        /\ longer[Len(r.fields) + 1].usage = m_local.usage
    BY <1>3, <1>5, <1>6
  <2> HIDE DEF longer
  <2>2. {longer[i].usage : i \in DOMAIN longer}
            = {r.fields[i].usage : i \in DOMAIN r.fields} \cup {m_local.usage}
    BY <2>1, Zenon
  <2> QED
    BY <2>2 DEF Usages, longer
<1> QED
  BY <1>5, <1>6, <1>7 DEF Key, FieldBits

LEMMA ExceptAt ==
  ASSUME NEW S, NEW A \in Seq(S), NEW i \in DOMAIN A, NEW new \in S
  PROVE  LET B == [A EXCEPT ![i] = new]
         IN  /\ B \in Seq(S) /\ Len(B) = Len(A) /\ DOMAIN B = DOMAIN A
             /\ B[i] = new
             /\ \A j \in DOMAIN A : j # i => B[j] = A[j]
  OBVIOUS

\* One report of a sequence gives way to another one of the same key.
LEMMA Replaced ==
  ASSUME NEW S, NEW A \in Seq(S), NEW i \in DOMAIN A, NEW new \in S, Key(new) = Key(A[i]),
         NEW B \in Seq(S), DOMAIN B = DOMAIN A, B[i] = new,
         \A j \in DOMAIN A : j # i => B[j] = A[j]
  PROVE  /\ KeysOf(ToSet(B)) = KeysOf(ToSet(A))
         /\ Distinct(B) <=> Distinct(A)
         /\ \A r \in ToSet(A) : r = A[i] \/ r \in ToSet(B)
         /\ new \in ToSet(B)
         /\ Distinct(A) =>
                \A r : r \in ToSet(B) <=> r = new \/ (r \in ToSet(A) /\ Key(r) # Key(new))
<1>1. DOMAIN B = DOMAIN A /\ B[i] = new /\ \A j \in DOMAIN A : j # i => B[j] = A[j]
  OBVIOUS
<1>2. \A j \in DOMAIN A : Key(B[j]) = Key(A[j])
  BY <1>1
<1>3. KeysOf(ToSet(B)) = KeysOf(ToSet(A))
  <2>1. KeysOf(ToSet(B)) = {Key(B[j]) : j \in DOMAIN B} /\ KeysOf(ToSet(A)) = {Key(A[j]) : j \in DOMAIN A}
    BY Zenon DEF KeysOf, ToSet
  <2>2. \A j \in DOMAIN A : Key(B[j]) = Key(A[j])
    BY <1>2
  <2>3. DOMAIN B = DOMAIN A
    BY <1>1
  <2>4. ASSUME NEW k PROVE k \in KeysOf(ToSet(B)) <=> k \in KeysOf(ToSet(A))
    BY <2>1, <2>2, <2>3, Zenon
  <2> QED
    BY <2>4
<1>4. Distinct(B) <=> Distinct(A)
  BY <1>1, <1>2 DEF Distinct
<1>5. new \in ToSet(B) /\ \A r \in ToSet(A) : r = A[i] \/ r \in ToSet(B)
  BY <1>1 DEF ToSet
<1>6. ASSUME Distinct(A)
      PROVE  \A r : r \in ToSet(B) <=> r = new \/ (r \in ToSet(A) /\ Key(r) # Key(new))
  <2>1. ASSUME NEW j \in DOMAIN A PROVE j # i <=> Key(A[j]) # Key(new)
    BY <1>6 DEF Distinct
  <2>2. ASSUME NEW r \in ToSet(B) PROVE r = new \/ (r \in ToSet(A) /\ Key(r) # Key(new))
    <3>1. PICK j \in DOMAIN A : r = B[j]
      BY <1>1 DEF ToSet
    <3>2. CASE j = i
      BY <1>1, <3>1, <3>2
    <3>3. CASE j # i
      BY <1>1, <2>1, <3>1, <3>3 DEF ToSet
    <3> QED
      BY <3>2, <3>3
  <2>3. ASSUME NEW r \in ToSet(A), Key(r) # Key(new) PROVE r \in ToSet(B)
    <3>1. PICK j \in DOMAIN A : r = A[j]
      BY DEF ToSet
    <3> QED
      BY <1>1, <2>1, <2>3, <3>1 DEF ToSet
  <2> QED
    BY <1>5, <2>2, <2>3
<1> QED
  BY <1>3, <1>4, <1>5, <1>6

\* The field goes to the report of its key, or to a new one.
LEMMA FieldAdded ==
  ASSUME HidType, NEW own \in Seq(HidReports), NEW type \in ReportTags
  PROVE  LET after == AddField(own, type)
             k == <<type, m_global.report_id>>
         IN  /\ after \in Seq(HidReports)
             /\ KeysOf(ToSet(after)) = KeysOf(ToSet(own)) \cup {k}
             /\ Distinct(after) => Distinct(own)
             /\ \A r \in ToSet(own) :
                    \E q \in ToSet(after) : Len(r.fields) <= Len(q.fields) /\ r.bits <= q.bits
             /\ Distinct(after) =>
                    \E old \in HidReports :
                        /\ Key(old) = k
                        /\ \A r : r \in ToSet(after)
                                   <=> r = WithField(old) \/ (r \in ToSet(own) /\ Key(r) # k)
                        /\ \/ old \in ToSet(own)
                           \/ old = NewReport(type) /\ k \notin KeysOf(ToSet(own))
<1> DEFINE k == <<type, m_global.report_id>>
           after == AddField(own, type)
           has(s) == {i \in DOMAIN s : s[i].type = type /\ s[i].report_id = m_global.report_id}
<1>1. m_global.report_id \in ReportIds
  BY DEF HidType, HidGlobals
<1>2. \A s : \A i \in DOMAIN s : i \in has(s) <=> Key(s[i]) = k
  BY DEF Key
<1>3. CASE has(own) # {}
  <2>1. CreateReport(own, type) = own
    BY <1>3 DEF CreateReport
  <2> DEFINE found == CHOOSE i \in DOMAIN own :
                         own[i].type = type /\ own[i].report_id = m_global.report_id
  <2>2. PICK i \in DOMAIN own : Key(own[i]) = k /\ after = [own EXCEPT ![i] = WithField(own[i])]
    <3>1. found \in DOMAIN own /\ Key(own[found]) = k
      BY <1>3 DEF Key
    <3>2. after = [own EXCEPT ![found] = WithField(own[found])]
      BY <2>1 DEF AddField
    <3> QED
      BY <3>1, <3>2
  <2> DEFINE old == own[i]
             new == WithField(old)
  <2> HIDE DEF found, after, k, has
  <2>4. old \in HidReports /\ old \in ToSet(own)
    BY DEF ToSet
  <2>5. new \in HidReports /\ Key(new) = k /\ Len(new.fields) = Len(old.fields) + 1
        /\ new.bits = old.bits + m_global.report_count * m_global.report_size
    BY <2>2, <2>4, FieldType
  <2>6. Len(old.fields) <= Len(new.fields) /\ old.bits <= new.bits
    <3>1. Len(old.fields) \in Nat /\ old.bits \in Nat
      BY <2>4 DEF HidReports
    <3>2. m_global.report_count * m_global.report_size \in Nat
      BY DEF HidType, HidGlobals
    <3> QED
      BY <2>5, <3>1, <3>2
  <2>7. /\ after \in Seq(HidReports) /\ KeysOf(ToSet(after)) = KeysOf(ToSet(own))
        /\ Distinct(after) <=> Distinct(own)
        /\ \A r \in ToSet(own) : r = old \/ r \in ToSet(after)
        /\ new \in ToSet(after)
        /\ Distinct(own) => \A r : r \in ToSet(after) <=> r = new \/ (r \in ToSet(own) /\ Key(r) # k)
    <3>1. Key(new) = Key(own[i]) /\ after = [own EXCEPT ![i] = new] /\ new \in HidReports
      BY <2>2, <2>5
    <3> HIDE DEF new
    <3>2. /\ after \in Seq(HidReports) /\ DOMAIN after = DOMAIN own /\ after[i] = new
          /\ \A j \in DOMAIN own : j # i => after[j] = own[j]
      BY <3>1
    <3>3. /\ KeysOf(ToSet(after)) = KeysOf(ToSet(own))
          /\ Distinct(after) <=> Distinct(own)
          /\ \A r \in ToSet(own) : r = own[i] \/ r \in ToSet(after)
          /\ new \in ToSet(after)
          /\ Distinct(own) =>
                 \A r : r \in ToSet(after) <=> r = new \/ (r \in ToSet(own) /\ Key(r) # Key(new))
      <4> HIDE DEF old
      <4>1. KeysOf(ToSet(after)) = KeysOf(ToSet(own))
        <5>1. new \in HidReports /\ Key(new) = Key(own[i]) /\ after \in Seq(HidReports)
              /\ DOMAIN after = DOMAIN own /\ after[i] = new
          BY <3>1, <3>2
        <5>2. \A j \in DOMAIN own : j # i => after[j] = own[j]
          BY <3>2
        <5> HIDE DEF after
        <5> QED
          BY <5>1, <5>2, Replaced
      <4>2. Distinct(after) <=> Distinct(own)
        BY <3>1, <3>2, Replaced
      <4>3. \A r \in ToSet(own) : r = own[i] \/ r \in ToSet(after)
        BY <3>1, <3>2, Replaced
      <4>4. new \in ToSet(after)
        BY <3>1, <3>2, Replaced
      <4>5. Distinct(own) =>
                 \A r : r \in ToSet(after) <=> r = new \/ (r \in ToSet(own) /\ Key(r) # Key(new))
        BY <3>1, <3>2, Replaced
      <4> QED
        BY <4>1, <4>2, <4>3, <4>4, <4>5
    <3> QED
      BY <2>5, <3>2, <3>3
  <2>8. k \in KeysOf(ToSet(own))
    BY <2>2, <2>4 DEF KeysOf
  <2>9. \A r \in ToSet(own) :
           \E q \in ToSet(after) : Len(r.fields) <= Len(q.fields) /\ r.bits <= q.bits
    <3> SUFFICES ASSUME NEW r \in ToSet(own)
                 PROVE  \E q \in ToSet(after) : Len(r.fields) <= Len(q.fields) /\ r.bits <= q.bits
      OBVIOUS
    <3>1. CASE r = old
      BY <2>6, <2>7, <3>1
    <3>2. CASE r \in ToSet(after)
      <4>1. r \in HidReports
        BY DEF ToSet
      <4>2. Len(r.fields) \in Nat /\ r.bits \in Nat
        BY <4>1 DEF HidReports
      <4> QED
        BY <3>2, <4>2
    <3> QED
      BY <2>7, <3>1, <3>2
  <2> QED
    BY <2>2, <2>4, <2>7, <2>8, <2>9 DEF after, k
<1>4. CASE has(own) = {}
  <2> DEFINE fresh == NewReport(type)
             new == WithField(fresh)
  <2>1. CreateReport(own, type) = Append(own, fresh)
    BY <1>4 DEF CreateReport, NewReport
  <2>2. fresh \in HidReports /\ Key(fresh) = k
    BY <1>1, EmptySeq DEF NewReport, HidReports, Key
  <2>3. k \notin KeysOf(ToSet(own))
    BY <1>2, <1>4 DEF KeysOf, ToSet
  <2> DEFINE longer == Append(own, fresh)
             n == Len(own)
             found == CHOOSE i \in DOMAIN longer :
                         longer[i].type = type /\ longer[i].report_id = m_global.report_id
  <2> HIDE DEF fresh
  <2>4. /\ longer \in Seq(HidReports) /\ DOMAIN own = 1..n /\ DOMAIN longer = 1..(n + 1)
        /\ n \in Nat /\ Len(longer) = n + 1
        /\ longer[n + 1] = fresh /\ \A i \in 1..n : longer[i] = own[i]
    BY <2>2, AppendProperties
  <2> HIDE DEF longer, n
  <2>5. found = n + 1
    <3>1. n + 1 \in DOMAIN longer
      BY <2>4
    <3>2. longer[n + 1].type = type /\ longer[n + 1].report_id = m_global.report_id
      BY <2>4 DEF fresh, NewReport
    <3>3. \A i \in DOMAIN longer :
             longer[i].type = type /\ longer[i].report_id = m_global.report_id => i = n + 1
      BY <1>4, <2>4
    <3> QED
      BY <3>1, <3>2, <3>3
  <2>6. after = [longer EXCEPT ![found] = WithField(longer[found])]
    BY <2>1 DEF AddField, longer
  <2> HIDE DEF found, after, k, has
  <2>7. new \in HidReports /\ Key(new) = k
    BY <2>2, FieldType
  <2> HIDE DEF new
  <2>8. after = Append(own, new)
    <3>1. after = [longer EXCEPT ![n + 1] = new]
      BY <2>4, <2>5, <2>6 DEF new
    <3>2. /\ Append(own, new) \in Seq(HidReports) /\ Len(Append(own, new)) = n + 1
          /\ Append(own, new)[n + 1] = new /\ \A i \in 1..n : Append(own, new)[i] = own[i]
      BY <2>7, AppendProperties DEF n
    <3>3. /\ after \in Seq(HidReports) /\ Len(after) = n + 1
          /\ after[n + 1] = new /\ \A i \in 1..n : after[i] = own[i]
      BY <2>4, <2>7, <3>1
    <3> QED
      BY <2>4, <3>2, <3>3, SeqEqual
  <2>9. /\ after \in Seq(HidReports) /\ ToSet(after) = ToSet(own) \cup {new}
        /\ Distinct(after) => Distinct(own)
    BY <2>7, <2>8, ToSetAppend, DistinctAppend, AppendProperties
  <2>10. KeysOf(ToSet(after)) = KeysOf(ToSet(own)) \cup {k}
    BY <2>7, <2>9 DEF KeysOf
  <2>11. \A r \in ToSet(own) : Key(r) # k
    BY <2>3 DEF KeysOf
  <2>12. \A r \in ToSet(own) : r \in ToSet(after) /\ Len(r.fields) <= Len(r.fields) /\ r.bits <= r.bits
    <3> SUFFICES ASSUME NEW r \in ToSet(own)
                 PROVE  r \in ToSet(after) /\ Len(r.fields) <= Len(r.fields) /\ r.bits <= r.bits
      OBVIOUS
    <3>1. r \in HidReports
      BY DEF ToSet
    <3>2. Len(r.fields) \in Nat /\ r.bits \in Nat
      BY <3>1 DEF HidReports
    <3> QED
      BY <2>9, <3>2
  <2> QED
    BY <2>2, <2>3, <2>9, <2>10, <2>11, <2>12 DEF after, k, new, fresh
<1> QED
  BY <1>3, <1>4

LEMMA HeldType ==
  ASSUME NEW stack \in Seq(HidCollections), NEW c \in HidCollections
  PROVE  /\ OnStack(stack) \subseteq HidReports
         /\ ToSet(Reports(c)) \subseteq HidReports
         /\ Held(stack, c) \subseteq HidReports
<1>1. ASSUME NEW d \in HidCollections PROVE ToSet(Reports(d)) \subseteq HidReports
  <2>1. Reports(d) \in Seq(HidReports)
    BY CollectionType
  <2> QED
    BY <2>1 DEF ToSet
<1>2. ASSUME NEW l \in DOMAIN stack PROVE ToSet(Reports(stack[l])) \subseteq HidReports
  <2>1. stack[l] \in HidCollections
    OBVIOUS
  <2> QED
    BY <1>1, <2>1
<1> QED
  BY <1>1, <1>2 DEF OnStack, Held

\* The field as all collections on the stack see it: one report grows, found by
\* its key or new, as long as no other collection has one of its key.
LEMMA FieldHeld ==
  ASSUME HidType, NEW type \in ReportTags
  PROVE  LET d == [m_collection EXCEPT !.reports = AddField(@, type)]
             H == Held(m_collection_stack, m_collection)
             after == Held(m_collection_stack, d)
             k == <<type, m_global.report_id>>
         IN  /\ d \in HidCollections /\ d.usage = m_collection.usage
             /\ Heads(m_collection_stack, d) = Heads(m_collection_stack, m_collection)
             /\ Unsplit(m_collection_stack, d) => Unsplit(m_collection_stack, m_collection)
             /\ KeysOf(after) = KeysOf(H) \cup {k}
             /\ \A r \in H : \E q \in after : Len(r.fields) <= Len(q.fields) /\ r.bits <= q.bits
             /\ Unsplit(m_collection_stack, d) =>
                    \E old \in HidReports :
                        /\ Key(old) = k
                        /\ \A r : r \in after <=> r = WithField(old) \/ (r \in H /\ Key(r) # k)
                        /\ \/ old \in H
                           \/ old = NewReport(type) /\ k \notin KeysOf(H)
<1> DEFINE d == [m_collection EXCEPT !.reports = AddField(@, type)]
           H == Held(m_collection_stack, m_collection)
           after == Held(m_collection_stack, d)
           k == <<type, m_global.report_id>>
           own == m_collection.reports
           own2 == AddField(own, type)
           closed == m_collection.closed
           S == OnStack(m_collection_stack)
<1>1. m_collection \in HidCollections /\ m_collection_stack \in Seq(HidCollections)
  BY DEF HidType
<1>2. own \in Seq(HidReports) /\ closed \in Seq(HidReports)
  BY <1>1, CollectionType
<1>3. /\ own2 \in Seq(HidReports)
      /\ KeysOf(ToSet(own2)) = KeysOf(ToSet(own)) \cup {k}
      /\ Distinct(own2) => Distinct(own)
      /\ \A r \in ToSet(own) :
             \E q \in ToSet(own2) : Len(r.fields) <= Len(q.fields) /\ r.bits <= q.bits
      /\ Distinct(own2) =>
             \E old \in HidReports :
                 /\ Key(old) = k
                 /\ \A r : r \in ToSet(own2) <=> r = WithField(old) \/ (r \in ToSet(own) /\ Key(r) # k)
                 /\ \/ old \in ToSet(own)
                    \/ old = NewReport(type) /\ k \notin KeysOf(ToSet(own))
  <2> HIDE DEF own
  <2> QED
    BY <1>2, FieldAdded
<1> HIDE DEF own2
<1>4. /\ d \in HidCollections /\ d.usage = m_collection.usage /\ d.type = m_collection.type
      /\ d.reports = own2 /\ d.closed = closed /\ d.inner = m_collection.inner
  <2>1. d = [m_collection EXCEPT !.reports = own2]
    BY DEF own2
  <2> QED
    BY <1>1, <1>3, <2>1 DEF HidCollections
<1> HIDE DEF d, own, closed, k
<1>5. Reports(m_collection) = own \o closed /\ Reports(d) = own2 \o closed
  BY <1>4 DEF Reports, own, closed
<1>6. /\ ToSet(Reports(m_collection)) = ToSet(own) \cup ToSet(closed)
      /\ ToSet(Reports(d)) = ToSet(own2) \cup ToSet(closed)
  <2>1. \A A, B \in Seq(HidReports) : ToSet(A \o B) = ToSet(A) \cup ToSet(B)
    BY ToSetConcat
  <2>2. own2 \in Seq(HidReports)
    BY <1>3
  <2> QED
    BY <1>2, <1>5, <2>1, <2>2, Zenon
<1>7. /\ Distinct(Reports(m_collection)) <=>
             /\ Distinct(own) /\ Distinct(closed)
             /\ KeysOf(ToSet(own)) \cap KeysOf(ToSet(closed)) = {}
      /\ Distinct(Reports(d)) <=>
             /\ Distinct(own2) /\ Distinct(closed)
             /\ KeysOf(ToSet(own2)) \cap KeysOf(ToSet(closed)) = {}
  <2>1. \A A, B \in Seq(HidReports) :
           Distinct(A \o B) <=> /\ Distinct(A) /\ Distinct(B)
                                /\ KeysOf(ToSet(A)) \cap KeysOf(ToSet(B)) = {}
    BY DistinctConcat
  <2>2. own2 \in Seq(HidReports)
    BY <1>3
  <2>3. Distinct(own \o closed) <=> /\ Distinct(own) /\ Distinct(closed)
                                    /\ KeysOf(ToSet(own)) \cap KeysOf(ToSet(closed)) = {}
    BY <1>2, <2>1
  <2>4. Distinct(own2 \o closed) <=> /\ Distinct(own2) /\ Distinct(closed)
                                     /\ KeysOf(ToSet(own2)) \cap KeysOf(ToSet(closed)) = {}
    BY <1>2, <2>1, <2>2
  <2> QED
    BY <1>5, <2>3, <2>4
<1>8. Heads(m_collection_stack, d) = Heads(m_collection_stack, m_collection)
  BY <1>4 DEF Heads, Collections
<1>9. H = S \cup ToSet(own) \cup ToSet(closed) /\ after = S \cup ToSet(own2) \cup ToSet(closed)
  BY <1>6 DEF Held
<1>10. /\ KeysOf(ToSet(Reports(m_collection))) = KeysOf(ToSet(own)) \cup KeysOf(ToSet(closed))
       /\ KeysOf(ToSet(Reports(d))) = KeysOf(ToSet(own2)) \cup KeysOf(ToSet(closed))
  BY <1>6 DEF KeysOf
<1>11. /\ KeysOf(H) = KeysOf(S) \cup KeysOf(ToSet(own)) \cup KeysOf(ToSet(closed))
       /\ KeysOf(after) = KeysOf(S) \cup KeysOf(ToSet(own2)) \cup KeysOf(ToSet(closed))
  BY <1>9 DEF KeysOf
<1> HIDE DEF H, after, S
<1>12. Unsplit(m_collection_stack, d) => Unsplit(m_collection_stack, m_collection)
  BY <1>3, <1>7, <1>10 DEF Unsplit
<1>13. KeysOf(after) = KeysOf(H) \cup {k}
  BY <1>3, <1>11
<1>14. \A r \in H : \E q \in after : Len(r.fields) <= Len(q.fields) /\ r.bits <= q.bits
  <2>1. ASSUME NEW r \in H, r \notin ToSet(own)
        PROVE  r \in after /\ Len(r.fields) <= Len(r.fields) /\ r.bits <= r.bits
    <3>1. r \in HidReports
      BY <1>1, HeldType DEF H
    <3>2. Len(r.fields) \in Nat /\ r.bits \in Nat
      BY <3>1 DEF HidReports
    <3> QED
      BY <1>9, <2>1, <3>2
  <2> QED
    BY <1>3, <1>9, <2>1
<1>15. ASSUME Unsplit(m_collection_stack, d)
       PROVE  \E old \in HidReports :
                  /\ Key(old) = k
                  /\ \A r : r \in after <=> r = WithField(old) \/ (r \in H /\ Key(r) # k)
                  /\ \/ old \in H
                     \/ old = NewReport(type) /\ k \notin KeysOf(H)
  <2>1. /\ Distinct(own2)
        /\ k \in KeysOf(ToSet(own2)) /\ k \notin KeysOf(ToSet(closed)) /\ k \notin KeysOf(S)
    BY <1>3, <1>7, <1>10, <1>15 DEF Unsplit, S
  <2>2. (\A r \in S : Key(r) # k) /\ (\A r \in ToSet(closed) : Key(r) # k)
    BY <2>1 DEF KeysOf
  <2>3. PICK old \in HidReports :
            /\ Key(old) = k
            /\ \A r : r \in ToSet(own2) <=> r = WithField(old) \/ (r \in ToSet(own) /\ Key(r) # k)
            /\ \/ old \in ToSet(own)
               \/ old = NewReport(type) /\ k \notin KeysOf(ToSet(own))
    BY <1>3, <2>1
  <2>4. \A r : r \in after <=> r = WithField(old) \/ (r \in H /\ Key(r) # k)
    BY <1>9, <2>2, <2>3
  <2>5. old \in H \/ (old = NewReport(type) /\ k \notin KeysOf(H))
    BY <1>9, <1>11, <2>1, <2>3
  <2> QED
    BY <2>3, <2>4, <2>5
<1> QED
  BY <1>4, <1>8, <1>12, <1>13, <1>14, <1>15 DEF d, H, after, k

-----------------------------------------------------------------------------
(* And by the detector to an entry of its table.                           *)

NewEntry(type) == [type |-> type, report_id |-> state.report_id, total_bits |-> 0, usages |-> <<>>]

\* As many keys as reports.
LEMMA DistinctCount ==
  ASSUME NEW S, NEW A \in Seq(S), Distinct(A)
  PROVE  IsFiniteSet(KeysOf(ToSet(A))) /\ Cardinality(KeysOf(ToSet(A))) = Len(A)
<1> DEFINE n == Len(A)
           K == KeysOf(ToSet(A))
           f == [i \in 1..n |-> Key(A[i])]
<1>1. n \in Nat /\ DOMAIN A = 1..n
  OBVIOUS
<1>2. K = {Key(A[i]) : i \in 1..n}
  <2>1. K = {Key(A[i]) : i \in DOMAIN A}
    BY Zenon DEF KeysOf, ToSet
  <2> QED
    BY <1>1, <2>1
<1>3. \A i, j \in 1..n : Key(A[i]) = Key(A[j]) => i = j
  BY <1>1 DEF Distinct
<1> HIDE DEF n, K
<1>4. f \in Bijection(1..n, K)
  <2>1. f \in [1..n -> K]
    BY <1>2
  <2>2. IsInjective(f)
    BY <1>3 DEF IsInjective
  <2>3. \A key \in K : \E i \in 1..n : f[i] = key
    BY <1>2
  <2> QED
    BY <2>1, <2>2, <2>3 DEF Bijection, Injection, Surjection
<1>5. ExistsBijection(1..n, K)
  BY <1>4 DEF ExistsBijection
<1> QED
  BY <1>1, <1>5, FS_NatBijection, FS_CountingElements DEF n, K

LEMMA EntryType ==
  ASSUME DetectorType, NEW e \in Entries
  PROVE  /\ Extended(e) \in Entries
         /\ Key(Extended(e)) = Key(e)
         /\ Extended(e).total_bits = (e.total_bits + state.report_count * state.report_size) % WORD
         /\ Len(Extended(e).usages) <= Len(e.usages) + 1
         /\ Len(e.usages) < MAX_USAGES_PER_REPORT =>
                ToSet(Extended(e).usages) = ToSet(e.usages) \cup ({state.usage} \ {NoUsage})
<1> DEFINE bits == (e.total_bits + state.report_count * state.report_size) % WORD
           longer == Append(e.usages, state.usage)
           usages == IF state.usage # NoUsage /\ Len(e.usages) < MAX_USAGES_PER_REPORT
                     THEN longer ELSE e.usages
<1>1. /\ e.usages \in Seq(UsageTags) /\ e.total_bits \in Nat /\ e.type \in ReportTags
      /\ e.report_id \in ReportIds
      /\ DOMAIN e = {"type", "report_id", "total_bits", "usages"}
  BY DEF Entries
<1>2. state.report_count \in Nat /\ state.report_size \in Nat /\ state.usage \in UsageTags
  BY DEF DetectorType
<1>3. bits \in Nat
  <2>1. e.total_bits + state.report_count * state.report_size \in Nat
    BY <1>1, <1>2
  <2> HIDE DEF UsageTags
  <2> QED
    BY <2>1, LimitAssumption
<1>4. /\ longer \in Seq(UsageTags) /\ Len(longer) = Len(e.usages) + 1
      /\ ToSet(longer) = ToSet(e.usages) \cup {state.usage}
  <2> HIDE DEF UsageTags
  <2> QED
    BY <1>1, <1>2, AppendProperties, ToSetAppend
<1>5. Len(e.usages) \in Nat
  BY <1>1
<1>6. /\ usages \in Seq(UsageTags) /\ Len(usages) <= Len(e.usages) + 1
      /\ Len(e.usages) < MAX_USAGES_PER_REPORT =>
             ToSet(usages) = ToSet(e.usages) \cup ({state.usage} \ {NoUsage})
  <2> HIDE DEF longer, UsageTags
  <2>1. CASE state.usage # NoUsage /\ Len(e.usages) < MAX_USAGES_PER_REPORT
    BY <1>1, <1>4, <1>5, <2>1
  <2>2. CASE ~(state.usage # NoUsage /\ Len(e.usages) < MAX_USAGES_PER_REPORT)
    BY <1>1, <1>4, <1>5, <2>2
  <2> QED
    BY <2>1, <2>2
<1>7. Extended(e) = [e EXCEPT !.total_bits = bits, !.usages = usages]
  BY DEF Extended
<1> HIDE DEF bits, longer, usages
<1>8. [e EXCEPT !.total_bits = bits, !.usages = usages] \in Entries
  BY <1>3, <1>6 DEF Entries
<1>9. LET x == [e EXCEPT !.total_bits = bits, !.usages = usages]
      IN  x.total_bits = bits /\ x.usages = usages /\ x.type = e.type /\ x.report_id = e.report_id
  BY <1>1
<1> QED
  BY <1>6, <1>7, <1>8, <1>9 DEF Key, bits

\* The field goes to the entry of its key, or to a new one where there is room.
LEMMA EntryAdded ==
  ASSUME DetectorType, Distinct(state.reports), NEW type \in ReportTags
  PROVE  LET k == <<type, state.report_id>>
             E == ToSet(state.reports)
             reports == FindOrCreateReport(type)
             found == Matching(reports, type)
             after == [reports EXCEPT ![CHOOSE i \in found : TRUE] = Extended(@)]
         IN  /\ k \in KeysOf(E) \/ Len(state.reports) < MAX_REPORTS => found # {}
             /\ found # {} =>
                    /\ after \in Seq(Entries) /\ Len(after) <= MAX_REPORTS
                    /\ Distinct(after)
                    /\ \E old \in Entries :
                           /\ Key(old) = k
                           /\ \A e : e \in ToSet(after) <=> e = Extended(old) \/ (e \in E /\ Key(e) # k)
                           /\ \/ old \in E
                              \/ old = NewEntry(type) /\ k \notin KeysOf(E)
<1> DEFINE k == <<type, state.report_id>>
           own == state.reports
           E == ToSet(own)
           reports == FindOrCreateReport(type)
           found == Matching(reports, type)
           after == [reports EXCEPT ![CHOOSE i \in found : TRUE] = Extended(@)]
<1>1. /\ own \in Seq(Entries) /\ Len(own) <= MAX_REPORTS /\ Len(own) \in Nat
      /\ state.report_id \in ReportIds
  BY DEF DetectorType
<1>2. \A s : \A i : i \in Matching(s, type) <=> i \in DOMAIN s /\ Key(s[i]) = k
  BY DEF Matching, Key
<1>3. k \in KeysOf(E) <=> \E i \in DOMAIN own : Key(own[i]) = k
  BY DEF KeysOf, ToSet
<1> HIDE DEF k
<1>4. CASE k \in KeysOf(E)
  <2>1. reports = own
    BY <1>2, <1>3, <1>4 DEF FindOrCreateReport
  <2> HIDE DEF own
  <2>2. PICK i \in DOMAIN own : Key(own[i]) = k
    BY <1>3, <1>4
  <2>3. found = {i}
    <3>1. \A j : j \in found <=> j \in DOMAIN own /\ Key(own[j]) = k
      BY <1>2, <2>1
    <3>2. \A j \in DOMAIN own : Key(own[j]) = k => j = i
      BY <2>2 DEF Distinct, own
    <3> QED
      BY <2>2, <3>1, <3>2
  <2> DEFINE old == own[i]
             new == Extended(old)
  <2>4. after = [own EXCEPT ![i] = new]
    <3>1. (CHOOSE j \in found : TRUE) = i
      BY <2>3
    <3> HIDE DEF reports, found
    <3> QED
      BY <2>1, <3>1
  <2> HIDE DEF reports, found, after
  <2>5. old \in Entries /\ old \in E
    BY <1>1 DEF ToSet
  <2>6. new \in Entries /\ Key(new) = k
    BY <2>2, <2>5, EntryType
  <2> HIDE DEF new
  <2>7. /\ after \in Seq(Entries) /\ Len(after) = Len(own) /\ DOMAIN after = DOMAIN own
        /\ after[i] = new
        /\ \A j \in DOMAIN own : j # i => after[j] = own[j]
    <3> DEFINE B == [own EXCEPT ![i] = new]
    <3>1. /\ B \in Seq(Entries) /\ Len(B) = Len(own) /\ DOMAIN B = DOMAIN own /\ B[i] = new
          /\ \A j \in DOMAIN own : j # i => B[j] = own[j]
      BY <1>1, <2>6, ExceptAt
    <3>2. after = B
      BY <2>4
    <3> HIDE DEF B
    <3> QED
      BY <3>1, <3>2
  <2>8. Key(new) = Key(own[i])
    BY <2>2, <2>6
  <2> HIDE DEF old
  <2> HIDE DEF E
  <2>9. /\ Distinct(after)
        /\ \A e : e \in ToSet(after) <=> e = new \/ (e \in ToSet(own) /\ Key(e) # Key(new))
    <3>1. Distinct(own)
      BY DEF own
    <3>2. own \in Seq(Entries) /\ new \in Entries /\ Key(new) = Key(own[i])
          /\ after \in Seq(Entries) /\ DOMAIN after = DOMAIN own /\ after[i] = new
      BY <1>1, <2>6, <2>7, <2>8
    <3>3. \A j \in DOMAIN own : j # i => after[j] = own[j]
      BY <2>7
    <3>4. Distinct(after) <=> Distinct(own)
      BY <3>2, <3>3, Replaced
    <3>5. Distinct(own) =>
              \A e : e \in ToSet(after) <=> e = new \/ (e \in ToSet(own) /\ Key(e) # Key(new))
      BY <3>2, <3>3, Replaced
    <3> QED
      BY <3>1, <3>4, <3>5
  <2>10. \A e : e \in ToSet(after) <=> e = Extended(old) \/ (e \in E /\ Key(e) # k)
    BY <2>6, <2>9 DEF new, E
  <2>11. Key(old) = k
    BY <2>2 DEF old
  <2> QED
    BY <1>1, <2>3, <2>5, <2>7, <2>9, <2>10, <2>11 DEF k, own, E, reports, found, after
<1>5. CASE k \notin KeysOf(E) /\ Len(own) < MAX_REPORTS
  <2> DEFINE fresh == NewEntry(type)
             new == Extended(fresh)
             n == Len(own)
  <2>1. reports = Append(own, fresh)
    <3>1. Matching(own, type) = {}
      BY <1>2, <1>3, <1>5
    <3> QED
      BY <1>1, <1>5, <3>1, LimitAssumption DEF FindOrCreateReport, NewEntry
  <2>2. fresh \in Entries /\ Key(fresh) = k
    BY <1>1, EmptySeq DEF NewEntry, Entries, Key, k
  <2> HIDE DEF fresh, own
  <2>3. /\ reports \in Seq(Entries) /\ DOMAIN own = 1..n /\ DOMAIN reports = 1..(n + 1)
        /\ n \in Nat /\ Len(reports) = n + 1
        /\ reports[n + 1] = fresh /\ \A i \in 1..n : reports[i] = own[i]
    BY <1>1, <2>1, <2>2, AppendProperties
  <2> HIDE DEF n
  <2>4. found = {n + 1}
    <3>1. \A j : j \in found <=> j \in DOMAIN reports /\ Key(reports[j]) = k
      BY <1>2
    <3>2. \A j \in 1..n : Key(reports[j]) # k
      BY <1>3, <1>5, <2>3
    <3>3. n + 1 \in DOMAIN reports /\ Key(reports[n + 1]) = k
      BY <2>2, <2>3
    <3>4. \A j \in DOMAIN reports : j \in 1..n \/ j = n + 1
      BY <2>3
    <3> QED
      BY <3>1, <3>2, <3>3, <3>4
  <2>5. new \in Entries /\ Key(new) = k
    BY <2>2, EntryType
  <2>6. after = [reports EXCEPT ![n + 1] = new]
    <3>1. (CHOOSE j \in found : TRUE) = n + 1
      BY <2>4
    <3> HIDE DEF reports, found
    <3> QED
      BY <2>3, <3>1
  <2> HIDE DEF new, reports, found, after
  <2>7. after = Append(own, new)
    <3>1. /\ Append(own, new) \in Seq(Entries) /\ Len(Append(own, new)) = n + 1
          /\ Append(own, new)[n + 1] = new /\ \A i \in 1..n : Append(own, new)[i] = own[i]
      BY <1>1, <2>5, AppendProperties DEF n
    <3>2. /\ after \in Seq(Entries) /\ Len(after) = n + 1
          /\ after[n + 1] = new /\ \A i \in 1..n : after[i] = own[i]
      <4> DEFINE B == [reports EXCEPT ![n + 1] = new]
      <4>1. /\ B \in Seq(Entries) /\ Len(B) = Len(reports) /\ DOMAIN B = DOMAIN reports
            /\ B[n + 1] = new /\ \A j \in DOMAIN reports : j # n + 1 => B[j] = reports[j]
        BY <2>3, <2>5, ExceptAt
      <4>2. after = B
        BY <2>6
      <4> HIDE DEF B
      <4> QED
        BY <2>3, <4>1, <4>2
    <3> QED
      BY <2>3, <3>1, <3>2, SeqEqual
  <2>8. /\ after \in Seq(Entries) /\ Len(after) <= MAX_REPORTS
    BY <1>1, <1>5, <2>5, <2>7, AppendProperties, LimitAssumption
  <2>9. ToSet(after) = E \cup {new}
    BY <1>1, <2>5, <2>7, ToSetAppend
  <2>10. Distinct(after)
    <3>1. Distinct(own) /\ Key(new) \notin KeysOf(ToSet(own))
      BY <1>5, <2>5 DEF own
    <3> QED
      BY <1>1, <2>5, <2>7, <3>1, DistinctAppend
  <2>11. \A e \in E : Key(e) # k
    BY <1>5 DEF KeysOf
  <2>12. \A e : e \in ToSet(after) <=> e = Extended(fresh) \/ (e \in E /\ Key(e) # k)
    BY <2>9, <2>11 DEF new
  <2> QED
    BY <1>5, <2>2, <2>4, <2>8, <2>10, <2>12 DEF k, own, fresh, reports, found, after
<1>6. CASE k \notin KeysOf(E) /\ ~(Len(own) < MAX_REPORTS)
  <2>1. reports = own
    BY <1>1, <1>6, LimitAssumption DEF FindOrCreateReport
  <2>2. found = {}
    BY <1>2, <1>3, <1>6, <2>1
  <2> QED
    BY <1>6, <2>2 DEF k
<1> QED
  BY <1>4, <1>5, <1>6

-----------------------------------------------------------------------------
(* One item read by both.                                                  *)

\* Where there is room after a report has grown or come in there was before.
LEMMA RoomBefore ==
  ASSUME NEW H, H \subseteq HidReports, NEW after, after \subseteq HidReports,
         KeysOf(H) \subseteq KeysOf(after),
         \A r \in H : \E q \in after : Len(r.fields) <= Len(q.fields) /\ r.bits <= q.bits,
         Room(after)
  PROVE  Room(H)
<1>1. IsFiniteSet(KeysOf(after)) /\ Cardinality(KeysOf(after)) <= MAX_REPORTS
      /\ \A q \in after : Len(q.fields) <= MAX_USAGES_PER_REPORT /\ q.bits < WORD
  BY DEF Room
<1>2. IsFiniteSet(KeysOf(H)) /\ Cardinality(KeysOf(H)) <= Cardinality(KeysOf(after))
      /\ Cardinality(KeysOf(H)) \in Nat /\ Cardinality(KeysOf(after)) \in Nat
  BY <1>1, FS_Subset, FS_CardinalityType
<1>3. Cardinality(KeysOf(H)) <= MAX_REPORTS
  BY <1>1, <1>2, LimitAssumption
<1>4. ASSUME NEW r \in H PROVE Len(r.fields) <= MAX_USAGES_PER_REPORT /\ r.bits < WORD
  <2>1. PICK q \in after : Len(r.fields) <= Len(q.fields) /\ r.bits <= q.bits
    OBVIOUS
  <2>2. r \in HidReports /\ q \in HidReports
    OBVIOUS
  <2>3. Len(r.fields) \in Nat /\ Len(q.fields) \in Nat /\ r.bits \in Nat /\ q.bits \in Nat
    BY <2>2 DEF HidReports
  <2>4. Len(q.fields) <= MAX_USAGES_PER_REPORT /\ q.bits < WORD
    BY <1>1
  <2> QED
    BY <2>1, <2>3, <2>4, LimitAssumption
<1> QED
  BY <1>2, <1>3, <1>4 DEF Room

\* A report and its entry grow alike.
LEMMA GrowAlike ==
  ASSUME HidType, DetectorType, SameItems, NEW r \in HidReports, NEW e \in Entries, Same(r, e),
         Len(WithField(r).fields) <= MAX_USAGES_PER_REPORT, WithField(r).bits < WORD
  PROVE  Same(WithField(r), Extended(e))
<1>1. /\ r.bits \in Nat /\ Len(r.fields) \in Nat /\ Len(e.usages) \in Nat /\ e.total_bits \in Nat
  BY DEF HidReports, Entries
<1>2. state.report_count \in Nat /\ state.report_size \in Nat
      /\ m_global.report_count = state.report_count /\ m_global.report_size = state.report_size
      /\ m_local.usage = state.usage
  BY DEF DetectorType, SameItems
<1> DEFINE bits == state.report_count * state.report_size
<1>3. bits \in Nat
  BY <1>2
<1> HIDE DEF bits
<1>4. /\ Key(WithField(r)) = Key(r) /\ WithField(r).bits = r.bits + bits
      /\ Len(WithField(r).fields) = Len(r.fields) + 1
      /\ Usages(WithField(r)) = (Usages(r) \cup {state.usage}) \ {NoUsage}
  BY <1>2, FieldType DEF bits
<1>5. /\ Key(Extended(e)) = Key(e) /\ Extended(e).total_bits = (e.total_bits + bits) % WORD
      /\ Len(Extended(e).usages) <= Len(e.usages) + 1
      /\ Len(e.usages) < MAX_USAGES_PER_REPORT =>
             ToSet(Extended(e).usages) = ToSet(e.usages) \cup ({state.usage} \ {NoUsage})
      /\ Extended(e) \in Entries
  BY EntryType DEF bits
<1>6. Len(Extended(e).usages) \in Nat
  BY <1>5 DEF Entries
<1>7. Key(r) = Key(e) /\ r.bits = e.total_bits /\ Usages(r) = ToSet(e.usages)
      /\ Len(e.usages) <= Len(r.fields)
  BY DEF Same
<1>8. WithField(r).bits = Extended(e).total_bits
  <2>1. e.total_bits + bits \in Nat /\ e.total_bits + bits < WORD /\ WORD \in Nat \ {0}
    BY <1>1, <1>3, <1>4, <1>7, LimitAssumption
  <2> DEFINE sum == e.total_bits + bits
  <2>2. sum \in Nat /\ sum < WORD /\ WORD \in Nat \ {0}
    BY <2>1
  <2> HIDE DEF sum
  <2>3. sum % WORD = sum
    BY <2>2
  <2> QED
    BY <1>4, <1>5, <1>7, <2>3 DEF sum
<1>9. Len(e.usages) < MAX_USAGES_PER_REPORT /\ Len(Extended(e).usages) <= Len(WithField(r).fields)
  BY <1>1, <1>4, <1>5, <1>6, <1>7, LimitAssumption
<1>10. NoUsage \notin Usages(r)
  BY DEF Usages
<1>11. Usages(WithField(r)) = ToSet(Extended(e).usages)
  BY <1>4, <1>5, <1>7, <1>9, <1>10
<1> QED
  BY <1>4, <1>5, <1>7, <1>8, <1>9, <1>11 DEF Same

\* Both have the report, or both have room for it: the field goes to the same one.
LEMMA FieldStep ==
  ASSUME HidType, DetectorType, Distinct(state.reports),
         Comparable => SameSoFar,
         NEW item, CreateField(item), AddFieldToReport(item), stacked' = stacked,
         Comparable'
  PROVE  Comparable /\ SameSoFar'
<1> DEFINE type == item.tag
           d == [m_collection EXCEPT !.reports = AddField(@, type)]
           H == Held(m_collection_stack, m_collection)
           H2 == Held(m_collection_stack, d)
           k == <<type, m_global.report_id>>
<1>1. type \in ReportTags
  BY DEF CreateField
<1>2. m_collection' = d /\ m_local' = LocalState
      /\ UNCHANGED <<m_global, m_global_stack, m_collection_stack, status>>
  BY DEF CreateField
<1>3. /\ d \in HidCollections /\ d.usage = m_collection.usage
      /\ Heads(m_collection_stack, d) = Heads(m_collection_stack, m_collection)
      /\ Unsplit(m_collection_stack, d) => Unsplit(m_collection_stack, m_collection)
      /\ KeysOf(H2) = KeysOf(H) \cup {k}
      /\ \A r \in H : \E q \in H2 : Len(r.fields) <= Len(q.fields) /\ r.bits <= q.bits
      /\ Unsplit(m_collection_stack, d) =>
             \E old \in HidReports :
                 /\ Key(old) = k
                 /\ \A r : r \in H2 <=> r = WithField(old) \/ (r \in H /\ Key(r) # k)
                 /\ \/ old \in H
                    \/ old = NewReport(type) /\ k \notin KeysOf(H)
  <2> HIDE DEF type
  <2> QED
    BY <1>1, FieldHeld
<1>4. H \subseteq HidReports /\ H2 \subseteq HidReports
  <2>1. m_collection \in HidCollections /\ m_collection_stack \in Seq(HidCollections)
    BY DEF HidType
  <2> HIDE DEF d
  <2> QED
    BY <1>3, <2>1, HeldType
<1> HIDE DEF d, type
<1>5. Unsplit(m_collection_stack, d) /\ Room(H2) /\ status \in {"parsing", "done"} /\ ~stacked
  BY <1>2 DEF Comparable, H2
<1> HIDE DEF H, H2, k
<1>6. Room(H)
  BY <1>3, <1>4, <1>5, RoomBefore
<1>7. Comparable
  BY <1>3, <1>5, <1>6 DEF Comparable, H
<1>8. SameReports /\ SameItems /\ SameKinds
  BY <1>7 DEF SameSoFar
<1> DEFINE own == state.reports
           E == ToSet(own)
           reports == FindOrCreateReport(type)
           found == Matching(reports, type)
           after == [reports EXCEPT ![CHOOSE i \in found : TRUE] = Extended(@)]
<1>9. state' = IF found = {} THEN state ELSE [state EXCEPT !.usage = NoUsage, !.reports = after]
  BY DEF AddFieldToReport, type
<1>10. k = <<type, state.report_id>>
  BY <1>8 DEF SameItems, k
<1>11. /\ k \in KeysOf(E) \/ Len(own) < MAX_REPORTS => found # {}
       /\ found # {} =>
              \E old \in Entries :
                  /\ Key(old) = k
                  /\ \A e : e \in ToSet(after) <=> e = Extended(old) \/ (e \in E /\ Key(e) # k)
                  /\ \/ old \in E
                     \/ old = NewEntry(type) /\ k \notin KeysOf(E)
  BY <1>1, <1>10, EntryAdded
<1>12. own \in Seq(Entries) /\ Len(own) \in Nat /\ Distinct(own)
  BY DEF DetectorType
<1> HIDE DEF own, reports, found, after
<1>13. Agree(H, E)
  BY <1>8 DEF SameReports, H, own
<1>14. KeysOf(H) = KeysOf(E)
  <2>1. ASSUME NEW r \in H PROVE Key(r) \in KeysOf(E)
    BY <1>13 DEF Agree, Same, KeysOf
  <2>2. ASSUME NEW e \in E PROVE Key(e) \in KeysOf(H)
    BY <1>13 DEF Agree, Same, KeysOf
  <2> QED
    BY <2>1, <2>2 DEF KeysOf
<1>15. found # {}
  <2>1. CASE k \in KeysOf(H)
    BY <1>11, <1>14, <2>1
  <2>2. CASE k \notin KeysOf(H)
    <3>1. IsFiniteSet(KeysOf(H)) /\ Cardinality(KeysOf(H)) = Len(own)
      BY <1>12, <1>14, DistinctCount
    <3>2. Cardinality(KeysOf(H2)) = Len(own) + 1
      BY <1>3, <2>2, <3>1, FS_AddElement
    <3>3. Len(own) < MAX_REPORTS
      BY <1>5, <1>12, <3>2, LimitAssumption DEF Room
    <3> QED
      BY <1>11, <3>3
  <2> QED
    BY <2>1, <2>2
<1>16. PICK r \in HidReports :
           /\ Key(r) = k
           /\ \A q : q \in H2 <=> q = WithField(r) \/ (q \in H /\ Key(q) # k)
           /\ r \in H \/ (r = NewReport(type) /\ k \notin KeysOf(H))
  BY <1>3, <1>5
<1>17. PICK e \in Entries :
           /\ Key(e) = k
           /\ \A q : q \in ToSet(after) <=> q = Extended(e) \/ (q \in E /\ Key(q) # k)
           /\ e \in E \/ (e = NewEntry(type) /\ k \notin KeysOf(E))
  BY <1>11, <1>15
<1>18. Same(r, e)
  <2>1. CASE r \in H
    <3>1. PICK q \in E : Same(r, q)
      BY <1>13, <2>1 DEF Agree
    <3>2. Key(q) = k
      BY <1>16, <3>1 DEF Same
    <3>3. e \in E
      BY <1>17, <3>1, <3>2 DEF KeysOf
    <3>4. \A a, b \in E : Key(a) = Key(b) => a = b
      BY <1>12 DEF Distinct, ToSet
    <3>5. q = e
      BY <1>17, <3>2, <3>3, <3>4
    <3> QED
      BY <3>1, <3>5
  <2>2. CASE r = NewReport(type) /\ k \notin KeysOf(H)
    <3>1. e = NewEntry(type)
      BY <1>14, <1>17, <2>2 DEF KeysOf
    <3>2. /\ r.bits = 0 /\ r.fields = <<>> /\ e.total_bits = 0 /\ e.usages = <<>>
      BY <2>2, <3>1 DEF NewReport, NewEntry
    <3>3. Usages(r) = {} /\ ToSet(e.usages) = {} /\ Len(e.usages) <= Len(r.fields)
      BY <3>2 DEF Usages, ToSet
    <3> QED
      BY <1>16, <1>17, <3>2, <3>3 DEF Same
  <2> QED
    BY <1>16, <2>1, <2>2
<1>19. Same(WithField(r), Extended(e))
  <2>1. WithField(r) \in H2
    BY <1>16
  <2>2. Len(WithField(r).fields) <= MAX_USAGES_PER_REPORT /\ WithField(r).bits < WORD
    BY <1>5, <2>1 DEF Room
  <2> QED
    BY <1>8, <1>18, <2>2, GrowAlike
<1>20. Agree(H2, ToSet(after))
  <2>1. ASSUME NEW q \in H2 PROVE \E x \in ToSet(after) : Same(q, x)
    <3>1. CASE q = WithField(r)
      BY <1>17, <1>19, <3>1
    <3>2. CASE q \in H /\ Key(q) # k
      <4>1. PICK x \in E : Same(q, x)
        BY <1>13, <3>2 DEF Agree
      <4> QED
        BY <1>17, <3>2, <4>1 DEF Same
    <3> QED
      BY <1>16, <3>1, <3>2
  <2>2. ASSUME NEW x \in ToSet(after) PROVE \E q \in H2 : Same(q, x)
    <3>1. CASE x = Extended(e)
      BY <1>16, <1>19, <3>1
    <3>2. CASE x \in E /\ Key(x) # k
      <4>1. PICK q \in H : Same(q, x)
        BY <1>13, <3>2 DEF Agree
      <4> QED
        BY <1>16, <3>2, <4>1 DEF Same
    <3> QED
      BY <1>17, <3>1, <3>2
  <2> QED
    BY <2>1, <2>2 DEF Agree
<1>21. state' = [state EXCEPT !.usage = NoUsage, !.reports = after]
  BY <1>9, <1>15
<1>22. /\ state'.reports = after /\ state'.usage = NoUsage
       /\ state'.usage_page = state.usage_page /\ state'.report_id = state.report_id
       /\ state'.report_count = state.report_count /\ state'.report_size = state.report_size
       /\ state'.has_touchscreen = state.has_touchscreen /\ state'.has_touchpad = state.has_touchpad
  <2>1. DOMAIN state = {"usage_page", "report_id", "report_count", "report_size", "usage",
                        "collection_depth", "reports", "has_touchscreen", "has_touchpad"}
    BY DEF DetectorType
  <2> QED
    BY <1>21, <2>1
<1>23. SameReports'
  BY <1>2, <1>20, <1>22 DEF SameReports, H2
<1>24. SameItems'
  BY <1>2, <1>8, <1>22 DEF SameItems, LocalState
<1>25. SameKinds'
  BY <1>2, <1>3, <1>8, <1>22 DEF SameKinds, Opened
<1> QED
  BY <1>7, <1>23, <1>24, <1>25 DEF SameSoFar

\* Opening a collection moves the one around it to the stack.
LEMMA OpenStep ==
  ASSUME HidType, DetectorType, Comparable => SameSoFar,
         NEW item \in Items, OpenCollection(item), Collection(item), stacked' = stacked,
         Comparable'
  PROVE  Comparable /\ SameSoFar'
<1> DEFINE new == NewCollection(item.payload, m_local.usage)
           stack == m_collection_stack
           head == [type |-> item.payload, usage |-> m_local.usage]
<1>1. item.tag = "Collection" /\ item.payload \in Nat /\ m_local.usage \in UsageTags
  BY DEF OpenCollection, Items, LocalTags, HidType, HidFields
<1>2. status' \in {"parsing", "done"} /\ ~stacked
  BY DEF Comparable
<1>3. /\ m_collection' = new /\ m_collection_stack' = Append(stack, m_collection)
      /\ m_local' = LocalState /\ status' = status /\ m_global' = m_global
  BY <1>2 DEF OpenCollection
<1>4. new \in HidCollections /\ Reports(new) = <<>> /\ ToSet(Reports(new)) = {}
      /\ ToSet(Collections(new)) = {head}
  BY <1>1, NewCollectionType
<1> HIDE DEF new, head
<1>5. m_collection \in HidCollections /\ stack \in Seq(HidCollections)
  BY DEF HidType
<1>6. /\ OnStack(Append(stack, m_collection)) = Held(stack, m_collection)
      /\ StackUnsplit(Append(stack, m_collection)) <=> Unsplit(stack, m_collection)
      /\ Heads(Append(stack, m_collection), new) = Heads(stack, m_collection) \cup {head}
  BY <1>4, <1>5, Pushed
<1>7. Held(Append(stack, m_collection), new) = Held(stack, m_collection)
  BY <1>4, <1>6 DEF Held
<1>8. Unsplit(Append(stack, m_collection), new) => Unsplit(stack, m_collection)
  BY <1>6 DEF Unsplit
<1>9. Comparable
  BY <1>2, <1>3, <1>7, <1>8 DEF Comparable
<1>10. SameReports /\ SameItems /\ SameKinds
  BY <1>9 DEF SameSoFar
<1>11. /\ state'.reports = state.reports /\ state'.usage = NoUsage
       /\ state'.usage_page = state.usage_page /\ state'.report_id = state.report_id
       /\ state'.report_count = state.report_count /\ state'.report_size = state.report_size
       /\ state'.has_touchscreen = (state.has_touchscreen
              \/ (item.payload = Application /\ state.usage = TOUCHSCREEN))
       /\ state'.has_touchpad = (state.has_touchpad
              \/ (item.payload = Application /\ state.usage = TOUCHPAD))
  <2>1. DOMAIN state = {"usage_page", "report_id", "report_count", "report_size", "usage",
                        "collection_depth", "reports", "has_touchscreen", "has_touchpad"}
    BY DEF DetectorType
  <2> QED
    BY <2>1 DEF Collection
<1>12. SameReports'
  BY <1>3, <1>7, <1>10, <1>11 DEF SameReports
<1>13. SameItems'
  BY <1>3, <1>10, <1>11 DEF SameItems, LocalState
<1>14. \A usage : [type |-> Application, usage |-> usage] = head
                      <=> item.payload = Application /\ m_local.usage = usage
  BY DEF head
<1>15. \A usage : [type |-> Application, usage |-> usage] \in Heads(m_collection_stack', m_collection')
                      <=> \/ [type |-> Application, usage |-> usage] \in Heads(stack, m_collection)
                          \/ item.payload = Application /\ m_local.usage = usage
  BY <1>3, <1>6, <1>14
<1>16. m_local.usage = state.usage
  BY <1>10 DEF SameItems
<1>17. SameKinds'
  BY <1>10, <1>11, <1>15, <1>16, Zenon DEF SameKinds, Opened
<1> QED
  BY <1>9, <1>12, <1>13, <1>17 DEF SameSoFar

\* Closing one leaves what is held as it is.
LEMMA CloseStep ==
  ASSUME HidType, DetectorType, Comparable => SameSoFar,
         NEW item \in Items, CloseCollection(item), EndCollection(item), stacked' = stacked,
         Comparable'
  PROVE  Comparable /\ SameSoFar'
<1> DEFINE stack == m_collection_stack
           c == m_collection
           d == [Last(stack) EXCEPT !.closed = @ \o Reports(c), !.inner = @ \o Collections(c)]
<1>1. status' \in {"parsing", "done"} /\ ~stacked
  BY DEF Comparable
<1>2. /\ stack # <<>> /\ m_collection' = d /\ m_collection_stack' = Front(stack)
      /\ status' = status /\ m_global' = m_global /\ m_local' = m_local
  BY <1>1 DEF CloseCollection
<1>3. c \in HidCollections /\ stack \in Seq(HidCollections)
  BY DEF HidType
<1>4. /\ Held(Front(stack), d) = Held(stack, c)
      /\ Unsplit(Front(stack), d) <=> Unsplit(stack, c)
      /\ Heads(Front(stack), d) = Heads(stack, c)
  BY <1>2, <1>3, Closing
<1> HIDE DEF d
<1>5. Comparable
  BY <1>1, <1>2, <1>4 DEF Comparable
<1>6. SameReports /\ SameItems /\ SameKinds
  BY <1>5 DEF SameSoFar
<1>7. /\ state'.reports = state.reports /\ state'.usage = state.usage
      /\ state'.usage_page = state.usage_page /\ state'.report_id = state.report_id
      /\ state'.report_count = state.report_count /\ state'.report_size = state.report_size
      /\ state'.has_touchscreen = state.has_touchscreen /\ state'.has_touchpad = state.has_touchpad
  <2>1. DOMAIN state = {"usage_page", "report_id", "report_count", "report_size", "usage",
                        "collection_depth", "reports", "has_touchscreen", "has_touchpad"}
    BY DEF DetectorType
  <2> QED
    BY <2>1 DEF EndCollection
<1>8. SameReports'
  BY <1>2, <1>4, <1>6, <1>7 DEF SameReports
<1>9. SameItems'
  BY <1>2, <1>6, <1>7 DEF SameItems
<1>10. SameKinds'
  BY <1>2, <1>4, <1>6, <1>7 DEF SameKinds, Opened
<1> QED
  BY <1>5, <1>8, <1>9, <1>10 DEF SameSoFar

\* The collections and the stacks stay as they are.
LEMMA SameTree ==
  ASSUME UNCHANGED <<m_collection, m_collection_stack, stacked>>,
         status' \in {"parsing", "done"} => status \in {"parsing", "done"},
         state'.reports = state.reports,
         state'.has_touchscreen = state.has_touchscreen, state'.has_touchpad = state.has_touchpad,
         Comparable => SameSoFar, Comparable'
  PROVE  Comparable /\ SameItems /\ SameReports' /\ SameKinds'
<1>1. Comparable
  BY DEF Comparable
<1>2. SameReports /\ SameKinds /\ SameItems
  BY <1>1 DEF SameSoFar
<1>3. SameReports'
  BY <1>2 DEF SameReports
<1>4. SameKinds'
  BY <1>2 DEF SameKinds, Opened
<1> QED
  BY <1>1, <1>2, <1>3, <1>4

\* A global item that iptsd takes is the same number for both: the id of a report
\* fits in eight bits then.
LEMMA GlobalStep ==
  ASSUME HidType, DetectorType, Comparable => SameSoFar,
         NEW item \in Items, SetGlobal(item), Global(item), stacked' = stacked,
         Comparable'
  PROVE  Comparable /\ SameSoFar'
<1>1. status' \in {"parsing", "done"}
  BY DEF Comparable
<1>2. /\ UNCHANGED <<m_collection, m_collection_stack, m_local, status>>
      /\ ~(item.tag = "ReportID" /\ item.payload > 255)
      /\ m_global' = CASE item.tag = "UsagePage"   -> [m_global EXCEPT !.usage_page = item.payload]
                       [] item.tag = "ReportSize"  -> [m_global EXCEPT !.report_size = item.payload]
                       [] item.tag = "ReportCount" -> [m_global EXCEPT !.report_count = item.payload]
                       [] item.tag = "ReportID"    -> [m_global EXCEPT !.report_id = item.payload]
  BY <1>1 DEF SetGlobal
<1>3. item.tag \in {"UsagePage", "ReportSize", "ReportCount", "ReportID"} /\ item.payload \in Nat
  BY DEF SetGlobal, Items, LocalTags
<1>4. item.tag = "ReportID" => item.payload % 256 = item.payload
  BY <1>2, <1>3
<1>5. DOMAIN state = {"usage_page", "report_id", "report_count", "report_size", "usage",
                      "collection_depth", "reports", "has_touchscreen", "has_touchpad"}
  BY DEF DetectorType
<1>6. DOMAIN m_global = {"usage_page", "report_id", "report_count", "report_size"}
  BY DEF HidType, HidGlobals
<1>7. /\ state'.reports = state.reports /\ state'.usage = state.usage
      /\ state'.has_touchscreen = state.has_touchscreen /\ state'.has_touchpad = state.has_touchpad
  BY <1>5 DEF Global
<1>8. Comparable /\ SameItems /\ SameReports' /\ SameKinds'
  BY <1>2, <1>7, SameTree
<1>9. /\ m_global'.usage_page = state'.usage_page /\ m_global'.report_id = state'.report_id
      /\ m_global'.report_count = state'.report_count /\ m_global'.report_size = state'.report_size
  <2>1. CASE item.tag = "UsagePage"
    BY <1>2, <1>5, <1>6, <1>8, <2>1 DEF Global, SameItems
  <2>2. CASE item.tag = "ReportSize"
    BY <1>2, <1>5, <1>6, <1>8, <2>2 DEF Global, SameItems
  <2>3. CASE item.tag = "ReportCount"
    BY <1>2, <1>5, <1>6, <1>8, <2>3 DEF Global, SameItems
  <2>4. CASE item.tag = "ReportID"
    BY <1>2, <1>4, <1>5, <1>6, <1>8, <2>4 DEF Global, SameItems
  <2> QED
    BY <1>3, <2>1, <2>2, <2>3, <2>4
<1>10. SameItems'
  BY <1>2, <1>7, <1>8, <1>9 DEF SameItems
<1> QED
  BY <1>8, <1>10 DEF SameSoFar

\* A usage is put together from the same page, the limits of a range are only kept
\* by iptsd.
LEMMA LocalStep ==
  ASSUME HidType, DetectorType, Comparable => SameSoFar,
         NEW item \in Items, SetLocal(item), Usage(item) \/ Skip(item), stacked' = stacked,
         Comparable'
  PROVE  Comparable /\ SameSoFar'
<1> DEFINE usage == ExtendedUsage(m_global.usage_page, item)
<1>1. DOMAIN m_local = {"usage", "usage_min", "usage_max"}
  BY DEF HidType, HidFields
<1>2. DOMAIN state = {"usage_page", "report_id", "report_count", "report_size", "usage",
                      "collection_depth", "reports", "has_touchscreen", "has_touchpad"}
  BY DEF DetectorType
<1>3. UNCHANGED <<m_global, m_collection, m_collection_stack, status>>
  BY DEF SetLocal
<1>4. /\ state'.reports = state.reports
      /\ state'.has_touchscreen = state.has_touchscreen /\ state'.has_touchpad = state.has_touchpad
      /\ state'.usage_page = state.usage_page /\ state'.report_id = state.report_id
      /\ state'.report_count = state.report_count /\ state'.report_size = state.report_size
  BY <1>2 DEF Usage, Skip
<1>5. Comparable /\ SameItems /\ SameReports' /\ SameKinds'
  BY <1>3, <1>4, SameTree
<1>6. m_local'.usage = state'.usage
  <2>1. CASE item.tag = "Usage"
    <3>1. state' = [state EXCEPT !.usage = MakeExtendedUsage(item)]
      BY <2>1 DEF Usage, Skip
    <3>2. m_local' = [m_local EXCEPT !.usage = usage]
      BY <2>1 DEF SetLocal
    <3>3. usage = MakeExtendedUsage(item)
      BY <1>5 DEF SameItems, ExtendedUsage, MakeExtendedUsage
    <3> QED
      BY <1>1, <1>2, <3>1, <3>2, <3>3
  <2>2. CASE item.tag # "Usage"
    <3>1. state' = state
      BY <2>2 DEF Usage, Skip
    <3>2. m_local'.usage = m_local.usage
      BY <1>1, <2>2 DEF SetLocal, LocalTags
    <3> QED
      BY <1>5, <3>1, <3>2 DEF SameItems
  <2> QED
    BY <2>1, <2>2
<1>7. SameItems'
  BY <1>3, <1>4, <1>5, <1>6 DEF SameItems
<1> QED
  BY <1>5, <1>7 DEF SameSoFar

\* What both act on, each action of the one goes with the one action of the other.
LEMMA ItemStep ==
  ASSUME HidType, DetectorType, stacked \in BOOLEAN, Distinct(state.reports),
         Comparable => SameSoFar, status # "done",
         NEW item \in Items, Item(item), Comparable'
  PROVE  SameSoFar'
<1>1. status' \in {"parsing", "done"} /\ stacked' = FALSE
  BY DEF Comparable, Item
<1>2. stacked' = stacked /\ item.tag \notin {"Push", "Pop"}
  BY <1>1 DEF Item
<1>3. ParseItem(item) /\ ProcessItem(item)
  BY <1>1 DEF Item, hidVars
<1> USE DEF ReportTags, LocalTags
<1>4. CASE CreateField(item)
  <2>1. AddFieldToReport(item)
    BY <1>3, <1>4 DEF CreateField, ProcessItem, Collection, EndCollection, Global, Usage, Skip
  <2> QED
    BY <1>2, <1>4, <2>1, FieldStep
<1>5. CASE OpenCollection(item)
  <2>1. Collection(item)
    BY <1>3, <1>5 DEF OpenCollection, ProcessItem, AddFieldToReport, EndCollection, Global, Usage, Skip
  <2> QED
    BY <1>2, <1>5, <2>1, OpenStep
<1>6. CASE CloseCollection(item)
  <2>1. EndCollection(item)
    BY <1>3, <1>6 DEF CloseCollection, ProcessItem, AddFieldToReport, Collection, Global, Usage, Skip
  <2> QED
    BY <1>2, <1>6, <2>1, CloseStep
<1>7. CASE SetGlobal(item)
  <2>1. Global(item)
    BY <1>3, <1>7 DEF SetGlobal, ProcessItem, AddFieldToReport, Collection, EndCollection, Usage, Skip
  <2> QED
    BY <1>2, <1>7, <2>1, GlobalStep
<1>8. CASE SetLocal(item)
  <2>1. Usage(item) \/ Skip(item)
    BY <1>3, <1>8 DEF SetLocal, ProcessItem, AddFieldToReport, Collection, EndCollection, Global
  <2> QED
    BY <1>2, <1>8, <2>1, LocalStep
<1>9. CASE Ignore(item)
  <2>1. UNCHANGED state
    BY <1>3, <1>9
       DEF Ignore, ProcessItem, AddFieldToReport, Collection, EndCollection, Global, Usage, Skip
  <2>2. Comparable /\ SameItems /\ SameReports' /\ SameKinds'
    BY <1>2, <1>9, <2>1, SameTree DEF Ignore, hidVars
  <2>3. SameItems'
    BY <1>9, <2>1, <2>2 DEF Ignore, hidVars, SameItems
  <2> QED
    BY <2>2, <2>3 DEF SameSoFar
<1> QED
  BY <1>2, <1>3, <1>4, <1>5, <1>6, <1>7, <1>8, <1>9 DEF ParseItem, PushGlobal, PopGlobal

-----------------------------------------------------------------------------
(* Types.                                                                  *)

\* iptsd keeps its types, and the descriptor itself has no usage.
LEMMA HidStep ==
  ASSUME HidType, Root.usage = NoUsage, NEW item \in Items, ParseItem(item)
  PROVE  HidType' /\ (Root.usage = NoUsage)' /\ status' # "done"
<1>1. /\ m_global \in HidGlobals /\ m_global_stack \in Seq(HidGlobals) /\ m_local \in HidFields
      /\ m_collection \in HidCollections /\ m_collection_stack \in Seq(HidCollections)
      /\ status = "parsing"
  BY DEF HidType, ParseItem
<1>2. LocalState \in HidFields
  BY DEF LocalState, HidFields, UsageTags, NoUsage
<1>3. NoUsage \in UsageTags
  BY DEF NoUsage, UsageTags
<1>4. /\ item.tag \notin LocalTags => item.payload \in Nat
      /\ item.tag \in LocalTags => \/ item.size = 4 /\ item.payload \in UsageTags
                                   \/ item.size # 4 /\ item.payload \in Nat
  BY DEF Items, LocalTags, UsageTags
<1>5. CASE CreateField(item)
  <2> DEFINE type == item.tag
             d == [m_collection EXCEPT !.reports = AddField(@, type)]
  <2>1. type \in ReportTags /\ m_collection' = d /\ m_local' = LocalState
        /\ UNCHANGED <<m_global, m_global_stack, m_collection_stack, status>>
    BY <1>5 DEF CreateField
  <2>2. d \in HidCollections /\ d.usage = m_collection.usage
    <3> HIDE DEF type
    <3> QED
      BY <2>1, FieldHeld
  <2> HIDE DEF d
  <2> QED
    BY <1>1, <1>2, <2>1, <2>2 DEF HidType, Root
<1>6. CASE OpenCollection(item)
  <2>1. item.payload \in Nat /\ m_local.usage \in UsageTags
    BY <1>1, <1>4, <1>6 DEF OpenCollection, LocalTags, HidFields
  <2>2. NewCollection(0, NoUsage) \in HidCollections
        /\ NewCollection(item.payload, m_local.usage) \in HidCollections
    BY <1>3, <2>1, NewCollectionType
  <2>3. /\ m_collection_stack' = Append(m_collection_stack, m_collection)
        /\ m_collection' \in HidCollections /\ m_local' \in HidFields
        /\ status' \in {"parsing", "thrown"} /\ UNCHANGED <<m_global, m_global_stack>>
    BY <1>1, <1>2, <1>6, <2>2 DEF OpenCollection
  <2>4. m_collection_stack' \in Seq(HidCollections) /\ m_collection_stack' # <<>>
        /\ m_collection_stack'[1] = (IF m_collection_stack = <<>> THEN m_collection
                                     ELSE m_collection_stack[1])
    BY <1>1, <2>3
  <2> QED
    BY <1>1, <2>3, <2>4 DEF HidType, Root
<1>7. CASE CloseCollection(item)
  <2>1. CASE m_collection_stack = <<>>
    BY <1>1, <1>7, <2>1 DEF CloseCollection, HidType, Root
  <2>2. CASE m_collection_stack # <<>>
    <3> DEFINE p == Last(m_collection_stack)
               below == Front(m_collection_stack)
               d == [p EXCEPT !.closed = @ \o Reports(m_collection),
                              !.inner = @ \o Collections(m_collection)]
    <3>1. /\ m_collection' = d /\ m_collection_stack' = below
          /\ UNCHANGED <<m_global, m_global_stack, m_local, status>>
      BY <1>7, <2>2 DEF CloseCollection
    <3>2. d \in HidCollections /\ d.usage = p.usage
      BY <1>1, <2>2, Closing
    <3>3. /\ below \in Seq(HidCollections)
          /\ below # <<>> => below[1] = m_collection_stack[1]
          /\ below = <<>> => p = m_collection_stack[1]
      BY <1>1, <2>2, Popped
    <3> HIDE DEF d, below, p
    <3> QED
      BY <1>1, <2>2, <3>1, <3>2, <3>3 DEF HidType, Root
  <2> QED
    BY <2>1, <2>2
<1>8. CASE SetGlobal(item)
  <2>1. item.tag \in {"UsagePage", "ReportSize", "ReportCount", "ReportID"} /\ item.payload \in Nat
        /\ UNCHANGED <<m_global_stack, m_local, m_collection, m_collection_stack>>
    BY <1>4, <1>8 DEF SetGlobal, LocalTags
  <2>2. m_global' \in HidGlobals /\ status' \in {"parsing", "thrown"}
    <3>1. CASE item.tag = "ReportID"
      <4>1. CASE item.payload > 255
        BY <1>1, <1>8, <3>1, <4>1 DEF SetGlobal
      <4>2. CASE ~(item.payload > 255)
        <5>1. m_global' = [m_global EXCEPT !.report_id = item.payload] /\ status' = status
          BY <1>8, <3>1, <4>2 DEF SetGlobal
        <5>2. item.payload \in ReportIds
          BY <2>1, <4>2 DEF ReportIds
        <5> QED
          BY <1>1, <5>1, <5>2 DEF HidGlobals
      <4> QED
        BY <4>1, <4>2
    <3>2. CASE item.tag # "ReportID"
      BY <1>1, <1>8, <2>1, <3>2 DEF SetGlobal, HidGlobals
    <3> QED
      BY <3>1, <3>2
  <2> QED
    BY <1>1, <2>1, <2>2 DEF HidType, Root
<1>9. CASE PushGlobal(item)
  BY <1>1, <1>9 DEF PushGlobal, HidType, Root
<1>10. CASE PopGlobal(item)
  <2>1. CASE m_global_stack = <<>>
    BY <1>1, <1>10, <2>1 DEF PopGlobal, HidType, Root
  <2>2. CASE m_global_stack # <<>>
    <3>1. Last(m_global_stack) \in HidGlobals /\ Front(m_global_stack) \in Seq(HidGlobals)
      BY <1>1, <2>2, Popped
    <3> QED
      BY <1>1, <1>10, <2>2, <3>1 DEF PopGlobal, HidType, Root
  <2> QED
    BY <2>1, <2>2
<1>11. CASE SetLocal(item)
  <2> DEFINE usage == ExtendedUsage(m_global.usage_page, item)
  <2>1. usage \in UsageTags
    BY <1>1, <1>4, <1>11 DEF SetLocal, ExtendedUsage, HidGlobals, UsageTags
  <2>2. UNCHANGED <<m_global, m_global_stack, m_collection, m_collection_stack, status>>
    BY <1>11 DEF SetLocal
  <2>3. \/ m_local' = [m_local EXCEPT !.usage = usage]
        \/ m_local' = [m_local EXCEPT !.usage_min = usage]
        \/ m_local' = [m_local EXCEPT !.usage_max = usage]
    BY <1>11 DEF SetLocal, LocalTags
  <2> HIDE DEF usage
  <2>4. m_local' \in HidFields
    BY <1>1, <2>1, <2>3 DEF HidFields
  <2> QED
    BY <1>1, <2>2, <2>4 DEF HidType, Root
<1>12. CASE Ignore(item)
  BY <1>1, <1>12 DEF Ignore, hidVars, HidType, Root
<1> QED
  BY <1>5, <1>6, <1>7, <1>8, <1>9, <1>10, <1>11, <1>12 DEF ParseItem

\* So does the detector, and its table has one entry for each type and id.
LEMMA DetectorStep ==
  ASSUME DetectorType, Distinct(state.reports), NEW item \in Items, ProcessItem(item)
  PROVE  DetectorType' /\ Distinct(state'.reports)
<1>1. /\ state.reports \in Seq(Entries) /\ Len(state.reports) <= MAX_REPORTS
      /\ state.collection_depth \in 0..MAX_COLLECTION_DEPTH
  BY DEF DetectorType
<1>2. NoUsage \in UsageTags
  BY DEF NoUsage, UsageTags
<1>3. /\ item.tag \notin LocalTags => item.payload \in Nat
      /\ item.tag \in LocalTags => \/ item.size = 4 /\ item.payload \in UsageTags
                                   \/ item.size # 4 /\ item.payload \in Nat
  BY DEF Items, LocalTags, UsageTags
<1>4. CASE AddFieldToReport(item)
  <2> DEFINE type == item.tag
             reports == FindOrCreateReport(type)
             found == Matching(reports, type)
             after == [reports EXCEPT ![CHOOSE i \in found : TRUE] = Extended(@)]
  <2>1. state' = IF found = {} THEN state ELSE [state EXCEPT !.usage = NoUsage, !.reports = after]
    BY <1>4 DEF AddFieldToReport
  <2>2. found # {} => after \in Seq(Entries) /\ Len(after) <= MAX_REPORTS /\ Distinct(after)
    <3>1. type \in ReportTags
      BY <1>4 DEF AddFieldToReport
    <3> HIDE DEF type
    <3> QED
      BY <3>1, EntryAdded
  <2> HIDE DEF type, reports, found, after
  <2>3. CASE found = {}
    BY <2>1, <2>3 DEF DetectorType
  <2>4. CASE found # {}
    <3>1. state' = [state EXCEPT !.usage = NoUsage, !.reports = after]
      BY <2>1, <2>4
    <3>2. state'.reports = after
      BY <3>1 DEF DetectorType
    <3> QED
      BY <1>2, <2>2, <2>4, <3>1, <3>2 DEF DetectorType
  <2> QED
    BY <2>3, <2>4
<1>5. CASE Collection(item)
  <2> DEFINE depth == IF state.collection_depth < MAX_COLLECTION_DEPTH
                      THEN state.collection_depth + 1 ELSE state.collection_depth
             screen == state.has_touchscreen \/ (item.payload = Application /\ state.usage = TOUCHSCREEN)
             pad == state.has_touchpad \/ (item.payload = Application /\ state.usage = TOUCHPAD)
  <2>1. state' = [state EXCEPT !.collection_depth = depth, !.has_touchscreen = screen,
                               !.has_touchpad = pad, !.usage = NoUsage]
    BY <1>5 DEF Collection
  <2>2. depth \in 0..MAX_COLLECTION_DEPTH
    BY <1>1, LimitAssumption
  <2>3. screen \in BOOLEAN /\ pad \in BOOLEAN
    BY Zenon
  <2> HIDE DEF depth, screen, pad
  <2> QED
    BY <1>1, <1>2, <2>1, <2>2, <2>3 DEF DetectorType
<1>6. CASE EndCollection(item)
  BY <1>1, <1>6, LimitAssumption DEF EndCollection, DetectorType
<1>7. CASE Global(item)
  <2>1. item.tag \in {"UsagePage", "ReportSize", "ReportCount", "ReportID"} /\ item.payload \in Nat
    BY <1>3, <1>7 DEF Global, LocalTags
  <2>2. item.payload % 256 \in ReportIds
    BY <2>1 DEF ReportIds
  <2> QED
    BY <1>1, <1>7, <2>1, <2>2 DEF Global, DetectorType
<1>8. CASE Usage(item)
  <2>1. MakeExtendedUsage(item) \in UsageTags
    BY <1>3, <1>8 DEF Usage, MakeExtendedUsage, DetectorType, UsageTags, LocalTags
  <2> QED
    BY <1>1, <1>8, <2>1 DEF Usage, DetectorType
<1>9. CASE Skip(item)
  BY <1>9 DEF Skip, DetectorType
<1> QED
  BY <1>4, <1>5, <1>6, <1>7, <1>8, <1>9 DEF ProcessItem

-----------------------------------------------------------------------------
(* The invariant.                                                          *)

LEMMA InitIInv == Init => IInv
<1> SUFFICES ASSUME Init PROVE IInv
  OBVIOUS
<1> DEFINE root == NewCollection(0, NoUsage)
<1>1. /\ m_global = GlobalState /\ m_global_stack = <<>> /\ m_local = LocalState
      /\ m_collection = root /\ m_collection_stack = <<>> /\ status = "parsing"
      /\ blocks = 0 /\ pending = Opening /\ stacked = FALSE /\ open = TRUE
  BY DEF Init, HidInit
<1>2. NoUsage \in UsageTags /\ NoID \in ReportIds
  BY DEF NoUsage, UsageTags, ReportIds
<1>3. /\ root \in HidCollections /\ root.usage = NoUsage /\ Reports(root) = <<>>
      /\ ToSet(Reports(root)) = {} /\ ToSet(Collections(root)) = {[type |-> 0, usage |-> NoUsage]}
  BY <1>2, NewCollectionType
<1> HIDE DEF root
<1>4. HidType
  BY <1>1, <1>2, <1>3 DEF HidType, GlobalState, LocalState, HidGlobals, HidFields
<1>5. /\ state.reports = <<>> /\ state.usage_page = 0 /\ state.report_id = NoID
      /\ state.report_count = 0 /\ state.report_size = 0 /\ state.usage = NoUsage
      /\ state.has_touchscreen = FALSE /\ state.has_touchpad = FALSE
  BY DEF Init, ParserInit
<1>6. DetectorType /\ Distinct(state.reports)
  BY <1>2, <1>5, LimitAssumption DEF Init, ParserInit, DetectorType, Distinct
<1>7. InputType
  <2>1. Opening \in Seq(Items) /\ 0 \in 0..MaxBlocks
    BY BlocksAssumption
  <2>2. pending \in Seq(Items) /\ blocks \in 0..MaxBlocks
    BY <1>1, <2>1
  <2>3. stacked \in BOOLEAN /\ open \in BOOLEAN
    BY <1>1
  <2> QED
    BY <2>2, <2>3 DEF InputType
<1>8. Root.usage = NoUsage
  BY <1>1, <1>3 DEF Root
<1>9. SameReports
  BY <1>1, <1>3, <1>5 DEF SameReports, Agree, Held, OnStack, ToSet
<1>10. SameItems
  BY <1>1, <1>5 DEF SameItems, GlobalState, LocalState
<1>11. SameKinds
  <2>1. Heads(m_collection_stack, m_collection) = {[type |-> 0, usage |-> NoUsage]}
    BY <1>1, <1>3 DEF Heads
  <2>2. \A usage : [type |-> Application, usage |-> usage] # [type |-> 0, usage |-> NoUsage]
    BY DEF Application
  <2> QED
    BY <1>5, <2>1, <2>2 DEF SameKinds, Opened
<1> QED
  BY <1>1, <1>4, <1>6, <1>7, <1>8, <1>9, <1>10, <1>11 DEF IInv, SameSoFar

LEMMA ItemKeeps ==
  ASSUME IInv, open, NEW item \in Items, Item(item),
         pending' \in Seq(Items), blocks' \in 0..MaxBlocks
  PROVE  IInv'
<1>1. HidType /\ DetectorType /\ stacked \in BOOLEAN /\ Distinct(state.reports)
      /\ Root.usage = NoUsage /\ (Comparable => SameSoFar) /\ status # "done"
  BY DEF IInv, InputType
<1>2. HidType' /\ (Root.usage = NoUsage)' /\ status' # "done"
  <2>1. CASE ParseItem(item)
    BY <1>1, <2>1, HidStep
  <2>2. CASE UNCHANGED hidVars
    BY <1>1, <2>2 DEF hidVars, HidType, Root
  <2> QED
    BY <2>1, <2>2 DEF Item
<1>3. DetectorType' /\ Distinct(state'.reports)
  BY <1>1, DetectorStep DEF Item
<1>4. open' = open /\ stacked' \in BOOLEAN
  <2>1. stacked' = (stacked \/ item.tag \in {"Push", "Pop"}) /\ open' = open
    BY DEF Item
  <2> QED
    BY <2>1, Zenon
<1>5. InputType'
  BY <1>4 DEF InputType, IInv
<1>6. Comparable' => SameSoFar'
  BY <1>1, ItemStep
<1> QED
  BY <1>2, <1>3, <1>5, <1>6 DEF IInv

LEMMA NextIInv == IInv /\ [Next]_vars => IInv'
<1> SUFFICES ASSUME IInv, [Next]_vars PROVE IInv'
  OBVIOUS
<1>1. pending \in Seq(Items) /\ blocks \in 0..MaxBlocks
  BY DEF IInv, InputType
<1>2. CASE ReadItem
  <2>1. Head(pending) \in Items /\ pending' \in Seq(Items) /\ blocks' = blocks
    BY <1>1, <1>2 DEF ReadItem
  <2>2. open /\ Item(Head(pending))
    BY <1>2 DEF ReadItem
  <2> QED
    BY <1>1, <2>1, <2>2, ItemKeeps
<1>3. CASE NextBlock
  <2>1. PICK block \in Blocks : Item(Head(block)) /\ pending' = Tail(block)
    BY <1>3 DEF NextBlock
  <2>2. block \in Seq(Items) /\ block # <<>>
    BY BlocksAssumption
  <2>3. Head(block) \in Items /\ pending' \in Seq(Items)
    BY <2>1, <2>2
  <2>4. open /\ blocks' \in 0..MaxBlocks
    BY <1>1, <1>3, BlocksAssumption DEF NextBlock
  <2> QED
    BY <2>1, <2>3, <2>4, ItemKeeps
<1>4. CASE End
  <2>1. /\ UNCHANGED <<m_global, m_global_stack, m_local, m_collection, m_collection_stack>>
        /\ UNCHANGED <<state, blocks, pending, stacked>> /\ open' = FALSE
        /\ status' \in {"parsing", "done", "thrown", "undefined"}
        /\ status' \in {"parsing", "done"} => status \in {"parsing", "done"}
    <3>1. CASE \E truncated \in BOOLEAN : EndOfBuffer(truncated)
      BY <1>4, <3>1 DEF End, EndOfBuffer
    <3>2. CASE status # "parsing" /\ UNCHANGED hidVars
      BY <1>4, <3>2 DEF End, hidVars, IInv, HidType
    <3> QED
      BY <1>4, <3>1, <3>2 DEF End
  <2>2. HidType' /\ (Root.usage = NoUsage)'
    BY <2>1 DEF IInv, HidType, Root
  <2>3. DetectorType' /\ Distinct(state'.reports)
    BY <2>1 DEF IInv, DetectorType, Distinct
  <2>4. InputType'
    BY <2>1 DEF IInv, InputType
  <2>5. ASSUME Comparable' PROVE SameSoFar'
    <3>1. Comparable /\ SameItems /\ SameReports' /\ SameKinds'
      BY <2>1, <2>5, SameTree DEF IInv
    <3>2. SameItems'
      BY <2>1, <3>1 DEF SameItems
    <3> QED
      BY <3>1, <3>2 DEF SameSoFar
  <2> QED
    BY <2>1, <2>2, <2>3, <2>4, <2>5 DEF IInv
<1>5. CASE UNCHANGED vars
  <2>1. /\ UNCHANGED <<m_global, m_global_stack, m_local, m_collection, m_collection_stack, status>>
        /\ UNCHANGED <<state, blocks, pending, stacked, open>>
    BY <1>5 DEF vars, hidVars
  <2>2. HidType' /\ (Root.usage = NoUsage)' /\ InputType'
    BY <2>1 DEF IInv, HidType, Root, InputType
  <2>3. DetectorType' /\ Distinct(state'.reports)
    BY <2>1 DEF IInv, DetectorType, Distinct
  <2>4. ASSUME Comparable' PROVE SameSoFar'
    <3>1. Comparable /\ SameItems /\ SameReports' /\ SameKinds'
      BY <2>1, <2>4, SameTree DEF IInv
    <3>2. SameItems'
      BY <2>1, <3>1 DEF SameItems
    <3> QED
      BY <3>1, <3>2 DEF SameSoFar
  <2> QED
    BY <2>1, <2>2, <2>3, <2>4 DEF IInv
<1> QED
  BY <1>2, <1>3, <1>4, <1>5 DEF Next

\* What iptsd and the detector hold are reports and entries, whatever is read, and
\* as long as the descriptor is a regular one they agree.
THEOREM Agreement == Spec => []IInv
<1>1. Init => IInv
  BY InitIInv
<1>2. IInv /\ [Next]_vars => IInv'
  BY NextIInv
<1> QED
  BY <1>1, <1>2, PTL DEF Spec

\* Every variable has its type: no table overflows and no id is cut off.
THEOREM TypeCorrect == Spec => []TypeOK
<1>1. IInv => TypeOK
  <2> SUFFICES ASSUME IInv PROVE TypeOK
    OBVIOUS
  <2>1. HidType /\ DetectorType /\ InputType
    BY DEF IInv
  <2>2. m_global.report_id \in {NoID} \cup 0..255 /\ state.report_id \in {NoID} \cup 0..255
    BY <2>1 DEF HidType, HidGlobals, DetectorType, ReportIds
  <2>3. \A i \in DOMAIN state.reports : state.reports[i].type \in ReportTags
    <3>1. state.reports \in Seq(Entries)
      BY <2>1 DEF DetectorType
    <3>2. \A i \in DOMAIN state.reports : state.reports[i] \in Entries
      BY <3>1
    <3> QED
      BY <3>2 DEF Entries
  <2> QED
    BY <2>1, <2>2, <2>3 DEF TypeOK, HidType, DetectorType, InputType
<1> QED
  BY <1>1, Agreement, PTL

-----------------------------------------------------------------------------
(* What both make of a regular descriptor at its end.                      *)

LEMMA RegularAgrees ==
  ASSUME IInv, Regular
  PROVE  /\ Agree(ToSet(DescReports), ToSet(state.reports))
         /\ ToSet(DescReports) \subseteq HidReports
         /\ SameKinds /\ m_collection_stack = <<>>
<1>1. status = "done" /\ m_collection_stack = <<>> /\ ~stacked
  BY DEF Regular, Closed
<1>2. m_collection \in HidCollections /\ DescReports \in Seq(HidReports)
      /\ ToSet(DescReports) \subseteq HidReports
  <2>1. m_collection \in HidCollections /\ m_collection_stack \in Seq(HidCollections)
    BY DEF IInv, HidType
  <2> QED
    BY <2>1, CollectionType, HeldType DEF DescReports
<1>3. Distinct(DescReports)
  <2>1. ASSUME NEW i \in DOMAIN DescReports, NEW j \in DOMAIN DescReports,
               Key(DescReports[i]) = Key(DescReports[j])
        PROVE  i = j
    <3>1. Ids(DescReports)[i] = Ids(DescReports)[j]
      BY <2>1 DEF Ids, Key
    <3>2. DOMAIN Ids(DescReports) = DOMAIN DescReports
      BY DEF Ids
    <3>3. IsInjective(Ids(DescReports))
      BY DEF Regular
    <3> QED
      BY <3>1, <3>2, <3>3 DEF IsInjective
  <2> QED
    BY <2>1 DEF Distinct
<1>4. Held(m_collection_stack, m_collection) = ToSet(DescReports)
  BY <1>1 DEF Held, OnStack, DescReports
<1>5. Unsplit(m_collection_stack, m_collection)
  <2>1. KeysOf(OnStack(m_collection_stack)) = {} /\ StackUnsplit(m_collection_stack)
    BY <1>1 DEF KeysOf, OnStack, StackUnsplit
  <2> QED
    BY <1>3, <2>1 DEF Unsplit, DescReports
<1>6. Room(ToSet(DescReports))
  <2>1. IsFiniteSet(KeysOf(ToSet(DescReports)))
        /\ Cardinality(KeysOf(ToSet(DescReports))) = Len(DescReports)
    BY <1>2, <1>3, DistinctCount
  <2>2. Len(DescReports) <= MAX_REPORTS
    BY DEF Regular
  <2>3. \A r \in ToSet(DescReports) : Len(r.fields) <= MAX_USAGES_PER_REPORT /\ r.bits < WORD
    BY DEF Regular, ToSet
  <2> QED
    BY <2>1, <2>2, <2>3 DEF Room
<1>7. Comparable
  BY <1>1, <1>4, <1>5, <1>6 DEF Comparable
<1>8. SameReports /\ SameKinds
  BY <1>7 DEF IInv, SameSoFar
<1> QED
  BY <1>1, <1>2, <1>4, <1>8 DEF SameReports

\* A usage is found in a report if it is one of those described.
LEMMA UsageFound ==
  ASSUME NEW r \in HidReports, NEW e \in Entries, Same(r, e), NEW usage, usage # NoUsage
  PROVE  /\ ReportHasUsage(e, usage) => HasUsage(r, usage)
         /\ (\A j \in DOMAIN r.fields : r.fields[j].usage_min = NoUsage) =>
                (HasUsage(r, usage) => ReportHasUsage(e, usage))
<1>1. Usages(r) = ToSet(e.usages)
  BY DEF Same
<1>2. ReportHasUsage(e, usage) <=> usage \in Usages(r)
  BY <1>1 DEF ReportHasUsage, ToSet
<1>3. usage \in Usages(r) <=> \E j \in DOMAIN r.fields : r.fields[j].usage = usage
  BY DEF Usages
<1> QED
  BY <1>2, <1>3 DEF HasUsage, FieldHasUsage

LEMMA SameVerdicts ==
  ASSUME NEW r \in HidReports, NEW e \in Entries, Same(r, e)
  PROVE  /\ IsTouchInput(e) => IsTouchData(r)
         /\ IsModesetting(e) => IsSetMode(r)
         /\ (\A j \in DOMAIN r.fields : r.fields[j].usage_min = NoUsage) =>
                /\ IsTouchData(r) => IsTouchInput(e)
                /\ IsSetMode(r) /\ r.bits % 8 = 0 => IsModesetting(e)
<1>1. r.type = e.type /\ r.bits = e.total_bits /\ r.bits \in Nat
  BY DEF Same, Key, HidReports
<1>2. SCAN_TIME # NoUsage /\ GESTURE_DATA # NoUsage /\ SET_MODE # NoUsage
  BY DEF SCAN_TIME, GESTURE_DATA, SET_MODE, NoUsage, DIGITIZER, VENDOR
<1> DEFINE plain == \A j \in DOMAIN r.fields : r.fields[j].usage_min = NoUsage
<1>3. \A usage \in {SCAN_TIME, GESTURE_DATA, SET_MODE} :
          /\ ReportHasUsage(e, usage) => HasUsage(r, usage)
          /\ plain /\ HasUsage(r, usage) => ReportHasUsage(e, usage)
  BY <1>2, UsageFound
<1> HIDE DEF plain
<1>4. r.bits = 8 => Bytes(r) = 1
  BY DEF Bytes
<1>5. Bytes(r) = 1 /\ r.bits % 8 = 0 => r.bits = 8
  BY <1>1 DEF Bytes
<1>6. (IsTouchInput(e) => IsTouchData(r)) /\ (plain /\ IsTouchData(r) => IsTouchInput(e))
  BY <1>1, <1>3 DEF IsTouchInput, IsTouchData
<1>7. /\ IsModesetting(e) => IsSetMode(r)
      /\ plain /\ IsSetMode(r) /\ r.bits % 8 = 0 => IsModesetting(e)
  BY <1>1, <1>3, <1>4, <1>5 DEF IsModesetting, IsSetMode
<1> QED
  BY <1>6, <1>7 DEF plain

\* The collections that iptsd finds by their usage are those the detector has
\* flagged, when the digitizers are application collections.
LEMMA SameCollections ==
  ASSUME IInv, SameKinds, m_collection_stack = <<>>,
         NEW usage \in {TOUCHSCREEN, TOUCHPAD},
         ApplicationsOnly
  PROVE  HasCollection(usage) <=> Opened(usage)
<1> DEFINE head == [type |-> m_collection.type, usage |-> m_collection.usage]
           wanted == [type |-> Application, usage |-> usage]
<1>1. m_collection \in HidCollections /\ m_collection.usage = NoUsage
  BY DEF IInv, HidType, Root
<1>2. DescCollections \in Seq(HidHeads) /\ head \in HidHeads
  BY <1>1 DEF DescCollections, HidCollections, HidHeads
<1>3. usage # NoUsage
  BY DEF TOUCHSCREEN, TOUCHPAD, NoUsage, DIGITIZER
<1>4. wanted # head
  BY <1>1, <1>3
<1>5. Heads(m_collection_stack, m_collection) = {head} \cup ToSet(DescCollections)
  <2>1. \A A, B \in Seq(HidHeads) : ToSet(A \o B) = ToSet(A) \cup ToSet(B)
    BY ToSetConcat
  <2>2. Collections(m_collection) = <<head>> \o DescCollections
    BY DEF Collections, DescCollections
  <2>3. ToSet(<<head>>) = {head}
    BY DEF ToSet
  <2> HIDE DEF head
  <2>4. <<head>> \in Seq(HidHeads)
    BY <1>2
  <2>5. ToSet(Collections(m_collection)) = ToSet(<<head>>) \cup ToSet(DescCollections)
    BY <1>2, <2>1, <2>2, <2>4, Zenon
  <2>6. Heads(m_collection_stack, m_collection) = ToSet(Collections(m_collection))
    BY DEF Heads
  <2> QED
    BY <2>3, <2>5, <2>6
<1>6. Opened(usage) <=> wanted \in ToSet(DescCollections)
  BY <1>4, <1>5 DEF Opened
<1>7. ASSUME NEW i \in DOMAIN DescCollections
      PROVE  DescCollections[i].usage = usage <=> DescCollections[i] = wanted
  <2>1. DescCollections[i] \in HidHeads
    BY <1>2
  <2>2. DescCollections[i].usage = usage => DescCollections[i].type = Application
    BY DEF ApplicationsOnly
  <2> QED
    BY <2>1, <2>2 DEF HidHeads
<1>8. wanted \in ToSet(DescCollections) <=> \E i \in DOMAIN DescCollections : DescCollections[i] = wanted
  <2> HIDE DEF wanted
  <2> QED
    BY DEF ToSet
<1> HIDE DEF wanted
<1> QED
  BY <1>6, <1>7, <1>8 DEF HasCollection

\* Then both take the device for the same kind.
LEMMA SameTypes ==
  ASSUME IInv, SameKinds, m_collection_stack = <<>>, ApplicationsOnly
  PROVE  DetectedType = DeviceType
<1>1. HasCollection(TOUCHSCREEN) <=> Opened(TOUCHSCREEN)
  BY SameCollections
<1>2. HasCollection(TOUCHPAD) <=> Opened(TOUCHPAD)
  BY SameCollections
<1>3. /\ state.has_touchscreen <=> HasCollection(TOUCHSCREEN)
      /\ state.has_touchpad <=> HasCollection(TOUCHPAD)
  BY <1>1, <1>2 DEF SameKinds
<1> QED
  BY <1>3, Zenon DEF DetectedType, DeviceType

\* However a regular descriptor nests and orders its items, the table of the runner
\* and the tree of iptsd have the same reports; on a plain one both accept the
\* device or neither does, and both take it for the same kind.
THEOREM SameReadingHolds == Spec => []SameReading
<1>1. IInv => SameReading
  <2> SUFFICES ASSUME IInv, Regular
               PROVE  /\ ToSet([i \in DOMAIN DescReports |-> Described(DescReports[i])])
                           = {<<r.type, r.report_id, r.total_bits, ToSet(r.usages)>> :
                                  r \in ToSet(state.reports)}
                      /\ Plain => /\ Detected <=> DeviceAccepted
                                  /\ DetectedType = DeviceType
    BY DEF SameReading
  <2> DEFINE R == ToSet(DescReports)
             E == ToSet(state.reports)
             Row(e) == <<e.type, e.report_id, e.total_bits, ToSet(e.usages)>>
  <2>1. Agree(R, E) /\ R \subseteq HidReports /\ SameKinds /\ m_collection_stack = <<>>
    BY RegularAgrees
  <2>2. E \subseteq Entries
    <3>1. state.reports \in Seq(Entries)
      BY DEF IInv, DetectorType
    <3> QED
      BY <3>1 DEF ToSet
  <2>3. ToSet([i \in DOMAIN DescReports |-> Described(DescReports[i])]) = {Described(r) : r \in R}
    BY Zenon DEF ToSet
  <2>4. \A r \in R : \E e \in E : Same(r, e)
    BY <2>1 DEF Agree
  <2>5. \A e \in E : \E r \in R : Same(r, e)
    BY <2>1 DEF Agree
  <2>6. \A r, e : Same(r, e) => Described(r) = Row(e)
    BY DEF Same, Key, Described
  <2> HIDE DEF R, E, Row
  <2>7. {Described(r) : r \in R} = {Row(e) : e \in E}
    <3>1. ASSUME NEW r \in R PROVE \E e \in E : Described(r) = Row(e)
      BY <2>4, <2>6
    <3>2. ASSUME NEW e \in E PROVE \E r \in R : Described(r) = Row(e)
      BY <2>5, <2>6
    <3> QED
      BY <3>1, <3>2
  <2>8. ASSUME Plain PROVE Detected <=> DeviceAccepted
    <3>1. \A r \in R : r.bits % 8 = 0 /\ \A j \in DOMAIN r.fields : r.fields[j].usage_min = NoUsage
      BY <2>8 DEF Plain, R, ToSet
    <3>2. \A r \in R, e \in E : Same(r, e) => /\ IsTouchInput(e) <=> IsTouchData(r)
                                              /\ IsModesetting(e) <=> IsSetMode(r)
      <4> SUFFICES ASSUME NEW r \in R, NEW e \in E, Same(r, e)
                   PROVE  /\ IsTouchInput(e) <=> IsTouchData(r)
                          /\ IsModesetting(e) <=> IsSetMode(r)
        OBVIOUS
      <4>1. r \in HidReports /\ e \in Entries
        BY <2>1, <2>2
      <4>2. r.bits % 8 = 0 /\ \A j \in DOMAIN r.fields : r.fields[j].usage_min = NoUsage
        BY <3>1
      <4> QED
        BY <4>1, <4>2, SameVerdicts
    <3>3. (\E e \in E : IsTouchInput(e)) <=> (\E r \in R : IsTouchData(r))
      BY <2>4, <2>5, <3>2
    <3>4. (\E e \in E : IsModesetting(e)) <=> (\E r \in R : IsSetMode(r))
      BY <2>4, <2>5, <3>2
    <3> QED
      BY <3>3, <3>4 DEF Detected, DeviceAccepted, TouchDataReports, SetModeReports, R, E
  <2>9. ASSUME Plain PROVE DetectedType = DeviceType
    BY <2>1, <2>9, SameTypes DEF Plain
  <2> QED
    BY <2>3, <2>7, <2>8, <2>9 DEF Row, E
<1> QED
  BY <1>1, Agreement, PTL

\* An iptsd that is started for a device of one kind whose reports all have ids does
\* not refuse it: the reports the detector judged by are those iptsd judges by
\* (ipts/device.hpp, the constructor, type and set_mode).
THEOREM NoStartRefused == Spec => []NoRefusedStart
<1>1. IInv => NoRefusedStart
  <2> SUFFICES ASSUME IInv, Regular, ApplicationsOnly, Detected, DetectedType # "unknown", Numbered
               PROVE  DeviceStarts
    BY DEF NoRefusedStart
  <2> DEFINE R == ToSet(DescReports)
             E == ToSet(state.reports)
  <2>1. Agree(R, E) /\ R \subseteq HidReports /\ SameKinds /\ m_collection_stack = <<>>
    BY RegularAgrees
  <2>2. E \subseteq Entries
    <3>1. state.reports \in Seq(Entries)
      BY DEF IInv, DetectorType
    <3> QED
      BY <3>1 DEF ToSet
  <2>3. PICK e \in E, f \in E : IsModesetting(e) /\ IsTouchInput(f)
    BY DEF Detected
  <2>4. \A g \in E : g.report_id # NoID
    BY DEF Numbered
  <2>5. ModesettingReport \subseteq R
    BY DEF ModesettingReport, ToSet
  <2> HIDE DEF R, E
  <2>6. PICK r \in R, q \in R : Same(r, e) /\ Same(q, f)
    BY <2>1, <2>3 DEF Agree
  <2>7. IsSetMode(r) /\ IsTouchData(q)
    BY <2>1, <2>2, <2>3, <2>6, SameVerdicts
  <2>8. DeviceAccepted
    BY <2>6, <2>7 DEF DeviceAccepted, SetModeReports, TouchDataReports, R
  <2>9. DeviceType # "unknown"
    BY <2>1, SameTypes
  <2>10. \A m \in R : m.report_id # NoID
    <3> SUFFICES ASSUME NEW m \in R PROVE m.report_id # NoID
      OBVIOUS
    <3>1. PICK g \in E : Same(m, g)
      BY <2>1 DEF Agree
    <3>2. m.report_id = g.report_id
      BY <3>1 DEF Same, Key
    <3> QED
      BY <2>4, <3>2
  <2> QED
    BY <2>5, <2>8, <2>9, <2>10 DEF DeviceStarts
<1> QED
  BY <1>1, Agreement, PTL
=============================================================================
