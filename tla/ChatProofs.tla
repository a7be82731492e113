------------------------------ MODULE ChatProofs ------------------------------
(***************************************************************************)
(* The properties of ChatView for any number of sessions and workspaces,   *)
(* of tool calls, of changes of mode and of clicks.                        *)
(*                                                                         *)
(* The argument: what a session shows is a tail of its transcript, and all *)
(* of it once the history has come, for the filter drops exactly what the  *)
(* history has (MessageShape, HistoryJoins).  So the counts of finished    *)
(* writes never fall while a session stays on screen, and after each       *)
(* render the baseline is these counts (BaselineShape): a write raises one *)
(* of them above it, and only that one (ReturnCounts).  Whenever the       *)
(* newest write that is known changes, so does its count, on which the     *)
(* viewer drops what it fetches (ViewerShape).                             *)
(***************************************************************************)
EXTENDS ChatView, SequenceTheorems, FiniteSetTheorems, NaturalsInduction,
        WellFoundedInduction, TLAPS

(* ------------------------- the inductive invariant ------------------------- *)

DocCall == {ToolName(n) : n \in Doc \cup {"ExitPlanMode"}}

\* In a transcript a call has its place as its id, and a result follows its call.
Transcript(l) ==
  \A i \in DOMAIN l :
    \/ l[i].type = "tool_use" /\ l[i].id = i /\ l[i].name \in DocCall
    \/ i > 1 /\ l[i] = Result(i - 1) /\ l[i - 1].type = "tool_use"

LogShape ==
  /\ log \in [Session -> Seq(Blocks)]
  /\ \A s \in Session :
       /\ Transcript(log[s])
       /\ Len(log[s]) + (IF running[s] = "none" THEN 0 ELSE 1) <= 2 + 2 * calls
       /\ born[s] \in 0..Len(log[s])
       /\ running[s] # "none" => Len(log[s]) > born[s] /\ CallOf(s).type = "tool_use"

\* The messages are the transcript; before the history has come, what of it is new.
FirstBlock(s) == IF asked[s] = "here" THEN 1 ELSE born[s] + 1

MessageShape == msgs = [s \in Session |-> SubSeq(log[s], FirstBlock(s), Len(log[s]))]

\* The calls that have not written yet.
Unwritten == {s \in Session : running[s] = "called"}

RemoteShape ==
  /\ IsFiniteSet(Unwritten)
  /\ remote \in [Workspace -> [Doc -> Nat]]
  /\ \A w \in Workspace, d \in Doc : remote[w][d] + Cardinality(Unwritten) <= 1 + calls

\* The counts a write has to exceed are those of the messages on screen.
BaselineShape == baseline = Keys

PanelShape ==
  /\ slot \in Slots
  /\ slot.kind \in Doc => slot.of = home[view]

\* What the viewer shows and gets of a page is not older than what was written.
FetchOf == [doc : Doc, of : Workspace, at : {"sent", "body", "meta"}, ver : Nat]

ViewerShape ==
  /\ body \in [kind : {"idle", "loading", "ok", "error"}, ver : Nat]
  /\ fetches \subseteq FetchOf
  /\ \A f \in fetches : f.doc = slot.kind
  /\ \A f \in fetches : f.doc \in Page =>
       /\ f.of = home[view] /\ f.at # "meta"
       /\ f.at = "body" => f.ver >= seen[f.doc]
  /\ seen \in [Doc -> Nat]
  /\ \A d \in Doc : seen[d] <= remote[home[view]][d]
  /\ PageIsFresh

StateShape ==
  /\ home \in [Session -> Workspace]
  /\ running \in [Session -> {"none", "called", "written"}]
  /\ mode \subseteq Session /\ ask \subseteq Session
  /\ calls \in 0..MaxCall
  /\ asked \in [Session -> {"no", "asked", "here"}]
  /\ view \in Session

IInv ==
  /\ StateShape /\ LogShape /\ MessageShape /\ RemoteShape
  /\ BaselineShape /\ PanelShape /\ ViewerShape

(* ------------------------- filter() and the history ------------------------- *)

\* A set of numbers that is not empty has a least one.
LEMMA LeastNat ==
  ASSUME NEW S \in SUBSET Nat, S # {}
  PROVE  \E n \in S : \A m \in S : n <= m
<1>1. PICK n \in S : \A m \in S : ~ (<<m, n>> \in OpToRel(<, Nat))
  BY NatLessThanWellFounded, WFMin
<1>2. \A m \in S : ~ (m < n)
  BY <1>1 DEF OpToRel
<1> QED
  BY <1>2

KeptUpTo(s, K, n, f) ==
  f = [m \in 0..n |->
        IF m = 0 THEN <<>>
        ELSE IF s[m] \in K THEN Append(f[m - 1], s[m]) ELSE f[m - 1]]

\* The recursion of filter() has a solution.
LEMMA KeptExists ==
  ASSUME NEW s, NEW K, NEW n \in Nat
  PROVE  \E f : KeptUpTo(s, K, n, f)
<1> DEFINE Bad == {i \in Nat : ~ \E f : KeptUpTo(s, K, i, f)}
<1> SUFFICES ASSUME Bad # {} PROVE FALSE
  OBVIOUS
<1>1. PICK i \in Bad : \A j \in Bad : i <= j
  BY LeastNat
<1>2. CASE i = 0
  <2> DEFINE f == [m \in 0..0 |-> <<>>]
  <2>1. KeptUpTo(s, K, 0, f)
    BY DEF KeptUpTo
  <2> QED
    BY <1>1, <1>2, <2>1
<1>3. CASE i # 0
  <2>1. i - 1 \in Nat /\ i - 1 \notin Bad
    BY <1>1, <1>3
  <2>2. PICK f : KeptUpTo(s, K, i - 1, f)
    BY <2>1
  <2> DEFINE last == IF s[i] \in K THEN Append(f[i - 1], s[i]) ELSE f[i - 1]
             g == [m \in 0..i |-> IF m = i THEN last ELSE f[m]]
  <2>3. KeptUpTo(s, K, i, g)
    <3>1. ASSUME NEW m \in 0..i
          PROVE  g[m] = IF m = 0 THEN <<>>
                        ELSE IF s[m] \in K THEN Append(g[m - 1], s[m]) ELSE g[m - 1]
      <4>1. CASE m = i
        <5>1. g[m] = last /\ i - 1 \in 0..i /\ i - 1 # i /\ g[i - 1] = f[i - 1]
          BY <4>1, <2>1
        <5> QED
          BY <5>1, <4>1, <1>3
      <4>2. CASE m = 0
        <5>1. g[0] = f[0] /\ 0 \in 0..(i - 1)
          BY <4>2, <1>3, <2>1
        <5>2. f[0] = <<>>
          BY <5>1, <2>2 DEF KeptUpTo
        <5> QED
          BY <5>1, <5>2, <4>2
      <4>3. CASE m # i /\ m # 0
        <5>1. m \in 0..(i - 1) /\ m - 1 \in 0..i /\ m - 1 # i
          BY <4>3
        <5>2. g[m] = f[m] /\ g[m - 1] = f[m - 1]
          BY <5>1, <4>3
        <5>3. f[m] = IF m = 0 THEN <<>>
                     ELSE IF s[m] \in K THEN Append(f[m - 1], s[m]) ELSE f[m - 1]
          BY <5>1, <2>2 DEF KeptUpTo
        <5> QED
          BY <5>2, <5>3
      <4> QED
        BY <4>1, <4>2, <4>3
    <3> HIDE DEF last
    <3>2. g = [m \in 0..i |-> g[m]]
      OBVIOUS
    <3> HIDE DEF g
    <3> QED
      BY <3>1, <3>2 DEF KeptUpTo
  <2> QED
    BY <1>1, <2>3
<1> QED
  BY <1>2, <1>3

\* Kept is what its recursion says.
LEMMA KeptIs ==
  ASSUME NEW T, NEW s \in Seq(T), NEW K
  PROVE  \E f : KeptUpTo(s, K, Len(s), f) /\ Kept(s, K) = f[Len(s)]
<1> DEFINE F == CHOOSE f : KeptUpTo(s, K, Len(s), f)
<1>1. KeptUpTo(s, K, Len(s), F)
  BY KeptExists, Len(s) \in Nat, Zenon
<1>2. Kept(s, K) = F[Len(s)]
  BY DEF Kept, KeptUpTo
<1> QED
  BY <1>1, <1>2

\* A filter that takes exactly the elements after the first c returns the rest.
LEMMA KeptTail ==
  ASSUME NEW T, NEW s \in Seq(T), NEW K, NEW c \in 0..Len(s),
         \A i \in 1..Len(s) : s[i] \in K <=> i > c
  PROVE  Kept(s, K) = SubSeq(s, c + 1, Len(s))
<1>1. PICK f : KeptUpTo(s, K, Len(s), f) /\ Kept(s, K) = f[Len(s)]
  BY KeptIs
<1>a. Len(s) \in Nat /\ c \in Nat /\ c <= Len(s) /\ \A m \in 1..Len(s) : s[m] \in T
  OBVIOUS
<1>2. \A m \in 0..Len(s) :
        f[m] = IF m = 0 THEN <<>>
               ELSE IF s[m] \in K THEN Append(f[m - 1], s[m]) ELSE f[m - 1]
  BY <1>1 DEF KeptUpTo
<1> DEFINE Bad == {n \in 0..Len(s) : f[n] # SubSeq(s, c + 1, n)}
<1>3. SUFFICES ASSUME Bad # {} PROVE FALSE
  BY <1>1, <1>a
<1>4. PICK n \in Bad : \A m \in Bad : n <= m
  <2>1. Bad \in SUBSET Nat
    BY <1>a
  <2> QED
    BY LeastNat, <1>3, <2>1, Zenon
<1>5. CASE n = 0
  <2>1. f[0] = <<>>
    BY <1>2, <1>a
  <2>2. SubSeq(s, c + 1, 0) = <<>>
    BY <1>a
  <2> QED
    BY <1>4, <1>5, <2>1, <2>2
<1>6. CASE n # 0
  <2>1. n - 1 \in 0..Len(s) /\ n - 1 \notin Bad /\ n \in 1..Len(s) /\ n \in Nat
    BY <1>4, <1>6, <1>a
  <2>2. f[n - 1] = SubSeq(s, c + 1, n - 1)
    BY <2>1
  <2>3. CASE n > c
    <3>1. f[n] = Append(SubSeq(s, c + 1, n - 1), s[n])
      BY <1>2, <2>1, <2>2, <2>3, <1>6
    <3>2. SubSeq(s, c + 1, n) = Append(SubSeq(s, c + 1, n - 1), s[n])
      BY <2>1, <2>3, <1>a
    <3> QED
      BY <1>4, <3>1, <3>2
  <2>4. CASE ~ (n > c)
    <3>1. f[n] = SubSeq(s, c + 1, n - 1)
      BY <1>2, <2>1, <2>2, <2>4, <1>6
    <3>2. SubSeq(s, c + 1, n - 1) = <<>> /\ SubSeq(s, c + 1, n) = <<>>
      BY <2>1, <2>4, <1>a
    <3> QED
      BY <1>4, <3>1, <3>2
  <2> QED
    BY <2>3, <2>4
<1> QED
  BY <1>5, <1>6

\* What two sequences make one after the other.
LEMMA ConcatLen ==
  ASSUME NEW S, NEW q \in Seq(S), NEW r \in Seq(S)
  PROVE  q \o r \in Seq(S) /\ Len(q \o r) = Len(q) + Len(r)
BY ConcatProperties

\* The history, with the messages after it that it does not have, is the transcript.
LEMMA HistoryJoins ==
  ASSUME NEW T, NEW l \in Seq(T), NEW b \in 0..Len(l), NEW n \in b..Len(l),
         \A i, j \in 1..Len(l) : l[i] = l[j] => i = j
  PROVE  LET past == SubSeq(l, 1, n)
             live == SubSeq(l, b + 1, Len(l))
         IN past \o Kept(live, ToSet(live) \ ToSet(past)) = l
<1> DEFINE past == SubSeq(l, 1, n)
           live == SubSeq(l, b + 1, Len(l))
           K == ToSet(live) \ ToSet(past)
<1>a. PICK L \in Nat : L = Len(l)
  OBVIOUS
<1>b. b \in Nat /\ n \in Nat /\ b <= n /\ n <= L /\ b <= L
  BY <1>a
<1>1. /\ past \in Seq(T) /\ Len(past) = n
      /\ \A i \in 1..n : past[i] = l[i]
  BY <1>a, <1>b
<1>2. /\ live \in Seq(T) /\ Len(live) = L - b
      /\ \A i \in 1..(L - b) : live[i] = l[i + b]
  BY <1>a, <1>b
<1>3. ToSet(past) = {past[i] : i \in 1..n} /\ ToSet(live) = {live[i] : i \in 1..(L - b)}
  <2>1. DOMAIN past = 1..n /\ DOMAIN live = 1..(L - b)
    BY <1>1, <1>2, <1>a, <1>b
  <2> HIDE DEF past, live
  <2> QED
    BY <2>1 DEF ToSet
<1> HIDE DEF past, live
<1>4. n - b \in 0..Len(live)
  BY <1>2, <1>a, <1>b
<1>5. \A i \in 1..(L - b) : live[i] \in K <=> i > n - b
  <2> TAKE i \in 1..(L - b)
  <2>1. i \in Nat /\ i + b \in 1..L /\ live[i] = l[i + b] /\ live[i] \in ToSet(live)
    BY <1>2, <1>3, <1>a, <1>b
  <2>2. CASE i > n - b
    <3>1. \A k \in 1..n : past[k] # live[i]
      <4> TAKE k \in 1..n
      <4>1. k \in 1..L /\ k # i + b
        BY <2>1, <2>2, <1>a, <1>b
      <4>2. l[k] # l[i + b]
        BY <4>1, <2>1, <1>a
      <4> QED
        BY <4>2, <2>1, <1>1
    <3>2. live[i] \notin ToSet(past)
      BY <3>1, <1>3
    <3> QED
      BY <3>2, <2>1, <2>2
  <2>3. CASE ~ (i > n - b)
    <3>1. i + b \in 1..n
      BY <2>1, <2>3, <1>a, <1>b
    <3>2. past[i + b] = live[i]
      BY <3>1, <1>1, <2>1
    <3>3. live[i] \in ToSet(past)
      BY <3>1, <3>2, <1>3
    <3> QED
      BY <3>3, <2>3
  <2> QED
    BY <2>2, <2>3
<1>6. \A i \in 1..Len(live) : live[i] \in K <=> i > n - b
  BY <1>5, <1>2
<1> HIDE DEF K
<1>7. Kept(live, K) = SubSeq(live, n - b + 1, Len(live))
  BY KeptTail, <1>2, <1>4, <1>6, Zenon
<1>8. SubSeq(live, n - b + 1, Len(live)) = SubSeq(l, n + 1, L)
  <2> DEFINE x == SubSeq(live, n - b + 1, Len(live))
             y == SubSeq(l, n + 1, L)
  <2>1. x \in Seq(T) /\ Len(x) = L - n /\ \A i \in 1..(L - n) : x[i] = live[i + (n - b)]
    <3>m. PICK m \in Nat : m = L - b
      BY <1>b
    <3>c. PICK c \in Nat : c = n - b
      BY <1>b
    <3>1. m = L - b /\ c = n - b /\ c <= m /\ m - c = L - n
      BY <3>m, <3>c, <1>b
    <3>2. live \in Seq(T) /\ Len(live) = m
      BY <1>2, <3>m
    <3>3. /\ SubSeq(live, c + 1, m) \in Seq(T) /\ Len(SubSeq(live, c + 1, m)) = m - c
          /\ \A i \in 1..(m - c) : SubSeq(live, c + 1, m)[i] = live[i + c]
      BY <3>1, <3>2
    <3>4. x = SubSeq(live, c + 1, m)
      BY <3>1, <3>2
    <3> HIDE DEF x
    <3> QED
      BY <3>1, <3>3, <3>4
  <2>2. y \in Seq(T) /\ Len(y) = L - n /\ \A i \in 1..(L - n) : y[i] = l[i + n]
    BY <1>a, <1>b
  <2> HIDE DEF x, y
  <2>3. \A i \in 1..(L - n) : x[i] = y[i]
    <3> TAKE i \in 1..(L - n)
    <3>1. i + (n - b) \in 1..(L - b) /\ (i + (n - b)) + b = i + n
      BY <1>a, <1>b
    <3> QED
      BY <3>1, <2>1, <2>2, <1>2
  <2>4. x = y
    <3>1. Len(x) = Len(y) /\ \A i \in 1..Len(x) : x[i] = y[i]
      BY <2>1, <2>2, <2>3, Zenon
    <3> QED
      BY <2>1, <2>2, <3>1, SeqEqual, Zenon
  <2> QED
    BY <2>4 DEF x, y
<1>9. past \o SubSeq(l, n + 1, L) = l
  <2> DEFINE y == SubSeq(l, n + 1, L)
             z == past \o y
  <2>1. y \in Seq(T) /\ Len(y) = L - n /\ \A i \in 1..(L - n) : y[i] = l[i + n]
    BY <1>a, <1>b
  <2>2. n \in Nat /\ L - n \in Nat
    BY <1>a, <1>b
  <2> HIDE DEF y
  <2>3. /\ z \in Seq(T) /\ Len(z) = L
        /\ \A i \in 1..L : z[i] = IF i <= n THEN past[i] ELSE y[i - n]
    <3>1. PICK k \in Nat : k = L - n
      BY <2>2
    <3>2. past \in Seq(T) /\ Len(past) = n /\ y \in Seq(T) /\ Len(y) = k /\ n + k = L
      BY <2>1, <2>2, <3>1, <1>1, <1>a
    <3>a. past \o y \in Seq(T) /\ Len(past \o y) = Len(past) + Len(y)
      BY <3>2, ConcatLen, Zenon
    <3>3. z \in Seq(T) /\ Len(z) = Len(past) + Len(y)
      BY <3>a, Zenon
    <3>4. \A i \in 1..(Len(past) + Len(y)) :
            z[i] = IF i <= Len(past) THEN past[i] ELSE y[i - Len(past)]
      BY <3>2, ConcatProperties
    <3> QED
      BY <3>2, <3>3, <3>4
  <2> HIDE DEF z
  <2>4. \A i \in 1..L : z[i] = l[i]
    <3> TAKE i \in 1..L
    <3>1. CASE i <= n
      BY <3>1, <2>3, <1>1, <2>2, <1>a
    <3>2. CASE ~ (i <= n)
      <4>1. i - n \in 1..(L - n) /\ (i - n) + n = i
        BY <3>2, <2>2, <1>a
      <4> QED
        BY <4>1, <3>2, <2>1, <2>3
    <3> QED
      BY <3>1, <3>2
  <2>5. z = l
    BY <2>3, <2>4, <1>a, SeqEqual
  <2> QED
    BY <2>5 DEF z, y
<1>10. past \o Kept(live, K) = l
  BY <1>7, <1>8, <1>9, <1>a
<1> QED
  BY <1>10 DEF past, live, K

(* ------------------------- counting the finished writes ------------------------- *)

IsCall(ms, j, id, d) ==
  j \in DOMAIN ms /\ ms[j].type = "tool_use" /\ ms[j].id = id /\ ms[j].name.short = d

\* The results of calls of d.
Finished(ms, d) ==
  {i \in DOMAIN ms : ms[i].type = "tool_result" /\ \E j \in DOMAIN ms : IsCall(ms, j, ms[i].id, d)}

\* countToolUses() counts them.
LEMMA CountIs ==
  ASSUME NEW T, NEW ms \in Seq(T), NEW d
  PROVE  /\ countToolUses(ms, {d}) = Cardinality(Finished(ms, d))
         /\ IsFiniteSet(Finished(ms, d))
         /\ countToolUses(ms, {d}) \in 0..Len(ms)
<1>1. countToolUses(ms, {d}) = Cardinality(Finished(ms, d))
  <2>1. Finished(ms, d) =
          {i \in DOMAIN ms :
             /\ ms[i].type = "tool_result"
             /\ \E j \in DOMAIN ms :
                  /\ ms[j].type = "tool_use" /\ ms[j].id = ms[i].id
                  /\ shortToolName(ms[j].name) \in {d}}
    BY DEF Finished, IsCall, shortToolName
  <2> QED
    BY <2>1, Zenon DEF countToolUses
<1>2. PICK n \in Nat : n = Len(ms)
  OBVIOUS
<1>3. IsFiniteSet(1..n) /\ Cardinality(1..n) = n
  <2>1. 1 \in Int /\ n \in Int
    OBVIOUS
  <2>2. IsFiniteSet(1..n) /\ Cardinality(1..n) = IF 1 > n THEN 0 ELSE n - 1 + 1
    BY <2>1, FS_Interval, Zenon
  <2> QED
    BY <2>2
<1>4. Finished(ms, d) \in SUBSET (1..n)
  BY <1>2 DEF Finished
<1>5. IsFiniteSet(Finished(ms, d)) /\ Cardinality(Finished(ms, d)) <= n
  BY <1>3, <1>4, FS_Subset
<1>6. Cardinality(Finished(ms, d)) \in Nat
  BY <1>5, FS_CardinalityType
<1> QED
  BY <1>1, <1>2, <1>5, <1>6

\* A call that comes in takes nothing from the counts.
LEMMA CallCounts ==
  ASSUME NEW T, NEW ms \in Seq(T), NEW b \in T, NEW d
  PROVE  countToolUses(ms, {d}) <= countToolUses(Append(ms, b), {d})
<1> DEFINE ns == Append(ms, b)
<1>1. /\ ns \in Seq(T) /\ DOMAIN ms \subseteq DOMAIN ns
      /\ \A i \in DOMAIN ms : ns[i] = ms[i]
  OBVIOUS
<1> HIDE DEF ns
<1>2. Finished(ms, d) \in SUBSET Finished(ns, d)
  BY <1>1 DEF Finished, IsCall
<1>3. IsFiniteSet(Finished(ns, d))
  BY CountIs, <1>1
<1>4. Cardinality(Finished(ms, d)) <= Cardinality(Finished(ns, d))
  BY <1>2, <1>3, FS_Subset
<1> QED
  BY <1>1, <1>4, CountIs DEF ns

\* A result is counted for the document its call is for, and for no other.
LEMMA ResultCounts ==
  ASSUME NEW T, NEW ms \in Seq(T), NEW id, Result(id) \in T, NEW d
  PROVE  countToolUses(Append(ms, Result(id)), {d})
           = countToolUses(ms, {d}) + (IF \E j \in DOMAIN ms : IsCall(ms, j, id, d) THEN 1 ELSE 0)
<1> DEFINE ns == Append(ms, Result(id))
<1>1. PICK n \in Nat : n = Len(ms) + 1
  OBVIOUS
<1>2. /\ ns \in Seq(T) /\ DOMAIN ns = DOMAIN ms \cup {n} /\ n \notin DOMAIN ms
      /\ \A i \in DOMAIN ms : ns[i] = ms[i]
      /\ ns[n] = Result(id)
  BY <1>1
<1> HIDE DEF ns
<1>3. ns[n].type = "tool_result" /\ ns[n].id = id
  BY <1>2 DEF Result
<1>4. \A x, j : IsCall(ns, j, x, d) <=> IsCall(ms, j, x, d)
  BY <1>2, <1>3 DEF IsCall
<1>5. Finished(ns, d)
        = Finished(ms, d) \cup (IF \E j \in DOMAIN ms : IsCall(ms, j, id, d) THEN {n} ELSE {})
  <2>1. \A i : i \in Finished(ns, d) <=>
                 /\ i \in DOMAIN ns /\ ns[i].type = "tool_result"
                 /\ \E j : IsCall(ms, j, ns[i].id, d)
    BY <1>4, SMTT(20) DEF Finished, IsCall
  <2>2. \A i : i \in Finished(ms, d) <=>
                 /\ i \in DOMAIN ms /\ ms[i].type = "tool_result"
                 /\ \E j : IsCall(ms, j, ms[i].id, d)
    BY DEF Finished, IsCall
  <2>3. (\E j \in DOMAIN ms : IsCall(ms, j, id, d)) <=> (\E j : IsCall(ms, j, id, d))
    BY DEF IsCall
  <2>4. \A i : i \in Finished(ns, d) <=>
                 i \in Finished(ms, d) \/ (i = n /\ \E j : IsCall(ms, j, id, d))
    <3> TAKE i
    <3>1. CASE i = n
      BY <3>1, <2>1, <2>2, <1>2, <1>3
    <3>2. CASE i # n
      <4>1. i \in DOMAIN ns <=> i \in DOMAIN ms
        BY <3>2, <1>2
      <4>2. i \in DOMAIN ms => ns[i] = ms[i]
        BY <1>2
      <4> QED
        BY <4>1, <4>2, <3>2, <2>1, <2>2, Zenon
    <3> QED
      BY <3>1, <3>2
  <2> QED
    BY <2>3, <2>4
<1>6. n \notin Finished(ms, d)
  BY <1>2 DEF Finished
<1>7. IsFiniteSet(Finished(ms, d)) /\ Cardinality(Finished(ms, d)) \in Nat
  BY CountIs, FS_CardinalityType
<1>8. Cardinality(Finished(ms, d) \cup {n}) = Cardinality(Finished(ms, d)) + 1
  BY <1>6, <1>7, FS_AddElement
<1>9. Cardinality(Finished(ns, d))
        = Cardinality(Finished(ms, d)) + (IF \E j \in DOMAIN ms : IsCall(ms, j, id, d) THEN 1 ELSE 0)
  <2>1. CASE \E j \in DOMAIN ms : IsCall(ms, j, id, d)
    BY <2>1, <1>5, <1>8
  <2>2. CASE ~ \E j \in DOMAIN ms : IsCall(ms, j, id, d)
    <3>1. Finished(ns, d) = Finished(ms, d)
      BY <2>2, <1>5
    <3> QED
      BY <3>1, <2>2, <1>7
  <2> QED
    BY <2>1, <2>2
<1>10. countToolUses(ns, {d}) = Cardinality(Finished(ns, d))
  BY <1>2, CountIs
<1>11. countToolUses(ms, {d}) = Cardinality(Finished(ms, d))
  BY CountIs
<1> QED
  BY <1>9, <1>10, <1>11 DEF ns

\* What is before them adds to the counts of the messages.
LEMMA TailCounts ==
  ASSUME NEW T, NEW l \in Seq(T), NEW b \in 0..Len(l), NEW d
  PROVE  countToolUses(SubSeq(l, b + 1, Len(l)), {d}) <= countToolUses(l, {d})
<1> DEFINE ms == SubSeq(l, b + 1, Len(l))
<1>a. PICK L \in Nat : L = Len(l)
  OBVIOUS
<1>1. /\ ms \in Seq(T) /\ DOMAIN ms = 1..(L - b) /\ DOMAIN l = 1..L
      /\ b \in Nat /\ \A i \in 1..(L - b) : ms[i] = l[i + b] /\ i + b \in 1..L
  BY <1>a
<1> HIDE DEF ms
<1> DEFINE f == [i \in Finished(ms, d) |-> i + b]
<1>2. \A i \in Finished(ms, d) : i + b \in Finished(l, d)
  <2> TAKE i \in Finished(ms, d)
  <2>1. i \in DOMAIN ms /\ ms[i].type = "tool_result"
    BY DEF Finished
  <2>2. PICK j \in DOMAIN ms : IsCall(ms, j, ms[i].id, d)
    BY DEF Finished
  <2>3. j + b \in DOMAIN l /\ i + b \in DOMAIN l /\ l[i + b] = ms[i] /\ l[j + b] = ms[j]
    BY <1>1, <2>1, <2>2
  <2>4. IsCall(l, j + b, l[i + b].id, d)
    BY <2>2, <2>3 DEF IsCall
  <2> QED
    BY <2>1, <2>3, <2>4 DEF Finished
<1>3. \A i, j \in Finished(ms, d) : i + b = j + b => i = j
  <2>1. Finished(ms, d) \subseteq Nat
    BY <1>1 DEF Finished
  <2> QED
    BY <2>1, <1>1
<1>4. f \in Injection(Finished(ms, d), Finished(l, d))
  BY <1>2, <1>3 DEF Injection, IsInjective
<1>5. IsFiniteSet(Finished(l, d))
  BY CountIs
<1> HIDE DEF f
<1>6. Cardinality(Finished(ms, d)) <= Cardinality(Finished(l, d))
  BY <1>4, <1>5, FS_Injection
<1>7. countToolUses(ms, {d}) = Cardinality(Finished(ms, d))
  BY <1>1, CountIs
<1>8. countToolUses(l, {d}) = Cardinality(Finished(l, d))
  BY CountIs
<1> QED
  BY <1>6, <1>7, <1>8 DEF ms

(* ------------------------- the panel ------------------------- *)

\* A panel of workspace w.
PanelFits(s, w) == s \in Slots /\ (s.kind \in Doc => s.of = w)

\* What the reducer does, action by action.
LEMMA ReduceIs ==
  ASSUME NEW s, NEW x
  PROVE  /\ reduceDocSlot(s, Act("workspace_changed", x)) = Hidden
         /\ reduceDocSlot(s, Act("plan_mode_entered", x)) = PlanSlot("plan_mode")
         /\ reduceDocSlot(s, Act("plan_mode_exited", x)) = IF Forced(s) THEN Hidden ELSE s
         /\ reduceDocSlot(s, Act("tool_use_doc_write", x)) = IF Forced(s) THEN s ELSE x
         /\ reduceDocSlot(s, Act("user_toggle", x)) =
              IF Forced(s) /\ x.kind # "plan" THEN s ELSE IF isSameSlot(s, x) THEN Hidden ELSE x
         /\ reduceDocSlot(s, Act("hide", x)) = IF Forced(s) THEN s ELSE Hidden
<1>a. \A k : Act(k, x).type = k /\ Act(k, x).of = x
  BY DEF Act
<1>1. reduceDocSlot(s, Act("workspace_changed", x)) = Hidden
  BY <1>a, SMT DEF reduceDocSlot, WorkspaceChanged
<1>2. reduceDocSlot(s, Act("plan_mode_entered", x)) = PlanSlot("plan_mode")
  BY <1>a, SMT DEF reduceDocSlot
<1>b. /\ reduceDocSlot(s, Act("plan_mode_exited", x)) = PlanModeExited(s)
      /\ reduceDocSlot(s, Act("tool_use_doc_write", x)) = DocWrite(s, x)
      /\ reduceDocSlot(s, Act("user_toggle", x)) = UserToggle(s, x)
      /\ reduceDocSlot(s, Act("hide", x)) = HideUnlessForced(s)
  BY <1>a, SMT DEF reduceDocSlot
<1>3. reduceDocSlot(s, Act("plan_mode_exited", x)) = IF Forced(s) THEN Hidden ELSE s
  BY <1>b, Zenon DEF PlanModeExited
<1>4. reduceDocSlot(s, Act("tool_use_doc_write", x)) = IF Forced(s) THEN s ELSE x
  BY <1>b, Zenon DEF DocWrite
<1>5. reduceDocSlot(s, Act("user_toggle", x)) =
        IF Forced(s) /\ x.kind # "plan" THEN s ELSE IF isSameSlot(s, x) THEN Hidden ELSE x
  BY <1>b, Zenon DEF UserToggle
<1>6. reduceDocSlot(s, Act("hide", x)) = IF Forced(s) THEN s ELSE Hidden
  BY <1>b, Zenon DEF HideUnlessForced
<1> QED
  BY <1>1, <1>2, <1>3, <1>4, <1>5, <1>6, Zenon

\* Panels that belong to workspace w.
LEMMA PanelsFit ==
  ASSUME NEW w \in Workspace
  PROVE  /\ PanelFits(Hidden, w)
         /\ PanelFits(PlanSlot("plan_mode"), w) /\ PanelFits(PlanSlot("manual"), w)
         /\ \A d \in Doc : PanelFits(DocSlot(d, w), w)
<1>1. "hidden" \notin Doc /\ "plan" \notin Doc
  BY ChatBoundsAssumption
<1>2. \A d \in Doc : DocSlot(d, w) \in Slots
  BY DEF Slots
<1>3. {Hidden, PlanSlot("plan_mode"), PlanSlot("manual")} \subseteq Slots
  BY DEF Slots
<1> QED
  BY <1>1, <1>2, <1>3 DEF PanelFits, Hidden, PlanSlot, DocSlot, Slot

\* A document that is not forced out of it takes the panel.
Opened(s, d, w) == IF Forced(s) THEN s ELSE DocSlot(d, w)

\* The panel after the writes of the documents D.
Written(s, D, w) ==
  LET Write(t, d) == IF d \in D THEN Opened(t, d, w) ELSE t
  IN Write(Write(Write(s, "ticket"), "rfc"), "debrief")

\* The writes leave a panel of the workspace.
LEMMA WrittenFits ==
  ASSUME NEW w \in Workspace, NEW D \in SUBSET Doc, NEW s, PanelFits(s, w)
  PROVE  PanelFits(Written(s, D, w), w)
<1> DEFINE Write(t, d) == IF d \in D THEN Opened(t, d, w) ELSE t
<1>1. \A t, d : PanelFits(t, w) => PanelFits(Write(t, d), w)
  BY PanelsFit DEF Opened
<1> HIDE DEF Write
<1>2. PanelFits(Write(s, "ticket"), w)
  BY <1>1
<1>3. PanelFits(Write(Write(s, "ticket"), "rfc"), w)
  BY <1>1, <1>2
<1>4. PanelFits(Write(Write(Write(s, "ticket"), "rfc"), "debrief"), w)
  BY <1>1, <1>3
<1> QED
  BY <1>4 DEF Write, Written

\* One write opens its document unless the plan is forced.
LEMMA OneWritten ==
  ASSUME NEW w \in Workspace, NEW d \in Doc, NEW s, ~Forced(s)
  PROVE  Written(s, {d}, w) = DocSlot(d, w)
<1>1. d = "ticket" \/ d = "rfc" \/ d = "debrief"
  BY ChatBoundsAssumption
<1> QED
  BY <1>1 DEF Written, Opened

\* The documents whose count has risen above the baseline.
Bumped ==
  IF home[view'] # home[view] \/ Keys' # Keys THEN {d \in Doc : Keys'[d] > Baseline[d]} ELSE {}

\* The panel before the writes are looked at.
BeforeWrites(from) ==
  LET moved == IF home[view'] # home[view] THEN Hidden ELSE from
  IN IF planActive' = planActive THEN moved
     ELSE IF planActive' THEN PlanSlot("plan_mode")
     ELSE IF Forced(moved) THEN Hidden ELSE moved

\* What the effects of a render come to.
LEMMA EffectsAre ==
  ASSUME NEW from, NEW again, Effects(from, again)
  PROVE  /\ slot' = Written(BeforeWrites(from), Bumped, home[view'])
         /\ baseline' = [d \in Doc |-> IF d \in Bumped THEN Keys'[d] ELSE Baseline[d]]
         /\ Viewer(again)
<1> DEFINE w == home[view']
           moved == w # home[view]
           afterMove == IF moved THEN reduceDocSlot(from, Act("workspace_changed", Hidden)) ELSE from
           afterPlan == IF planActive' = planActive THEN afterMove
                        ELSE reduceDocSlot(afterMove,
                          Act(IF planActive' THEN "plan_mode_entered" ELSE "plan_mode_exited", Hidden))
           Write(s, d) == IF d \in Bumped
                     THEN reduceDocSlot(s, Act("tool_use_doc_write", DocSlot(d, w))) ELSE s
<1>1. /\ slot' = Write(Write(Write(afterPlan, "ticket"), "rfc"), "debrief")
      /\ baseline' = [d \in Doc |-> IF d \in Bumped THEN Keys'[d] ELSE Baseline[d]]
      /\ Viewer(again)
  BY Zenon DEF Effects, Bumped
<1>2. afterMove = IF moved THEN Hidden ELSE from
  BY ReduceIs
<1>3. afterPlan = BeforeWrites(from)
  <2>1. CASE planActive' = planActive
    BY <2>1, <1>2 DEF BeforeWrites
  <2>2. CASE planActive' # planActive /\ planActive'
    <3>1. afterPlan = reduceDocSlot(afterMove, Act("plan_mode_entered", Hidden))
      BY <2>2
    <3>2. BeforeWrites(from) = PlanSlot("plan_mode")
      BY <2>2 DEF BeforeWrites
    <3> QED
      BY <3>1, <3>2, ReduceIs
  <2>3. CASE planActive' # planActive /\ ~planActive'
    <3>1. afterPlan = reduceDocSlot(afterMove, Act("plan_mode_exited", Hidden))
      BY <2>3
    <3>2. afterPlan = IF Forced(afterMove) THEN Hidden ELSE afterMove
      BY <3>1, ReduceIs
    <3> QED
      BY <3>2, <2>3, <1>2 DEF BeforeWrites
  <2> QED
    BY <2>1, <2>2, <2>3
<1>4. \A s, d : Write(s, d) = IF d \in Bumped THEN Opened(s, d, w) ELSE s
  BY ReduceIs DEF Opened
<1>5. Written(afterPlan, Bumped, w) = Write(Write(Write(afterPlan, "ticket"), "rfc"), "debrief")
  BY <1>4 DEF Written
<1> QED
  BY <1>1, <1>3, <1>5

\* A render from a panel of the workspace leaves one of the workspace then on screen.
LEMMA EffectsPanel ==
  ASSUME NEW from, NEW again, Effects(from, again),
         home[view] \in Workspace, home[view'] \in Workspace, PanelFits(from, home[view])
  PROVE  PanelFits(slot', home[view'])
<1> DEFINE w == home[view']
<1>1. PanelFits(IF w # home[view] THEN Hidden ELSE from, w)
  BY PanelsFit
<1>2. PanelFits(BeforeWrites(from), w)
  BY <1>1, PanelsFit DEF BeforeWrites
<1>3. Bumped \in SUBSET Doc
  BY DEF Bumped
<1>4. PanelFits(Written(BeforeWrites(from), Bumped, w), w)
  BY <1>2, <1>3, WrittenFits
<1> QED
  BY <1>4, EffectsAre

\* A render leaves the counts of the messages on screen as the baseline.
LEMMA EffectsBaseline ==
  ASSUME NEW from, NEW again, Effects(from, again),
         baseline = Keys, home' = home,
         \A d \in Doc : Keys[d] \in Nat /\ Keys'[d] \in Nat,
         view' = view => \A d \in Doc : Keys[d] <= Keys'[d]
  PROVE  baseline' = Keys'
<1>1. baseline' = [d \in Doc |-> IF d \in Bumped THEN Keys'[d] ELSE Baseline[d]]
  BY EffectsAre
<1>2. Keys' = [d \in Doc |-> Keys'[d]]
  BY DEF Keys
<1>3. \A d \in Doc : (IF d \in Bumped THEN Keys'[d] ELSE Baseline[d]) = Keys'[d]
  <2>1. CASE view' # view
    <3>1. Baseline = Keys'
      BY <2>1 DEF Baseline
    <3> QED
      BY <3>1
  <2>2. CASE view' = view
    <3>1. Baseline = Keys
      BY <2>2 DEF Baseline
    <3>2. CASE Keys' = Keys
      BY <3>1, <3>2
    <3>3. CASE Keys' # Keys
      <4>1. \A d \in Doc : d \in Bumped <=> Keys'[d] > Keys[d]
        BY <3>1, <3>3 DEF Bumped
      <4> TAKE d \in Doc
      <4>2. Keys[d] <= Keys'[d] /\ Keys[d] \in Nat /\ Keys'[d] \in Nat
        BY <2>2
      <4> QED
        BY <4>1, <4>2, <3>1
    <3> QED
      BY <3>2, <3>3
  <2> QED
    BY <2>1, <2>2
<1> QED
  BY <1>1, <1>2, <1>3

(* ------------------------- the viewer ------------------------- *)

\* What is being fetched for a viewer of kind k of workspace w, when the newest
\* versions that are known are those of sn.
FetchesFit(fs, k, w, sn) ==
  /\ fs \subseteq FetchOf
  /\ \A f \in fs : f.doc = k
  /\ \A f \in fs : f.doc \in Page =>
       /\ f.of = w /\ f.at # "meta"
       /\ f.at = "body" => f.ver >= sn[f.doc]

BodyOf == [kind : {"idle", "loading", "ok", "error"}, ver : Nat]

\* A page is shown as it is after the writes that are known.
BodyFits(b, k, sn) == k \in Page /\ b.kind = "ok" => b.ver >= sn[k]

\* The shape of the viewer, in these terms.
LEMMA ViewerShapeIs ==
  ViewerShape <=>
    /\ body \in BodyOf /\ BodyFits(body, slot.kind, seen)
    /\ FetchesFit(fetches, slot.kind, home[view], seen)
    /\ seen \in [Doc -> Nat] /\ \A d \in Doc : seen[d] <= remote[home[view]][d]
BY DEF ViewerShape, BodyOf, BodyFits, FetchesFit, PageIsFresh

\* And of the next one.
LEMMA ViewerShapeNext ==
  ASSUME home' = home
  PROVE
  ViewerShape' <=>
    /\ body' \in BodyOf /\ BodyFits(body', slot'.kind, seen')
    /\ FetchesFit(fetches', slot'.kind, home[view'], seen')
    /\ seen' \in [Doc -> Nat] /\ \A d \in Doc : seen'[d] <= remote'[home[view']][d]
<1> DEFINE Fits == /\ \A f \in fetches' : f.doc = slot'.kind
                   /\ \A f \in fetches' : f.doc \in Page =>
                        /\ f.of = home[view'] /\ f.at # "meta"
                        /\ f.at = "body" => f.ver >= seen'[f.doc]
<1>1. ViewerShape' <=>
        /\ body' \in BodyOf /\ (slot'.kind \in Page /\ body'.kind = "ok" => body'.ver >= seen'[slot'.kind])
        /\ fetches' \subseteq FetchOf /\ Fits
        /\ seen' \in [Doc -> Nat] /\ \A d \in Doc : seen'[d] <= remote'[home[view']][d]
  BY DEF ViewerShape, BodyOf, PageIsFresh
<1> QED
  BY <1>1 DEF BodyFits, FetchesFit

\* A render keeps what is shown, and what is fetched, only while nothing was written
\* that is newer.
LEMMA ViewerFresh ==
  ASSUME NEW again, Viewer(again), ViewerShape, home' = home,
         home[view'] \in Workspace,
         seen' \in [Doc -> Nat], \A d \in Doc : seen'[d] <= remote'[home[view']][d],
         \A d \in Page : seen'[d] <= seen[d] \/ Keys'[d] # Keys[d]
  PROVE  ViewerShape'
<1> DEFINE d == slot'.kind
           w == home[view']
           kept == slot.kind = d
           wanted == d = "ticket" \/ <<d, w>> \in known'
           change == \/ ~kept \/ again
                     \/ Keys'[d] # Keys[d]
                     \/ slot'.of # slot.of
                     \/ ((<<d, w>> \in known') # (<<d, home[view]>> \in known))
                     \/ d # "ticket" /\ w # home[view]
<1>1. IF d \notin Doc THEN body' = Body("idle", 0) /\ fetches' = {}
      ELSE IF ~change THEN UNCHANGED <<body, fetches>>
      ELSE /\ body' = Body(IF wanted THEN "loading" ELSE "idle", 0)
           /\ fetches' = (IF kept THEN Aborted ELSE {})
                           \cup (IF wanted THEN {Fetch(d, w)} ELSE {})
  BY Zenon DEF Viewer
<1>2. /\ body \in BodyOf /\ BodyFits(body, slot.kind, seen)
      /\ FetchesFit(fetches, slot.kind, home[view], seen)
      /\ seen \in [Doc -> Nat]
  BY ViewerShapeIs
<1>3. Page \subseteq Doc /\ "ticket" \notin Page
  BY DEF Page
<1>4. \A k \in {"idle", "loading"} : Body(k, 0) \in BodyOf /\ Body(k, 0).kind # "ok"
  BY DEF Body, BodyOf
<1>5. body' \in BodyOf /\ BodyFits(body', d, seen') /\ FetchesFit(fetches', d, w, seen')
  <2>1. CASE d \notin Doc
    BY <2>1, <1>1, <1>3, <1>4 DEF BodyFits, FetchesFit
  <2>2. CASE d \in Doc /\ ~change
    <3>1. body' = body /\ fetches' = fetches
      BY <2>2, <1>1
    <3>2. slot.kind = d /\ Keys'[d] = Keys[d] /\ (d # "ticket" => w = home[view])
      BY <2>2
    <3>3. d \in Page => seen'[d] <= seen[d] /\ seen'[d] \in Nat /\ seen[d] \in Nat /\ w = home[view]
      BY <3>2, <1>2, <1>3, <2>2
    <3>4. BodyFits(body, d, seen')
      <4>1. body.ver \in Nat
        BY <1>2 DEF BodyOf
      <4> QED
        BY <4>1, <3>2, <3>3, <1>2 DEF BodyFits
    <3>5. FetchesFit(fetches, d, w, seen')
      <4>1. \A f \in fetches : f.ver \in Nat
        BY <1>2 DEF FetchesFit, FetchOf
      <4>2. fetches \subseteq FetchOf /\ \A f \in fetches : f.doc = d
        BY <1>2, <3>2 DEF FetchesFit
      <4>3. ASSUME NEW f \in fetches, f.doc \in Page
            PROVE  /\ f.of = w /\ f.at # "meta"
                   /\ f.at = "body" => f.ver >= seen'[f.doc]
        <5>1. f.of = home[view] /\ f.at # "meta" /\ (f.at = "body" => f.ver >= seen[f.doc])
          BY <4>3, <1>2 DEF FetchesFit
        <5>2. f.doc = d
          BY <4>2, <4>3
        <5> QED
          BY <5>1, <5>2, <4>1, <4>3, <3>3
      <4> QED
        BY <4>2, <4>3 DEF FetchesFit
    <3> QED
      BY <3>1, <3>4, <3>5, <1>2
  <2>3. CASE d \in Doc /\ change
    <3>1. /\ body' = Body(IF wanted THEN "loading" ELSE "idle", 0)
          /\ fetches' = (IF kept THEN Aborted ELSE {})
                          \cup (IF wanted THEN {Fetch(d, w)} ELSE {})
      BY <2>3, <1>1
    <3>2. body' \in BodyOf /\ body'.kind # "ok"
      BY <3>1, <1>4
    <3>3. /\ Fetch(d, w) \in FetchOf /\ Fetch(d, w).doc = d
          /\ Fetch(d, w).of = w /\ Fetch(d, w).at = "sent"
      BY <2>3 DEF Fetch, FetchOf
    <3>4. kept => \A f \in Aborted : f \in FetchOf /\ f.doc = d /\ f.doc \notin Page
      BY <1>2 DEF Aborted, FetchesFit
    <3>5. \A f \in fetches' : \/ f = Fetch(d, w)
                              \/ f \in FetchOf /\ f.doc = d /\ f.doc \notin Page
      BY <3>1, <3>4
    <3> HIDE DEF d, w
    <3>6. FetchesFit(fetches', d, w, seen')
      BY <3>3, <3>5 DEF FetchesFit
    <3> QED
      BY <3>2, <3>6 DEF BodyFits
  <2> HIDE DEF d, change
  <2> QED
    BY <2>1, <2>2, <2>3
<1> QED
  BY <1>5, ViewerShapeNext

\* The answer to a fetch of a page is not older than what was written before.
LEMMA ServeFresh ==
  ASSUME NEW f \in fetches, Serve(f), StateShape, RemoteShape, ViewerShape
  PROVE  ViewerShape'
<1>1. /\ body \in BodyOf /\ BodyFits(body, slot.kind, seen)
      /\ FetchesFit(fetches, slot.kind, home[view], seen)
      /\ seen \in [Doc -> Nat] /\ \A d \in Doc : seen[d] <= remote[home[view]][d]
  BY ViewerShapeIs
<1> DEFINE g == [f EXCEPT !.at = IF f.doc = "ticket" THEN "meta" ELSE "body",
                          !.ver = remote[f.of][f.doc]]
<1>2. /\ f.at = "sent" /\ fetches' = (fetches \ {f}) \cup {g}
      /\ UNCHANGED <<body, slot, seen, home, view, remote>>
  BY DEF Serve, remoteVars
<1>3. f \in FetchOf /\ f.doc = slot.kind /\ (f.doc \in Page => f.of = home[view])
  BY <1>1 DEF FetchesFit
<1>4. remote[f.of][f.doc] \in Nat
  BY <1>3 DEF RemoteShape, FetchOf
<1>5. /\ g \in FetchOf /\ g.doc = f.doc /\ g.of = f.of /\ g.ver = remote[f.of][f.doc]
      /\ g.at = IF f.doc = "ticket" THEN "meta" ELSE "body"
  BY <1>3, <1>4 DEF FetchOf
<1> HIDE DEF g
<1>6. g.doc \in Page => g.of = home[view] /\ g.at # "meta" /\ g.ver >= seen[g.doc]
  <2> HAVE g.doc \in Page
  <2>1. g.doc \in Doc /\ g.doc # "ticket"
    BY DEF Page
  <2>2. seen[g.doc] \in Nat /\ seen[g.doc] <= remote[home[view]][g.doc]
    BY <2>1, <1>1
  <2> QED
    BY <2>1, <2>2, <1>3, <1>4, <1>5
<1>7. FetchesFit(fetches', slot.kind, home[view], seen)
  BY <1>1, <1>2, <1>3, <1>5, <1>6 DEF FetchesFit
<1> QED
  BY <1>1, <1>2, <1>7, ViewerShapeNext

\* What an answer brings is shown.
LEMMA AnsweredFresh ==
  ASSUME NEW f \in fetches, Answered(f) \/ Failed(f), ViewerShape
  PROVE  ViewerShape'
<1>1. /\ body \in BodyOf /\ BodyFits(body, slot.kind, seen)
      /\ FetchesFit(fetches, slot.kind, home[view], seen)
      /\ seen \in [Doc -> Nat] /\ \A d \in Doc : seen[d] <= remote[home[view]][d]
  BY ViewerShapeIs
<1>2. /\ fetches' \subseteq fetches
      /\ (f.at # "sent" /\ body' = Body("ok", f.ver)) \/ body' = Body("error", 0)
      /\ UNCHANGED <<slot, seen, home, view, remote>>
  BY DEF Answered, Failed, remoteVars
<1>3. f \in FetchOf /\ f.doc = slot.kind
      /\ (f.doc \in Page => f.at # "meta" /\ (f.at = "body" => f.ver >= seen[f.doc]))
  BY <1>1 DEF FetchesFit
<1>4. f.at \in {"sent", "body", "meta"} /\ f.ver \in Nat
  BY <1>3 DEF FetchOf
<1>5. body' \in BodyOf /\ BodyFits(body', slot.kind, seen)
  BY <1>2, <1>3, <1>4 DEF BodyOf, BodyFits, Body
<1>6. FetchesFit(fetches', slot.kind, home[view], seen)
  BY <1>1, <1>2 DEF FetchesFit
<1> QED
  BY <1>1, <1>2, <1>5, <1>6, ViewerShapeNext

(* ------------------------- transcripts and messages ------------------------- *)

\* No block is twice in a transcript.
LEMMA BlocksDistinct ==
  ASSUME NEW T, NEW l \in Seq(T), Transcript(l)
  PROVE  \A i, j \in 1..Len(l) : l[i] = l[j] => i = j
<1> TAKE i, j \in 1..Len(l)
<1> HAVE l[i] = l[j]
<1>1. \A k : Result(k).type = "tool_result" /\ Result(k).id = k
  BY DEF Result
<1>2. \A k \in 1..Len(l) : \/ l[k].type = "tool_use" /\ l[k].id = k
                           \/ l[k].type = "tool_result" /\ l[k].id = k - 1
  BY <1>1 DEF Transcript
<1> QED
  BY <1>2

\* A transcript goes on with a call, or with the result of the call it ends with.
LEMMA TranscriptGrows ==
  ASSUME NEW T, NEW l \in Seq(T), Transcript(l), NEW b \in T,
         \/ b.type = "tool_use" /\ b.id = Len(l) + 1 /\ b.name \in DocCall
         \/ Len(l) > 0 /\ b = Result(Len(l)) /\ l[Len(l)].type = "tool_use"
  PROVE  Transcript(Append(l, b))
<1> DEFINE m == Append(l, b)
<1>1. PICK n \in Nat : n = Len(l)
  OBVIOUS
<1>2. /\ DOMAIN m = 1..(n + 1) /\ DOMAIN l = 1..n
      /\ m[n + 1] = b /\ \A i \in 1..n : m[i] = l[i]
  BY <1>1
<1> HIDE DEF m
<1>3. ASSUME NEW i \in 1..(n + 1)
      PROVE  \/ m[i].type = "tool_use" /\ m[i].id = i /\ m[i].name \in DocCall
             \/ i > 1 /\ m[i] = Result(i - 1) /\ m[i - 1].type = "tool_use"
  <2>1. CASE i = n + 1
    <3>1. m[i] = b /\ i - 1 = n /\ i \in Int
      BY <2>1, <1>2, <1>1
    <3>2. CASE b.type = "tool_use" /\ b.id = Len(l) + 1 /\ b.name \in DocCall
      BY <3>1, <3>2, <2>1, <1>1
    <3>3. CASE Len(l) > 0 /\ b = Result(Len(l)) /\ l[Len(l)].type = "tool_use"
      <4>1. m[n] = l[n] /\ n > 0
        BY <3>3, <1>1, <1>2
      <4> QED
        BY <4>1, <3>1, <3>3, <2>1, <1>1
    <3> QED
      BY <3>2, <3>3
  <2>2. CASE i # n + 1
    <3>1. i \in 1..n /\ m[i] = l[i]
      BY <2>2, <1>1, <1>2
    <3>2. CASE l[i].type = "tool_use" /\ l[i].id = i /\ l[i].name \in DocCall
      BY <3>1, <3>2
    <3>3. CASE i > 1 /\ l[i] = Result(i - 1) /\ l[i - 1].type = "tool_use"
      <4>1. m[i - 1] = l[i - 1]
        BY <3>1, <3>3, <1>2
      <4> QED
        BY <4>1, <3>1, <3>3
    <3> QED
      BY <3>1, <3>2, <3>3, <1>2 DEF Transcript
  <2> QED
    BY <2>1, <2>2
<1> QED
  BY <1>3, <1>2 DEF Transcript, m

\* What a session shows is a tail of its transcript.
LEMMA MessagesAre ==
  ASSUME StateShape, LogShape, MessageShape, NEW s \in Session
  PROVE  /\ log[s] \in Seq(Blocks) /\ msgs[s] = SubSeq(log[s], FirstBlock(s), Len(log[s]))
         /\ FirstBlock(s) \in 1..(Len(log[s]) + 1) /\ msgs[s] \in Seq(Blocks)
         /\ Len(msgs[s]) <= Len(log[s])
<1>1. log[s] \in Seq(Blocks) /\ born[s] \in 0..Len(log[s])
  BY DEF LogShape
<1>2. msgs[s] = SubSeq(log[s], FirstBlock(s), Len(log[s]))
  BY DEF MessageShape
<1> PICK l \in Seq(Blocks) : l = log[s]
  BY <1>1
<1> PICK k : k = FirstBlock(s)
  OBVIOUS
<1>3. k \in 1..(Len(l) + 1)
  BY <1>1 DEF FirstBlock
<1>4. SubSeq(l, k, Len(l)) \in Seq(Blocks) /\ Len(SubSeq(l, k, Len(l))) <= Len(l)
  BY <1>3
<1> QED
  BY <1>1, <1>2, <1>3, <1>4

\* A tail of a sequence grows as the sequence does.
LEMMA TailGrows ==
  ASSUME NEW T, NEW l \in Seq(T), NEW b \in T, NEW k \in 1..(Len(l) + 1)
  PROVE  SubSeq(Append(l, b), k, Len(l) + 1) = Append(SubSeq(l, k, Len(l)), b)
<1> PICK n \in Nat : n = Len(l)
  OBVIOUS
<1> DEFINE m == Append(l, b)
           x == SubSeq(m, k, n + 1)
           t == SubSeq(l, k, n)
           y == Append(t, b)
<1>0. k \in Nat /\ 1 <= k /\ k <= n + 1
  OBVIOUS
<1>1. m \in Seq(T) /\ Len(m) = n + 1 /\ m[n + 1] = b /\ \A i \in 1..n : m[i] = l[i]
  OBVIOUS
<1> HIDE DEF m
<1>2. x \in Seq(T) /\ Len(x) = n + 2 - k /\ \A i \in 1..(n + 2 - k) : x[i] = m[i + k - 1]
  BY <1>0, <1>1
<1>3. t \in Seq(T) /\ Len(t) = n + 1 - k /\ \A i \in 1..(n + 1 - k) : t[i] = l[i + k - 1]
  BY <1>0
<1> HIDE DEF t
<1>4. /\ y \in Seq(T) /\ Len(y) = n + 2 - k /\ y[n + 2 - k] = b
      /\ \A i \in 1..(n + 1 - k) : y[i] = t[i]
  <2>1. PICK c \in Nat : c = Len(t)
    BY <1>0, <1>3, SMTT(20)
  <2>2. y \in Seq(T) /\ Len(y) = c + 1 /\ y[c + 1] = b /\ \A i \in 1..c : y[i] = t[i]
    BY <1>3, <2>1
  <2>3. c = n + 1 - k /\ c + 1 = n + 2 - k
    BY <1>0, <1>3, <2>1
  <2> HIDE DEF y
  <2> QED
    BY <2>2, <2>3
<1> HIDE DEF x, y
<1>5. \A i \in 1..(n + 2 - k) : x[i] = y[i]
  <2> TAKE i \in 1..(n + 2 - k)
  <2>1. CASE i = n + 2 - k
    <3>1. i + k - 1 = n + 1
      BY <2>1, <1>0
    <3> QED
      BY <3>1, <2>1, <1>1, <1>2, <1>4
  <2>2. CASE i # n + 2 - k
    <3>1. i \in 1..(n + 1 - k) /\ i + k - 1 \in 1..n
      BY <2>2, <1>0
    <3> QED
      BY <3>1, <1>1, <1>2, <1>3, <1>4
  <2> QED
    BY <2>1, <2>2
<1>6. x = y
  BY <1>0, <1>2, <1>4, <1>5, SeqEqual
<1> QED
  BY <1>6 DEF x, y, t, m

\* A block goes to the end of the transcript and of the messages.
LEMMA BlockArrives ==
  ASSUME StateShape, LogShape, MessageShape, NEW s \in Session, NEW b \in Blocks, Block(s, b),
         asked' = asked, born' = born
  PROVE  /\ log' \in [Session -> Seq(Blocks)] /\ MessageShape'
         /\ log'[s] = Append(log[s], b) /\ msgs'[s] = Append(msgs[s], b)
         /\ \A t \in Session : t # s => log'[t] = log[t] /\ msgs'[t] = msgs[t]
<1>1. /\ log' = [log EXCEPT ![s] = Append(@, b)]
      /\ msgs' = [msgs EXCEPT ![s] = Append(@, b)]
  BY DEF Block
<1>2. log \in [Session -> Seq(Blocks)]
  BY DEF LogShape
<1>3. DOMAIN msgs = Session
  BY DEF MessageShape
<1>4. log'[s] = Append(log[s], b) /\ msgs'[s] = Append(msgs[s], b)
  BY <1>1, <1>2, <1>3
<1>5. \A t \in Session : t # s => log'[t] = log[t] /\ msgs'[t] = msgs[t]
  BY <1>1, <1>2, <1>3
<1>6. log' \in [Session -> Seq(Blocks)]
  <2>1. Append(log[s], b) \in Seq(Blocks)
    BY <1>2
  <2> PICK S : S = Seq(Blocks)
    OBVIOUS
  <2> QED
    BY <1>1, <1>2, <2>1
<1>7. \A t \in Session :
        FirstBlock(t)' = FirstBlock(t)
        /\ msgs'[t] = SubSeq(log'[t], FirstBlock(t), Len(log'[t]))
  <2> TAKE t \in Session
  <2>0. FirstBlock(t)' = FirstBlock(t)
    BY DEF FirstBlock
  <2>1. CASE t # s
    BY <2>0, <2>1, <1>5, MessagesAre
  <2>2. CASE t = s
    <3> PICK l, k : l = log[s] /\ k = FirstBlock(s)
      OBVIOUS
    <3>1. l \in Seq(Blocks) /\ k \in 1..(Len(l) + 1) /\ msgs[s] = SubSeq(l, k, Len(l))
      BY MessagesAre
    <3>2. PICK n \in Nat : n = Len(l)
      BY <3>1
    <3>3. SubSeq(Append(l, b), k, n + 1) = Append(SubSeq(l, k, n), b)
      BY <3>1, <3>2, TailGrows
    <3>4. Len(Append(l, b)) = n + 1
      BY <3>1, <3>2
    <3> QED
      BY <2>0, <2>2, <3>1, <3>2, <3>3, <3>4, <1>4
  <2> QED
    BY <2>1, <2>2
<1>8. msgs' = [t \in Session |-> msgs'[t]]
  BY <1>1, <1>3
<1>9. msgs' = [t \in Session |-> SubSeq(log'[t], FirstBlock(t)', Len(log'[t]))]
  BY <1>7, <1>8
<1>10. MessageShape'
  BY <1>9 DEF MessageShape
<1> QED
  BY <1>4, <1>5, <1>6, <1>10

(* ------------------------- a render ------------------------- *)

\* The counts of the messages on screen are numbers.
LEMMA KeysAre ==
  ASSUME StateShape, LogShape, MessageShape
  PROVE  /\ Keys \in [Doc -> Nat]
         /\ \A d \in Doc : Keys[d] = countToolUses(msgs[view], {d}) /\ Keys[d] <= Len(log[view])
<1>1. view \in Session
  BY DEF StateShape
<1>2. msgs[view] \in Seq(Blocks) /\ Len(msgs[view]) <= Len(log[view]) /\ log[view] \in Seq(Blocks)
  BY <1>1, MessagesAre
<1>3. \A d \in Doc : countToolUses(msgs[view], {d}) \in 0..Len(msgs[view])
  BY <1>2, CountIs
<1>4. Len(msgs[view]) \in Nat /\ Len(log[view]) \in Nat
  BY <1>2
<1> QED
  BY <1>2, <1>3, <1>4 DEF Keys

\* And those after a step.
LEMMA KeysNext ==
  ASSUME StateShape', LogShape', MessageShape'
  PROVE  /\ Keys' \in [Doc -> Nat]
         /\ \A d \in Doc : Keys'[d] = countToolUses(msgs'[view'], {d})
<1>1. view' \in Session
  BY DEF StateShape
<1>2. log'[view'] \in Seq(Blocks) /\ born'[view'] \in 0..Len(log'[view'])
  BY <1>1 DEF LogShape
<1>3. \E k \in 1..(Len(log'[view']) + 1) :
        msgs'[view'] = SubSeq(log'[view'], k, Len(log'[view']))
  <2>1. msgs'[view'] = SubSeq(log'[view'], FirstBlock(view)', Len(log'[view']))
    BY <1>1 DEF MessageShape, FirstBlock
  <2> PICK l \in Seq(Blocks) : l = log'[view']
    BY <1>2
  <2>2. FirstBlock(view)' \in 1..(Len(l) + 1)
    BY <1>2 DEF FirstBlock
  <2> QED
    BY <2>1, <2>2
<1>4. msgs'[view'] \in Seq(Blocks)
  <2> PICK l \in Seq(Blocks) : l = log'[view']
    BY <1>2
  <2> PICK k \in 1..(Len(l) + 1) : msgs'[view'] = SubSeq(l, k, Len(l))
    BY <1>3
  <2> QED
    OBVIOUS
<1>5. \A d \in Doc : countToolUses(msgs'[view'], {d}) \in Nat
  <2> PICK ms \in Seq(Blocks) : ms = msgs'[view']
    BY <1>4
  <2>1. \A d \in Doc : countToolUses(ms, {d}) \in 0..Len(ms)
    BY CountIs
  <2>2. Len(ms) \in Nat
    OBVIOUS
  <2> QED
    BY <2>1, <2>2
<1> QED
  BY <1>5 DEF Keys

\* What a render may count on, and what the writes known are.
LEMMA Rendered ==
  ASSUME IInv, StateShape', LogShape', MessageShape', home' = home, remote' = remote,
         NEW from, PanelFits(from, home[view]), NEW again, Effects(from, again),
         view' = view => \A d \in Doc : Keys[d] <= Keys'[d],
         seen' \in [Doc -> Nat], \A d \in Doc : seen'[d] <= remote[home[view']][d],
         \A d \in Page : seen'[d] <= seen[d] \/ Keys'[d] # Keys[d]
  PROVE  BaselineShape' /\ PanelShape' /\ ViewerShape'
<1>1. view \in Session /\ view' \in Session /\ home \in [Session -> Workspace]
  BY DEF IInv, StateShape
<1>2. home[view] \in Workspace /\ home[view'] \in Workspace
  BY <1>1
<1>3. baseline' = Keys'
  <2>1. \A d \in Doc : Keys[d] \in Nat /\ Keys'[d] \in Nat
    BY KeysAre, KeysNext DEF IInv
  <2> QED
    BY <2>1, EffectsBaseline DEF IInv, BaselineShape
<1>4. PanelFits(slot', home[view'])
  BY <1>2, EffectsPanel
<1>5. Viewer(again)
  BY EffectsAre
<1>6. ViewerShape'
  <2>1. \A d \in Doc : seen'[d] <= remote'[home[view']][d]
    OBVIOUS
  <2> QED
    BY <1>2, <1>5, <2>1, ViewerFresh DEF IInv
<1>7. PanelShape'
  BY <1>4 DEF PanelFits, PanelShape
<1> QED
  BY <1>3, <1>6, <1>7 DEF BaselineShape

\* The panel on screen is one of the workspace.
LEMMA SlotFits == PanelShape => PanelFits(slot, home[view])
BY DEF PanelShape, PanelFits

\* A step that brings nothing to the messages counts nothing.
LEMMA SameKeys ==
  ASSUME msgs' = msgs, view' = view
  PROVE  Keys' = Keys
BY DEF Keys

\* A render that writes nothing and stays with its session.
LEMMA RenderedSame ==
  ASSUME IInv, StateShape', LogShape', MessageShape', home' = home, remote' = remote,
         NEW from, PanelFits(from, home[view]), NEW again, Effects(from, again),
         view' = view, seen' = seen, \A d \in Doc : Keys[d] <= Keys'[d]
  PROVE  BaselineShape' /\ PanelShape' /\ ViewerShape'
<1>1. seen \in [Doc -> Nat] /\ \A d \in Doc : seen[d] <= remote[home[view]][d]
  BY DEF IInv, ViewerShape
<1>2. \A d \in Page : seen'[d] <= seen[d] \/ Keys'[d] # Keys[d]
  BY <1>1 DEF Page
<1> QED
  BY <1>1, <1>2, Rendered

\* A step that leaves the transcripts and the messages, and renders.
LEMMA RenderedStill ==
  ASSUME IInv, StateShape', UNCHANGED <<log, running, calls, born, asked, msgs, home, remote>>,
         NEW from, PanelFits(from, home[view]), NEW again, Effects(from, again),
         view' = view, seen' = seen
  PROVE  IInv'
<1>1. LogShape' /\ MessageShape'
  BY DEF IInv, LogShape, MessageShape, Transcript, CallOf, FirstBlock
<1>2. RemoteShape'
  BY DEF IInv, RemoteShape, Unwritten
<1>3. \A d \in Doc : Keys[d] <= Keys'[d]
  <2>1. Keys' = Keys
    BY SameKeys
  <2> QED
    BY <2>1, KeysAre DEF IInv
<1>4. BaselineShape' /\ PanelShape' /\ ViewerShape'
  BY <1>1, <1>3, RenderedSame
<1> QED
  BY <1>1, <1>2, <1>4 DEF IInv

(* ------------------------- the calls and their results ------------------------- *)

\* A tool call.
LEMMA CallKeeps ==
  ASSUME IInv, NEW s \in Session, NEW n \in Doc \cup {"ExitPlanMode"}, Call(s, n)
  PROVE  IInv'
<1> DEFINE b == Use(n, Len(log[s]) + 1)
<1>1. /\ running[s] = "none" /\ calls < MaxCall /\ calls' = calls + 1
      /\ Block(s, b)
      /\ running' = [running EXCEPT ![s] = "called"]
      /\ ask' \subseteq ask \cup {s}
      /\ UNCHANGED <<home, born, asked, view, remote, mode, seen>>
      /\ Effects(slot, FALSE)
  BY DEF Call, Render
<1>2. StateShape /\ LogShape /\ MessageShape /\ RemoteShape
  BY DEF IInv
<1>3. PICK L \in Nat : L = Len(log[s]) /\ L <= 2 + 2 * calls
  BY <1>1, <1>2, MessagesAre DEF LogShape
<1>4. calls \in Nat /\ MaxCall \in Nat
  BY <1>2, ChatBoundsAssumption DEF StateShape
<1>5. b \in Blocks /\ b.type = "tool_use" /\ b.id = L + 1 /\ b.name \in DocCall
  <2>1. L + 1 \in 1..MaxBlock
    BY <1>1, <1>3, <1>4 DEF MaxBlock
  <2>2. ToolName(n) \in DocCall /\ DocCall \subseteq {ToolName(m) : m \in Doc \cup {"ExitPlanMode", "any"}}
    BY DEF DocCall
  <2> QED
    BY <2>1, <2>2, <1>3 DEF Use, Blocks
<1> HIDE DEF b
<1>6. /\ log' \in [Session -> Seq(Blocks)] /\ MessageShape'
      /\ log'[s] = Append(log[s], b) /\ msgs'[s] = Append(msgs[s], b)
      /\ \A t \in Session : t # s => log'[t] = log[t] /\ msgs'[t] = msgs[t]
  BY <1>1, <1>2, <1>5, BlockArrives
<1>7. StateShape'
  BY <1>1, <1>2, <1>4 DEF StateShape
<1>8. LogShape'
  <2>1. \A t \in Session : Transcript(log'[t])
    <3> TAKE t \in Session
    <3>1. CASE t = s
      <4>1. Transcript(log[s]) /\ log[s] \in Seq(Blocks)
        BY <1>2 DEF LogShape
      <4>2. Transcript(Append(log[s], b))
        BY <4>1, <1>3, <1>5, TranscriptGrows
      <4> QED
        BY <3>1, <4>2, <1>6
    <3>2. CASE t # s
      BY <3>2, <1>2, <1>6 DEF LogShape
    <3> QED
      BY <3>1, <3>2
  <2>2. \A t \in Session :
          /\ Len(log'[t]) + (IF running'[t] = "none" THEN 0 ELSE 1) <= 2 + 2 * calls'
          /\ born'[t] \in 0..Len(log'[t])
          /\ running'[t] # "none" => Len(log'[t]) > born'[t] /\ log'[t][Len(log'[t])].type = "tool_use"
    <3> TAKE t \in Session
    <3>0. running \in [Session -> {"none", "called", "written"}] /\ born[t] \in 0..Len(log[t])
      BY <1>2 DEF StateShape, LogShape
    <3>1. CASE t = s
      <4>1. Len(log'[s]) = L + 1 /\ log'[s][L + 1] = b
        BY <1>3, <1>5, <1>6, <1>2 DEF LogShape
      <4> QED
        BY <3>0, <3>1, <4>1, <1>1, <1>3, <1>4, <1>5
    <3>2. CASE t # s
      <4>1. log'[t] = log[t] /\ running'[t] = running[t] /\ born'[t] = born[t]
        BY <3>0, <3>2, <1>1, <1>6
      <4>2. /\ Len(log[t]) + (IF running[t] = "none" THEN 0 ELSE 1) <= 2 + 2 * calls
            /\ running[t] # "none" => Len(log[t]) > born[t] /\ log[t][Len(log[t])].type = "tool_use"
        BY <1>2 DEF LogShape, CallOf, Last
      <4>3. PICK N \in Nat : N = Len(log[t])
        BY <1>2 DEF LogShape
      <4>4. PICK r \in 0..1 : r = IF running[t] = "none" THEN 0 ELSE 1
        OBVIOUS
      <4>5. N + r <= 2 + 2 * calls'
        <5>1. N + r <= 2 + 2 * calls
          BY <4>2, <4>3, <4>4
        <5>2. calls' = calls + 1
          BY <1>1
        <5> QED
          BY <5>1, <5>2, <1>4
      <4> QED
        BY <3>0, <4>1, <4>2, <4>3, <4>4, <4>5
    <3> QED
      BY <3>1, <3>2
  <2> QED
    BY <2>1, <2>2, <1>6 DEF LogShape, Transcript, CallOf, Last
<1>9. RemoteShape'
  <2>1. Unwritten' = Unwritten \cup {s}
    BY <1>1, <1>2 DEF Unwritten, StateShape
  <2>2. IsFiniteSet(Unwritten) /\ s \notin Unwritten
    BY <1>1, <1>2 DEF RemoteShape, Unwritten
  <2>3. /\ IsFiniteSet(Unwritten') /\ Cardinality(Unwritten') = Cardinality(Unwritten) + 1
    BY <2>1, <2>2, FS_AddElement
  <2>4. Cardinality(Unwritten) \in Nat
    BY <2>2, FS_CardinalityType
  <2>5. remote \in [Workspace -> [Doc -> Nat]]
        /\ \A w \in Workspace, d \in Doc : remote[w][d] + Cardinality(Unwritten) <= 1 + calls
    BY <1>2 DEF RemoteShape
  <2>6. \A w \in Workspace, d \in Doc : remote'[w][d] + Cardinality(Unwritten') <= 1 + calls'
    <3> TAKE w \in Workspace, d \in Doc
    <3>1. remote[w][d] \in Nat /\ remote[w][d] + Cardinality(Unwritten) <= 1 + calls
      BY <2>5
    <3> QED
      BY <3>1, <2>3, <2>4, <1>1, <1>4
  <2> QED
    BY <2>3, <2>5, <2>6, <1>1 DEF RemoteShape
<1>10. \A d \in Doc : Keys[d] <= Keys'[d]
  <2> TAKE d \in Doc
  <2>1. Keys[d] = countToolUses(msgs[view], {d}) /\ Keys'[d] = countToolUses(msgs'[view], {d})
    BY <1>1, <1>2, <1>6, <1>7, <1>8, KeysAre, KeysNext
  <2>2. view \in Session
    BY <1>2 DEF StateShape
  <2>3. CASE view = s
    <3>1. msgs[s] \in Seq(Blocks)
      BY <1>2, MessagesAre
    <3>2. countToolUses(msgs[s], {d}) <= countToolUses(Append(msgs[s], b), {d})
      BY <3>1, <1>5, CallCounts
    <3> QED
      BY <2>1, <2>3, <3>2, <1>6
  <2>4. CASE view # s
    <3>1. Keys[d] \in Nat
      BY <1>2, KeysAre
    <3> QED
      BY <2>1, <2>2, <2>4, <3>1, <1>6
  <2> QED
    BY <2>3, <2>4
<1>11. PanelFits(slot, home[view])
  BY SlotFits DEF IInv
<1>12. BaselineShape' /\ PanelShape' /\ ViewerShape'
  BY <1>1, <1>6, <1>7, <1>8, <1>10, <1>11, RenderedSame
<1> QED
  BY <1>6, <1>7, <1>8, <1>9, <1>12 DEF IInv

\* The tool writes the document.
LEMMA CommitKeeps ==
  ASSUME IInv, NEW s \in Session, Commit(s)
  PROVE  IInv'
<1> DEFINE d == CallOf(s).name.short
<1>1. /\ running[s] = "called" /\ d \in Doc
      /\ running' = [running EXCEPT ![s] = "written"]
      /\ remote' = [remote EXCEPT ![home[s]][d] = @ + 1]
      /\ UNCHANGED <<home, log, born, calls, asked, view, mode, ask, msgs, slot, baseline, body, fetches, seen>>
  BY DEF Commit, unmoved
<1> HIDE DEF d
<1>2. StateShape /\ LogShape /\ MessageShape /\ RemoteShape
  BY DEF IInv
<1>3. home[s] \in Workspace /\ view \in Session /\ home[view] \in Workspace
  BY <1>2 DEF StateShape
<1>4. StateShape' /\ MessageShape'
  BY <1>1, <1>2 DEF StateShape, MessageShape, FirstBlock
<1>5. LogShape'
  BY <1>1, <1>2 DEF LogShape, StateShape, Transcript, CallOf
<1>6. remote \in [Workspace -> [Doc -> Nat]]
  BY <1>2 DEF RemoteShape
<1>7. remote' \in [Workspace -> [Doc -> Nat]]
      /\ \A w \in Workspace, e \in Doc :
           remote'[w][e] = IF w = home[s] /\ e = d THEN remote[w][e] + 1 ELSE remote[w][e]
  BY <1>1, <1>3, <1>6
<1>8. RemoteShape'
  <2>1. Unwritten' = Unwritten \ {s} /\ s \in Unwritten
    BY <1>1, <1>2 DEF Unwritten, StateShape
  <2>2. IsFiniteSet(Unwritten)
    BY <1>2 DEF RemoteShape
  <2>3. IsFiniteSet(Unwritten') /\ Cardinality(Unwritten') = Cardinality(Unwritten) - 1
    BY <2>1, <2>2, FS_RemoveElement
  <2>4. Cardinality(Unwritten) \in Nat
    BY <2>2, FS_CardinalityType
  <2>5. \A w \in Workspace, e \in Doc : remote'[w][e] + Cardinality(Unwritten') <= 1 + calls'
    <3> TAKE w \in Workspace, e \in Doc
    <3>1. remote[w][e] \in Nat /\ remote[w][e] + Cardinality(Unwritten) <= 1 + calls /\ calls \in Nat
      BY <1>2 DEF RemoteShape, StateShape
    <3>2. remote'[w][e] = remote[w][e] \/ remote'[w][e] = remote[w][e] + 1
      BY <1>7
    <3> QED
      BY <3>1, <3>2, <2>3, <2>4, <1>1
  <2> QED
    BY <2>3, <2>5, <1>7 DEF RemoteShape
<1>9. BaselineShape' /\ PanelShape'
  <2>1. Keys' = Keys
    BY <1>1, SameKeys
  <2> QED
    BY <2>1, <1>1 DEF IInv, BaselineShape, PanelShape
<1>10. ViewerShape'
  <2>1. /\ body \in BodyOf /\ BodyFits(body, slot.kind, seen)
        /\ FetchesFit(fetches, slot.kind, home[view], seen)
        /\ seen \in [Doc -> Nat] /\ \A e \in Doc : seen[e] <= remote[home[view]][e]
    BY ViewerShapeIs DEF IInv
  <2>2. \A e \in Doc : seen[e] <= remote'[home[view]][e]
    <3> TAKE e \in Doc
    <3>1. seen[e] \in Nat /\ remote[home[view]][e] \in Nat /\ seen[e] <= remote[home[view]][e]
      BY <2>1, <1>3, <1>6
    <3> QED
      BY <3>1, <1>3, <1>7
  <2> QED
    BY <2>1, <2>2, <1>1, ViewerShapeNext
<1> QED
  BY <1>4, <1>5, <1>8, <1>9, <1>10 DEF IInv

\* The result of the call that a transcript ends with.
LEMMA ReturnArrives ==
  ASSUME IInv, NEW s \in Session, Return(s)
  PROVE  /\ StateShape' /\ LogShape' /\ MessageShape'
         /\ log'[s] = Append(log[s], Result(Len(log[s])))
         /\ msgs'[s] = Append(msgs[s], Result(Len(log[s])))
         /\ \A t \in Session : t # s => log'[t] = log[t] /\ msgs'[t] = msgs[t]
<1> DEFINE b == Result(CallOf(s).id)
<1>1. /\ running[s] # "none"
      /\ Block(s, b)
      /\ running' = [running EXCEPT ![s] = "none"]
      /\ UNCHANGED <<home, born, calls, asked, view, mode, ask>>
  BY DEF Return, unmoved
<1>2. StateShape /\ LogShape /\ MessageShape
  BY DEF IInv
<1>3. log[s] \in Seq(Blocks) /\ Transcript(log[s]) /\ born[s] \in 0..Len(log[s])
  BY <1>2 DEF LogShape
<1>4. PICK L \in Nat : L = Len(log[s])
  BY <1>3
<1>5. calls \in Nat /\ MaxCall \in Nat /\ calls <= MaxCall
  BY <1>2, ChatBoundsAssumption DEF StateShape
<1>6. /\ L + 1 <= 2 + 2 * calls /\ L > born[s] /\ L > 0
      /\ log[s][L].type = "tool_use"
  <2>1. /\ Len(log[s]) + (IF running[s] = "none" THEN 0 ELSE 1) <= 2 + 2 * calls
        /\ Len(log[s]) > born[s] /\ log[s][Len(log[s])].type = "tool_use"
    BY <1>1, <1>2 DEF LogShape, CallOf, Last
  <2> QED
    BY <2>1, <1>1, <1>3, <1>4
<1>7. b = Result(L)
  <2>1. CallOf(s) = log[s][L] /\ L \in DOMAIN log[s]
    BY <1>3, <1>4, <1>6 DEF CallOf, Last
  <2>2. Result(L - 1).type = "tool_result"
    BY DEF Result
  <2>3. CallOf(s).id = L
    BY <2>1, <2>2, <1>3, <1>6 DEF Transcript
  <2> QED
    BY <2>3
<1> HIDE DEF b
<1>8. b \in Blocks
  <2>1. L \in 1..MaxBlock
    BY <1>4, <1>5, <1>6 DEF MaxBlock
  <2> QED
    BY <2>1, <1>7 DEF Result, Blocks
<1>9. /\ log' \in [Session -> Seq(Blocks)] /\ MessageShape'
      /\ log'[s] = Append(log[s], b) /\ msgs'[s] = Append(msgs[s], b)
      /\ \A t \in Session : t # s => log'[t] = log[t] /\ msgs'[t] = msgs[t]
  BY <1>1, <1>2, <1>8, BlockArrives
<1>10. StateShape'
  BY <1>1, <1>2 DEF StateShape
<1>11. LogShape'
  <2>1. \A t \in Session : Transcript(log'[t])
    <3> TAKE t \in Session
    <3>1. CASE t = s
      <4>1. Transcript(Append(log[s], b))
        BY <1>3, <1>4, <1>6, <1>7, <1>8, TranscriptGrows
      <4> QED
        BY <3>1, <4>1, <1>9
    <3>2. CASE t # s
      BY <3>2, <1>2, <1>9 DEF LogShape
    <3> QED
      BY <3>1, <3>2
  <2>2. \A t \in Session :
          /\ Len(log'[t]) + (IF running'[t] = "none" THEN 0 ELSE 1) <= 2 + 2 * calls'
          /\ born'[t] \in 0..Len(log'[t])
          /\ running'[t] # "none" => Len(log'[t]) > born'[t] /\ log'[t][Len(log'[t])].type = "tool_use"
    <3> TAKE t \in Session
    <3>0. running \in [Session -> {"none", "called", "written"}] /\ born[t] \in 0..Len(log[t])
      BY <1>2 DEF StateShape, LogShape
    <3>1. CASE t = s
      <4>1. Len(log'[s]) = L + 1 /\ running'[s] = "none"
        BY <1>1, <1>3, <1>4, <1>8, <1>9, <3>0
      <4>2. born'[s] = born[s] /\ born[s] \in 0..(L + 1) /\ calls' = calls
        BY <1>1, <1>3, <1>4
      <4> QED
        BY <3>1, <4>1, <4>2, <1>5, <1>6
    <3>2. CASE t # s
      <4>1. log'[t] = log[t] /\ running'[t] = running[t] /\ born'[t] = born[t] /\ calls' = calls
        BY <3>0, <3>2, <1>1, <1>9
      <4>2. /\ Len(log[t]) + (IF running[t] = "none" THEN 0 ELSE 1) <= 2 + 2 * calls
            /\ running[t] # "none" => Len(log[t]) > born[t] /\ log[t][Len(log[t])].type = "tool_use"
        BY <1>2 DEF LogShape, CallOf, Last
      <4> QED
        BY <3>0, <4>1, <4>2
    <3> QED
      BY <3>1, <3>2
  <2> QED
    BY <2>1, <2>2, <1>9 DEF LogShape, Transcript, CallOf, Last
<1> QED
  BY <1>4, <1>7, <1>9, <1>10, <1>11

\* It is counted for the document of the call, and for no other.
LEMMA ReturnCounts ==
  ASSUME IInv, NEW s \in Session, Return(s), view = s, NEW d \in Doc
  PROVE  Keys'[d] = Keys[d] + (IF CallOf(s).name.short = d THEN 1 ELSE 0)
<1>1. /\ StateShape' /\ LogShape' /\ MessageShape'
      /\ msgs'[s] = Append(msgs[s], Result(Len(log[s])))
  BY ReturnArrives
<1>2. StateShape /\ LogShape /\ MessageShape /\ running[s] # "none" /\ view' = view
  BY DEF IInv, Return, unmoved
<1>3. PICK l \in Seq(Blocks) : l = log[s]
  BY <1>2 DEF LogShape
<1>4. PICK L \in Nat : L = Len(l)
  OBVIOUS
<1>5. PICK k \in 1..(L + 1) : k = FirstBlock(s) /\ msgs[s] = SubSeq(l, k, L)
  BY <1>2, <1>3, <1>4, MessagesAre
<1>6. Transcript(l) /\ CallOf(s) = l[L] /\ L > born[s] /\ l[L].type = "tool_use" /\ born[s] \in 0..L
  BY <1>2, <1>3, <1>4 DEF LogShape, CallOf, Last
<1>7. k <= L /\ L > 0
  BY <1>5, <1>6 DEF FirstBlock
<1>8. \A i \in 1..L : l[i].type = "tool_use" => l[i].id = i
  <2>1. \A i \in 1..L : Result(i - 1).type = "tool_result"
    BY DEF Result
  <2> QED
    BY <2>1, <1>3, <1>4, <1>6 DEF Transcript
<1>9. PICK ms \in Seq(Blocks) : ms = msgs[s]
  BY <1>2, MessagesAre
<1>10. /\ DOMAIN ms = 1..(L + 1 - k)
       /\ \A j \in 1..(L + 1 - k) : ms[j] = l[j + k - 1] /\ j + k - 1 \in 1..L
  BY <1>4, <1>5, <1>7, <1>9
<1>11. (\E j \in DOMAIN ms : IsCall(ms, j, L, d)) <=> l[L].name.short = d
  <2>1. ASSUME NEW j \in DOMAIN ms, IsCall(ms, j, L, d)
        PROVE  l[L].name.short = d
    <3>1. ms[j] = l[j + k - 1] /\ j + k - 1 \in 1..L /\ ms[j].type = "tool_use" /\ ms[j].id = L
      BY <2>1, <1>10 DEF IsCall
    <3>2. j + k - 1 = L
      BY <3>1, <1>8
    <3> QED
      BY <3>1, <3>2, <2>1 DEF IsCall
  <2>2. ASSUME l[L].name.short = d
        PROVE  \E j \in DOMAIN ms : IsCall(ms, j, L, d)
    <3>1. L + 1 - k \in DOMAIN ms /\ ms[L + 1 - k] = l[L]
      <4>1. L + 1 - k \in 1..(L + 1 - k) /\ (L + 1 - k) + k - 1 = L
        BY <1>4, <1>5, <1>7
      <4> QED
        BY <4>1, <1>10
    <3>2. l[L].id = L
      BY <1>6, <1>7, <1>8
    <3> QED
      BY <3>1, <3>2, <2>2, <1>6 DEF IsCall
  <2> QED
    BY <2>1, <2>2
<1>12. Result(L) \in Blocks
  <2>1. L \in 1..MaxBlock
    <3>1. l[L] \in Blocks /\ l[L].id = L
      BY <1>3, <1>4, <1>6, <1>7, <1>8
    <3> QED
      BY <3>1 DEF Blocks
  <2> QED
    BY <2>1 DEF Result, Blocks
<1>13. countToolUses(Append(ms, Result(L)), {d})
         = countToolUses(ms, {d}) + (IF l[L].name.short = d THEN 1 ELSE 0)
  BY <1>11, <1>12, ResultCounts
<1>14. Keys[d] = countToolUses(ms, {d})
  BY <1>2, <1>9, KeysAre
<1>15. Keys'[d] = countToolUses(Append(ms, Result(L)), {d})
  BY <1>1, <1>2, <1>3, <1>4, <1>9, KeysNext
<1> QED
  BY <1>6, <1>13, <1>14, <1>15

\* The result reaches the messages; the count moves, and what is known of the
\* document with it.
LEMMA ReturnKeeps ==
  ASSUME IInv, NEW s \in Session, Return(s)
  PROVE  IInv'
<1> DEFINE c == CallOf(s).name.short
<1>1. /\ running' = [running EXCEPT ![s] = "none"]
      /\ seen' = IF s = view /\ c \in Doc THEN [seen EXCEPT ![c] = remote[home[s]][c]] ELSE seen
      /\ UNCHANGED <<home, view, remote, calls>>
      /\ Effects(slot, FALSE)
  BY DEF Return, Render, unmoved
<1>2. /\ StateShape' /\ LogShape' /\ MessageShape'
      /\ \A t \in Session : t # s => msgs'[t] = msgs[t]
  BY ReturnArrives
<1>3. StateShape /\ LogShape /\ MessageShape /\ RemoteShape
  BY DEF IInv
<1>4. view \in Session /\ home[view] \in Workspace /\ calls \in Nat
  BY <1>3 DEF StateShape
<1>5. view = s => \A d \in Doc : Keys'[d] = Keys[d] + (IF c = d THEN 1 ELSE 0)
  BY ReturnCounts
<1> HIDE DEF c
<1>6. \A d \in Doc : Keys[d] \in Nat
  BY <1>3, KeysAre
<1>7. view # s => \A d \in Doc : Keys'[d] = Keys[d]
  <2>1. \A d \in Doc : Keys[d] = countToolUses(msgs[view], {d}) /\ Keys'[d] = countToolUses(msgs'[view'], {d})
    BY <1>2, <1>3, KeysAre, KeysNext
  <2> QED
    BY <2>1, <1>1, <1>2, <1>4
<1>8. \A d \in Doc : Keys[d] <= Keys'[d]
  BY <1>5, <1>6, <1>7
<1>9. remote \in [Workspace -> [Doc -> Nat]]
  BY <1>3 DEF RemoteShape
<1>10. seen \in [Doc -> Nat] /\ \A d \in Doc : seen[d] <= remote[home[view]][d]
  BY DEF IInv, ViewerShape
<1>11. seen' \in [Doc -> Nat]
       /\ \A d \in Doc : seen'[d] = IF s = view /\ c = d THEN remote[home[view]][d] ELSE seen[d]
  BY <1>1, <1>4, <1>9, <1>10
<1>12. \A d \in Doc : seen'[d] <= remote[home[view']][d]
  <2> TAKE d \in Doc
  <2>1. remote[home[view]][d] \in Nat /\ seen[d] <= remote[home[view]][d] /\ view' = view
    BY <1>1, <1>4, <1>9, <1>10
  <2> QED
    BY <2>1, <1>11
<1>13. \A d \in Page : seen'[d] <= seen[d] \/ Keys'[d] # Keys[d]
  <2> TAKE d \in Page
  <2>1. d \in Doc
    BY DEF Page
  <2>2. CASE s = view /\ c = d
    BY <2>1, <2>2, <1>5, <1>6
  <2>3. CASE ~ (s = view /\ c = d)
    BY <2>1, <2>3, <1>10, <1>11
  <2> QED
    BY <2>2, <2>3
<1>14. PanelFits(slot, home[view])
  BY SlotFits DEF IInv
<1>15. BaselineShape' /\ PanelShape' /\ ViewerShape'
  BY <1>1, <1>2, <1>8, <1>11, <1>12, <1>13, <1>14, Rendered
<1>16. RemoteShape'
  <2>1. IsFiniteSet(Unwritten) /\ Unwritten' \in SUBSET Unwritten
    BY <1>1, <1>3 DEF Unwritten, StateShape, RemoteShape
  <2>2. IsFiniteSet(Unwritten') /\ Cardinality(Unwritten') <= Cardinality(Unwritten)
    BY <2>1, FS_Subset
  <2>3. Cardinality(Unwritten) \in Nat /\ Cardinality(Unwritten') \in Nat
    BY <2>1, <2>2, FS_CardinalityType
  <2>4. \A w \in Workspace, d \in Doc : remote'[w][d] + Cardinality(Unwritten') <= 1 + calls'
    <3> TAKE w \in Workspace, d \in Doc
    <3>1. remote[w][d] \in Nat /\ remote[w][d] + Cardinality(Unwritten) <= 1 + calls
      BY <1>3 DEF RemoteShape
    <3> QED
      BY <3>1, <2>2, <2>3, <1>1, <1>4
  <2> QED
    BY <2>2, <2>4, <1>1, <1>9 DEF RemoteShape
<1> QED
  BY <1>2, <1>15, <1>16 DEF IInv

(* ------------------------- the plan, the history and the user ------------------------- *)

\* The mode changes, or a plan is answered.
LEMMA PlanKeeps ==
  ASSUME IInv, NEW s \in Session, ChangeMode(s) \/ \E approve \in BOOLEAN : AnswerPlan(s, approve)
  PROVE  IInv'
<1>1. /\ mode' \subseteq mode \cup {s} /\ ask' \subseteq ask
      /\ UNCHANGED <<log, running, calls, born, asked, msgs, home, remote, view, seen>>
      /\ Effects(slot, FALSE)
  BY DEF ChangeMode, AnswerPlan, Render, unmoved
<1>2. StateShape'
  BY <1>1 DEF IInv, StateShape
<1>3. PanelFits(slot, home[view])
  BY SlotFits DEF IInv
<1> QED
  BY <1>1, <1>2, <1>3, RenderedStill

\* The history completes the messages to the transcript.
LEMMA HistoryKeeps ==
  ASSUME IInv, NEW s \in Session, HistoryArrives(s)
  PROVE  IInv'
<1>1. /\ asked[s] = "asked" /\ asked' = [asked EXCEPT ![s] = "here"]
      /\ \E n \in born[s]..Len(log[s]) :
           LET past == SubSeq(log[s], 1, n)
           IN msgs' = [msgs EXCEPT ![s] = past \o Kept(@, ToSet(@) \ ToSet(past))]
      /\ UNCHANGED <<home, log, born, running, remote, mode, ask, calls, view, seen>>
      /\ Effects(slot, FALSE)
  BY DEF HistoryArrives, Render, remoteVars
<1>2. StateShape /\ LogShape /\ MessageShape /\ RemoteShape
  BY DEF IInv
<1>3. PICK l \in Seq(Blocks) : l = log[s]
  BY <1>2 DEF LogShape
<1>4. PICK b \in 0..Len(l) : b = born[s]
  BY <1>2, <1>3 DEF LogShape
<1>5. msgs[s] = SubSeq(l, b + 1, Len(l)) /\ DOMAIN msgs = Session
  BY <1>1, <1>2, <1>3, <1>4 DEF MessageShape, FirstBlock
<1>6. Transcript(l)
  BY <1>2, <1>3 DEF LogShape
<1>7. msgs' = [msgs EXCEPT ![s] = l]
  <2>1. PICK n \in b..Len(l) :
          msgs' = [msgs EXCEPT ![s] = SubSeq(l, 1, n)
                     \o Kept(msgs[s], ToSet(msgs[s]) \ ToSet(SubSeq(l, 1, n)))]
    BY <1>1, <1>3, <1>4, Zenon
  <2>2. \A i, j \in 1..Len(l) : l[i] = l[j] => i = j
    BY <1>6, BlocksDistinct
  <2>3. SubSeq(l, 1, n) \o Kept(msgs[s], ToSet(msgs[s]) \ ToSet(SubSeq(l, 1, n))) = l
    BY <2>2, <1>5, HistoryJoins
  <2> QED
    BY <2>1, <2>3
<1>8. StateShape'
  BY <1>1, <1>2 DEF StateShape
<1>9. LogShape' /\ RemoteShape'
  BY <1>1, <1>2 DEF LogShape, Transcript, CallOf, RemoteShape, Unwritten
<1>10. \A t \in Session : msgs'[t] = SubSeq(log'[t], FirstBlock(t)', Len(log'[t]))
  <2> TAKE t \in Session
  <2>0. asked \in [Session -> {"no", "asked", "here"}]
    BY <1>2 DEF StateShape
  <2>1. CASE t = s
    <3>1. FirstBlock(t)' = 1 /\ msgs'[t] = l /\ log'[t] = l
      BY <2>0, <2>1, <1>1, <1>3, <1>5, <1>7 DEF FirstBlock
    <3>2. SubSeq(l, 1, Len(l)) = l
      OBVIOUS
    <3> QED
      BY <3>1, <3>2
  <2>2. CASE t # s
    <3>1. FirstBlock(t)' = FirstBlock(t) /\ msgs'[t] = msgs[t] /\ log'[t] = log[t]
      BY <2>0, <2>2, <1>1, <1>5, <1>7 DEF FirstBlock
    <3> QED
      BY <3>1, <1>2, MessagesAre
  <2> QED
    BY <2>1, <2>2
<1>11. MessageShape'
  <2>1. msgs' = [t \in Session |-> msgs'[t]]
    BY <1>5, <1>7
  <2>2. msgs' = [t \in Session |-> SubSeq(log'[t], FirstBlock(t)', Len(log'[t]))]
    BY <2>1, <1>10
  <2> QED
    BY <2>2 DEF MessageShape
<1>12. \A d \in Doc : Keys[d] <= Keys'[d]
  <2> TAKE d \in Doc
  <2>1. Keys[d] = countToolUses(msgs[view], {d}) /\ Keys'[d] = countToolUses(msgs'[view'], {d})
        /\ Keys[d] \in Nat
    BY <1>2, <1>8, <1>9, <1>11, KeysAre, KeysNext
  <2>2. view \in Session /\ view' = view
    BY <1>1, <1>2 DEF StateShape
  <2>3. CASE view = s
    <3>1. countToolUses(SubSeq(l, b + 1, Len(l)), {d}) <= countToolUses(l, {d})
      BY TailCounts
    <3>2. msgs'[s] = l
      BY <1>5, <1>7
    <3> QED
      BY <2>1, <2>2, <2>3, <3>1, <3>2, <1>5
  <2>4. CASE view # s
    <3>1. msgs'[view] = msgs[view]
      BY <2>2, <2>4, <1>5, <1>7
    <3> QED
      BY <3>1, <2>1, <2>2
  <2> QED
    BY <2>3, <2>4
<1>13. PanelFits(slot, home[view])
  BY SlotFits DEF IInv
<1>14. BaselineShape' /\ PanelShape' /\ ViewerShape'
  BY <1>1, <1>8, <1>9, <1>11, <1>12, <1>13, RenderedSame
<1> QED
  BY <1>8, <1>9, <1>11, <1>14 DEF IInv

\* Another session is shown, whose counts are then the baseline.
LEMMA PickSessionKeeps ==
  ASSUME IInv, NEW s \in Session, PickSession(s)
  PROVE  IInv'
<1>1. /\ s # view /\ view' = s
      /\ asked' = IF asked[s] = "no" THEN [asked EXCEPT ![s] = "asked"] ELSE asked
      /\ seen' = [d \in Doc |-> 0]
      /\ UNCHANGED <<home, log, born, running, remote, mode, ask, calls, msgs>>
      /\ Effects(slot, FALSE)
  BY DEF PickSession, Render, remoteVars
<1>2. StateShape /\ LogShape /\ MessageShape /\ RemoteShape
  BY DEF IInv
<1>3. StateShape'
  BY <1>1, <1>2 DEF StateShape
<1>4. LogShape' /\ RemoteShape'
  BY <1>1, <1>2 DEF LogShape, Transcript, CallOf, RemoteShape, Unwritten
<1>5. MessageShape'
  <2>1. \A t \in Session : FirstBlock(t)' = FirstBlock(t)
    BY <1>1, <1>2 DEF FirstBlock, StateShape
  <2>2. msgs' = [t \in Session |-> SubSeq(log'[t], FirstBlock(t)', Len(log'[t]))]
    BY <1>1, <1>2, <2>1 DEF MessageShape
  <2> QED
    BY <2>2 DEF MessageShape
<1>6. view' \in Session /\ home[view'] \in Workspace
  BY <1>1, <1>2 DEF StateShape
<1>7. seen' \in [Doc -> Nat] /\ \A d \in Doc : seen'[d] = 0
  BY <1>1
<1>8. \A d \in Doc : seen'[d] <= remote[home[view']][d]
  <2> TAKE d \in Doc
  <2>1. remote[home[view']][d] \in Nat
    BY <1>2, <1>6 DEF RemoteShape
  <2> QED
    BY <2>1, <1>7
<1>9. \A d \in Page : seen'[d] <= seen[d] \/ Keys'[d] # Keys[d]
  <2>1. seen \in [Doc -> Nat] /\ Page \subseteq Doc
    BY DEF IInv, ViewerShape, Page
  <2> QED
    BY <2>1, <1>7
<1>10. PanelFits(slot, home[view])
  BY SlotFits DEF IInv
<1>11. BaselineShape' /\ PanelShape' /\ ViewerShape'
  BY <1>1, <1>3, <1>4, <1>5, <1>7, <1>8, <1>9, <1>10, Rendered
<1> QED
  BY <1>3, <1>4, <1>5, <1>11 DEF IInv

\* What a click makes of the panel.
LEMMA ToggledFits ==
  ASSUME NEW w \in Workspace, NEW t, PanelFits(t, w), NEW s, PanelFits(s, w)
  PROVE  /\ PanelFits(reduceDocSlot(s, Act("user_toggle", t)), w)
         /\ PanelFits(reduceDocSlot(s, Act("hide", Hidden)), w)
BY ReduceIs, PanelsFit

\* The other clicks.
LEMMA ClickKeeps ==
  ASSUME IInv,
         \/ ClosePanel \/ Reload
         \/ \E d \in Doc : PickDoc(DocSlot(d, home[view]))
         \/ PickDoc(PlanSlot("manual"))
  PROVE  IInv'
<1>1. home[view] \in Workspace
  BY DEF IInv, StateShape
<1>2. PanelFits(slot, home[view])
  BY SlotFits DEF IInv
<1>3. PICK from, again :
        /\ PanelFits(from, home[view]) /\ Effects(from, again)
        /\ UNCHANGED <<home, log, born, running, remote, mode, ask, calls, msgs, asked, view, seen>>
  <2>1. CASE ClosePanel
    <3>1. Effects(reduceDocSlot(slot, Act("hide", Hidden)), FALSE)
          /\ UNCHANGED <<home, log, born, running, remote, mode, ask, calls, msgs, asked, view, seen>>
      BY <2>1 DEF ClosePanel, Render, remoteVars
    <3>2. PanelFits(reduceDocSlot(slot, Act("hide", Hidden)), home[view])
      BY <1>1, <1>2, ToggledFits
    <3> QED
      BY <3>1, <3>2
  <2>2. CASE Reload
    <3>1. Effects(slot, TRUE)
          /\ UNCHANGED <<home, log, born, running, remote, mode, ask, calls, msgs, asked, view, seen>>
      BY <2>2 DEF Reload, remoteVars
    <3> QED
      BY <3>1, <1>2
  <2>3. ASSUME NEW t, PickDoc(t), PanelFits(t, home[view])
        PROVE  \E f, a : /\ PanelFits(f, home[view]) /\ Effects(f, a)
                         /\ UNCHANGED <<home, log, born, running, remote, mode, ask, calls, msgs,
                                        asked, view, seen>>
    <3>1. Effects(reduceDocSlot(slot, Act("user_toggle", t)), FALSE)
          /\ UNCHANGED <<home, log, born, running, remote, mode, ask, calls, msgs, asked, view, seen>>
      BY <2>3 DEF PickDoc, Render, remoteVars
    <3>2. PanelFits(reduceDocSlot(slot, Act("user_toggle", t)), home[view])
      BY <1>1, <1>2, <2>3, ToggledFits
    <3> QED
      BY <3>1, <3>2
  <2>4. PanelFits(PlanSlot("manual"), home[view])
        /\ \A d \in Doc : PanelFits(DocSlot(d, home[view]), home[view])
    BY <1>1, PanelsFit
  <2> QED
    BY <2>1, <2>2, <2>3, <2>4
<1>4. StateShape'
  BY <1>3 DEF IInv, StateShape
<1> QED
  BY <1>3, <1>4, RenderedStill

\* The list of workspaces comes; only the viewer looks at it.
LEMMA ListKeeps ==
  ASSUME IInv, ListArrives
  PROVE  IInv'
<1>1. /\ UNCHANGED <<home, log, born, running, remote, mode, ask, calls, msgs, asked, view, seen>>
      /\ slot' = slot /\ baseline' = baseline /\ Viewer(FALSE)
  BY DEF ListArrives, remoteVars
<1>2. StateShape' /\ LogShape' /\ MessageShape' /\ RemoteShape'
  BY <1>1 DEF IInv, StateShape, LogShape, MessageShape, RemoteShape, Transcript, CallOf,
              FirstBlock, Unwritten
<1>3. BaselineShape' /\ PanelShape'
  <2>1. Keys' = Keys
    BY <1>1, SameKeys
  <2> QED
    BY <2>1, <1>1 DEF IInv, BaselineShape, PanelShape
<1>4. ViewerShape'
  <2>1. home[view'] \in Workspace
    BY <1>1 DEF IInv, StateShape
  <2>2. seen \in [Doc -> Nat] /\ \A d \in Doc : seen[d] <= remote[home[view]][d]
    BY DEF IInv, ViewerShape
  <2>3. \A d \in Page : seen'[d] <= seen[d] \/ Keys'[d] # Keys[d]
    BY <2>2, <1>1 DEF Page
  <2> QED
    BY <2>1, <2>2, <2>3, <1>1, ViewerFresh DEF IInv
<1> QED
  BY <1>2, <1>3, <1>4 DEF IInv

\* A fetch is served or answered, or fails.
LEMMA FetchKeeps ==
  ASSUME IInv, NEW f \in fetches, Serve(f) \/ Answered(f) \/ Failed(f)
  PROVE  IInv'
<1>1. UNCHANGED <<home, log, born, running, remote, mode, ask, calls, msgs, asked, view, seen,
                  slot, baseline>>
  BY DEF Serve, Answered, Failed, remoteVars
<1>2. StateShape' /\ LogShape' /\ MessageShape' /\ RemoteShape'
  BY <1>1 DEF IInv, StateShape, LogShape, MessageShape, RemoteShape, Transcript, CallOf,
              FirstBlock, Unwritten
<1>3. BaselineShape' /\ PanelShape'
  <2>1. Keys' = Keys
    BY <1>1, SameKeys
  <2> QED
    BY <2>1, <1>1 DEF IInv, BaselineShape, PanelShape
<1>4. ViewerShape'
  BY ServeFresh, AnsweredFresh DEF IInv
<1> QED
  BY <1>2, <1>3, <1>4 DEF IInv

(* ------------------------- the invariant ------------------------- *)

\* A transcript from before has the writes in it, if any.
LEMMA PastFits ==
  ASSUME NEW l \in Past
  PROVE  l \in Seq(Blocks) /\ Transcript(l) /\ Len(l) \in {0, 2}
<1>1. CASE l = <<>>
  BY <1>1 DEF Transcript
<1>2. CASE l # <<>>
  <2>1. PICK d \in Doc : l = <<Use(d, 1), Result(1)>>
    BY <1>2 DEF Past, Page
  <2>2. 1 \in 1..MaxBlock
    BY ChatBoundsAssumption DEF MaxBlock
  <2>3. Use(d, 1) \in Blocks /\ Result(1) \in Blocks
    BY <2>2 DEF Use, Result, Blocks
  <2>4. Use(d, 1).type = "tool_use" /\ Use(d, 1).id = 1 /\ Use(d, 1).name \in DocCall
    BY DEF Use, DocCall
  <2>5. l \in Seq(Blocks) /\ Len(l) = 2 /\ l[1] = Use(d, 1) /\ l[2] = Result(1) /\ DOMAIN l = 1..2
    BY <2>1, <2>3
  <2>6. Transcript(l)
    BY <2>4, <2>5 DEF Transcript
  <2> QED
    BY <2>5, <2>6
<1> QED
  BY <1>1, <1>2

\* The page starts with nothing counted, nothing shown and nothing fetched.
LEMMA InitFits == ChatInit => IInv
<1> SUFFICES ASSUME ChatInit PROVE IInv
  OBVIOUS
<1>1. /\ home \in [Session -> Workspace] /\ log \in [Session -> Past]
      /\ born = [s \in Session |-> Len(log[s])]
      /\ running = [s \in Session |-> "none"]
      /\ mode = {} /\ ask = {} /\ calls = 0
      /\ msgs = [s \in Session |-> <<>>]
      /\ view \in Session
      /\ asked = [s \in Session |-> IF s = view THEN "asked" ELSE "no"]
      /\ slot = Hidden /\ baseline = [d \in Doc |-> 0]
      /\ body = Body("idle", 0) /\ fetches = {}
      /\ seen = [d \in Doc |-> 0]
  BY DEF ChatInit
<1>2. remote \in [Workspace -> [Doc -> {0, 1}]]
  <2>1. remote = [w \in Workspace |-> [d \in Doc |->
          IF \E s \in Session : home[s] = w /\ log[s] # <<>> /\ log[s][1].name.short = d THEN 1 ELSE 0]]
    BY DEF ChatInit
  <2> QED
    BY <2>1
<1>3. StateShape
  BY <1>1, ChatBoundsAssumption DEF StateShape
<1>4. LogShape
  <2>1. \A s \in Session : log[s] \in Seq(Blocks) /\ Transcript(log[s]) /\ Len(log[s]) \in {0, 2}
    BY <1>1, PastFits
  <2>2. log \in [Session -> Seq(Blocks)]
    BY <1>1, <2>1
  <2>3. \A s \in Session :
          /\ Len(log[s]) + (IF running[s] = "none" THEN 0 ELSE 1) <= 2 + 2 * calls
          /\ born[s] \in 0..Len(log[s]) /\ running[s] = "none"
    <3> TAKE s \in Session
    <3>1. PICK L \in Nat : L = Len(log[s]) /\ (L = 0 \/ L = 2)
      BY <2>1
    <3>2. running[s] = "none" /\ born[s] = L /\ 2 * calls = 0
      BY <1>1, <3>1
    <3>3. (IF running[s] = "none" THEN 0 ELSE 1) = 0
      BY <3>2
    <3>4. L \in 0..L
      OBVIOUS
    <3>5. L <= 2
      <4>1. L = 0 \/ L = 2
        BY <3>1
      <4> QED
        BY <4>1
    <3>6. L + 0 <= 2 + 0
      BY <3>5
    <3> QED
      BY <3>1, <3>2, <3>3, <3>4, <3>6
  <2> QED
    BY <2>1, <2>2, <2>3 DEF LogShape
<1>5. MessageShape
  <2>1. \A s \in Session : SubSeq(log[s], FirstBlock(s), Len(log[s])) = <<>>
    <3> TAKE s \in Session
    <3>1. PICK l \in Seq(Blocks) : l = log[s]
      BY <1>1, PastFits
    <3>2. FirstBlock(s) = Len(l) + 1
      BY <1>1, <3>1 DEF FirstBlock
    <3> QED
      BY <3>1, <3>2
  <2> QED
    BY <1>1, <2>1 DEF MessageShape
<1>6. RemoteShape
  <2>1. Unwritten = {}
    BY <1>1 DEF Unwritten
  <2>2. IsFiniteSet(Unwritten) /\ Cardinality(Unwritten) = 0
    BY <2>1, FS_EmptySet
  <2>3. remote \in [Workspace -> [Doc -> Nat]]
    BY <1>2
  <2>4. \A w \in Workspace, d \in Doc : remote[w][d] + Cardinality(Unwritten) <= 1 + calls
    <3> TAKE w \in Workspace, d \in Doc
    <3>1. remote[w][d] \in {0, 1} /\ calls = 0
      BY <1>1, <1>2
    <3> QED
      BY <3>1, <2>2
  <2> QED
    BY <2>2, <2>3, <2>4 DEF RemoteShape
<1>7. BaselineShape
  <2>1. \A d \in Doc : Keys[d] = 0
    <3> TAKE d \in Doc
    <3>1. msgs[view] = <<>> /\ <<>> \in Seq(Blocks)
      BY <1>1
    <3>2. countToolUses(<<>>, {d}) \in 0..Len(<<>>)
      BY <3>1, CountIs
    <3>3. countToolUses(<<>>, {d}) = 0
      BY <3>2
    <3> QED
      BY <3>1, <3>3 DEF Keys
  <2> QED
    BY <1>1, <2>1 DEF BaselineShape, Keys
<1>8. PanelShape
  <2>1. home[view] \in Workspace
    BY <1>1
  <2> QED
    BY <1>1, <2>1, PanelsFit DEF PanelShape, PanelFits
<1>9. ViewerShape
  <2>1. home[view] \in Workspace
    BY <1>1
  <2>2. \A d \in Doc : seen[d] <= remote[home[view]][d]
    <3> TAKE d \in Doc
    <3>1. seen[d] = 0 /\ remote[home[view]][d] \in {0, 1}
      BY <1>1, <1>2, <2>1
    <3> QED
      BY <3>1
  <2> QED
    BY <1>1, <2>2 DEF ViewerShape, PageIsFresh, Body
<1> QED
  BY <1>3, <1>4, <1>5, <1>6, <1>7, <1>8, <1>9 DEF IInv

\* Every step keeps the invariant.
LEMMA StepKeeps == IInv /\ [ChatNext]_vars => IInv'
<1> SUFFICES ASSUME IInv, [ChatNext]_vars PROVE IInv'
  OBVIOUS
<1>1. ASSUME NEW s \in Session, NEW n \in Doc \cup {"ExitPlanMode"}, Call(s, n) PROVE IInv'
  BY <1>1, CallKeeps
<1>2. ASSUME NEW s \in Session, Commit(s) PROVE IInv'
  BY <1>2, CommitKeeps
<1>3. ASSUME NEW s \in Session, Return(s) PROVE IInv'
  BY <1>3, ReturnKeeps
<1>4. ASSUME NEW s \in Session, ChangeMode(s) \/ \E approve \in BOOLEAN : AnswerPlan(s, approve)
      PROVE  IInv'
  BY <1>4, PlanKeeps
<1>5. ASSUME NEW s \in Session, HistoryArrives(s) PROVE IInv'
  BY <1>5, HistoryKeeps
<1>6. ASSUME NEW s \in Session, PickSession(s) PROVE IInv'
  BY <1>6, PickSessionKeeps
<1>7. ASSUME NEW f \in fetches, Serve(f) \/ Answered(f) \/ Failed(f) PROVE IInv'
  BY <1>7, FetchKeeps
<1>8. CASE ListArrives
  BY <1>8, ListKeeps
<1>9. CASE \/ ClosePanel \/ Reload
           \/ \E d \in Doc : PickDoc(DocSlot(d, home[view]))
           \/ PickDoc(PlanSlot("manual"))
  BY <1>9, ClickKeeps
<1>10. CASE UNCHANGED vars
  <2>1. /\ UNCHANGED <<home, log, born, running, remote, mode, ask, calls, msgs, asked, view>>
        /\ UNCHANGED <<slot, baseline, body, fetches, seen>>
    BY <1>10 DEF vars, remoteVars
  <2>2. StateShape' /\ LogShape' /\ MessageShape' /\ RemoteShape'
    BY <2>1 DEF IInv, StateShape, LogShape, MessageShape, RemoteShape, Transcript, CallOf,
                FirstBlock, Unwritten
  <2>3. BaselineShape' /\ PanelShape' /\ ViewerShape'
    BY <2>1 DEF IInv, BaselineShape, Keys, PanelShape, ViewerShape, PageIsFresh
  <2> QED
    BY <2>2, <2>3 DEF IInv
<1> QED
  BY <1>1, <1>2, <1>3, <1>4, <1>5, <1>6, <1>7, <1>8, <1>9, <1>10 DEF ChatNext

\* The invariant of the view.
THEOREM ChatInvariant == ChatSpec => []IInv
BY InitFits, StepKeeps, PTL DEF ChatSpec

\* It has the type invariant in it: transcripts and versions are bounded by the calls.
LEMMA IInvTypes == IInv => ChatTypeOK
<1> SUFFICES ASSUME IInv PROVE ChatTypeOK
  OBVIOUS
<1>1. StateShape /\ LogShape /\ MessageShape /\ RemoteShape
  BY DEF IInv
<1>2. calls \in Nat /\ MaxCall \in Nat /\ calls <= MaxCall /\ view \in Session
  BY <1>1, ChatBoundsAssumption DEF StateShape
<1>3. \A s \in Session : log[s] \in Seq(Blocks) /\ msgs[s] \in Seq(Blocks)
  BY <1>1, MessagesAre
<1>4. remote \in [Workspace -> [Doc -> 0..(2 * MaxBlock)]]
  <2>1. \A w \in Workspace, d \in Doc : remote[w][d] \in 0..(2 * MaxBlock)
    <3> TAKE w \in Workspace, d \in Doc
    <3>1. remote[w][d] \in Nat /\ remote[w][d] + Cardinality(Unwritten) <= 1 + calls
      BY <1>1 DEF RemoteShape
    <3>2. Cardinality(Unwritten) \in Nat
      BY <1>1, FS_CardinalityType DEF RemoteShape
    <3>3. remote[w][d] <= 1 + MaxCall
      BY <3>1, <3>2, <1>2
    <3>4. 1 + MaxCall <= 2 * MaxBlock /\ 2 * MaxBlock \in Nat
      BY <1>2 DEF MaxBlock
    <3> QED
      BY <3>1, <3>3, <3>4, <1>2
  <2>2. remote \in [Workspace -> [Doc -> Nat]]
    BY <1>1 DEF RemoteShape
  <2> QED
    BY <2>1, <2>2
<1>5. baseline \in [Doc -> 0..MaxBlock]
  <2>1. PICK L \in Nat : L = Len(log[view]) /\ L <= 2 + 2 * calls
    <3>1. Len(log[view]) + (IF running[view] = "none" THEN 0 ELSE 1) <= 2 + 2 * calls
      BY <1>1, <1>2 DEF LogShape
    <3>2. PICK n \in Nat : n = Len(log[view])
      BY <1>2, <1>3
    <3>3. PICK r \in 0..1 : r = IF running[view] = "none" THEN 0 ELSE 1
      OBVIOUS
    <3>4. n + r <= 2 + 2 * calls
      BY <3>1, <3>2, <3>3
    <3>5. n <= 2 + 2 * calls
      <4>1. r >= 0 /\ r \in Int
        BY <3>3
      <4>2. PICK c \in Int : c = 2 + 2 * calls
        BY <1>2
      <4>3. n + r <= c
        BY <3>4, <4>2
      <4> QED
        BY <4>1, <4>2, <4>3
    <3> QED
      BY <3>2, <3>5
  <2>2. Keys \in [Doc -> Nat] /\ \A d \in Doc : Keys[d] <= L
    BY <1>1, <2>1, KeysAre
  <2>3. \A d \in Doc : Keys[d] \in 0..MaxBlock
    <3> TAKE d \in Doc
    <3>1. Keys[d] \in Nat /\ Keys[d] <= L
      BY <2>2
    <3> QED
      BY <3>1, <2>1, <1>2 DEF MaxBlock
  <2> QED
    BY <2>2, <2>3 DEF IInv, BaselineShape
<1>6. /\ slot \in Slots /\ (slot.kind \in Doc => slot.of = home[view])
      /\ body.kind \in {"idle", "loading", "ok", "error"}
      /\ \A f \in fetches : f.doc = slot.kind /\ f.doc \in Doc /\ f.at \in {"sent", "body", "meta"}
  <2>1. /\ body \in BodyOf /\ FetchesFit(fetches, slot.kind, home[view], seen)
    BY ViewerShapeIs DEF IInv
  <2>2. \A f \in FetchOf : f.doc \in Doc /\ f.at \in {"sent", "body", "meta"}
    BY DEF FetchOf
  <2>3. \A f \in fetches : f \in FetchOf /\ f.doc = slot.kind
    BY <2>1 DEF FetchesFit
  <2> QED
    BY <2>1, <2>2, <2>3 DEF IInv, PanelShape, BodyOf
<1> QED
  BY <1>1, <1>3, <1>4, <1>5, <1>6 DEF ChatTypeOK, StateShape

\* A document in the panel is one of the workspace on screen, and it is what is being
\* fetched, across every switch of session and workspace.
THEOREM ChatTypesHold == ChatSpec => []ChatTypeOK
BY ChatInvariant, IInvTypes, PTL

\* No page is shown as it was before a write whose result the session on screen has:
\* a fetch that is superseded is aborted, and one that is not was served after it.
THEOREM PagesAreFresh == ChatSpec => []PageIsFresh
<1>1. IInv => PageIsFresh
  BY DEF IInv, ViewerShape
<1> QED
  BY <1>1, ChatInvariant, PTL

(* ------------------------- a write opens its document ------------------------- *)

\* The only step that brings a result to a transcript is its return.
LEMMA ResultIsReturn ==
  ASSUME IInv, ChatNext, NEW s \in Session, Len(log'[s]) > Len(log[s]),
         Last(log'[s]).type = "tool_result"
  PROVE  Return(s)
<1>1. log[s] \in Seq(Blocks) /\ DOMAIN log = Session
  BY DEF IInv, LogShape
<1>2. Len(log[s]) \in Nat
  BY <1>1
<1>3. log'[s] # log[s]
  BY <1>2
<1>4. ASSUME NEW t \in Session, NEW n, Call(t, n) PROVE FALSE
  <2>1. log' = [log EXCEPT ![t] = Append(@, Use(n, Len(log[t]) + 1))]
    BY <1>4 DEF Call, Block
  <2>2. t = s
    BY <2>1, <1>1, <1>3
  <2> DEFINE b == Use(n, Len(log[t]) + 1)
  <2>3. log'[s] = Append(log[s], b)
    BY <2>1, <2>2, <1>1
  <2>4. b.type = "tool_use"
    BY DEF Use
  <2> HIDE DEF b
  <2>5. Last(log'[s]) = b
    BY <2>3, <1>1 DEF Last
  <2> QED
    BY <2>4, <2>5
<1>5. ASSUME NEW t \in Session, Return(t) PROVE t = s
  BY <1>1, <1>3, <1>5 DEF Return, Block
<1>6. ASSUME log' = log PROVE FALSE
  BY <1>3, <1>6
<1>7. ASSUME NEW t \in Session,
             \/ Commit(t) \/ ChangeMode(t) \/ HistoryArrives(t) \/ PickSession(t)
             \/ \E approve \in BOOLEAN : AnswerPlan(t, approve)
      PROVE  FALSE
  BY <1>6, <1>7 DEF Commit, ChangeMode, HistoryArrives, PickSession, AnswerPlan, unmoved, remoteVars
<1>8. ASSUME NEW f, Serve(f) \/ Answered(f) \/ Failed(f) PROVE FALSE
  BY <1>6, <1>8 DEF Serve, Answered, Failed, remoteVars
<1>9. ASSUME \/ ListArrives \/ ClosePanel \/ Reload
             \/ \E d \in Doc : PickDoc(DocSlot(d, home[view])) \/ PickDoc(PlanSlot("manual"))
      PROVE  FALSE
  BY <1>6, <1>9 DEF ListArrives, ClosePanel, Reload, PickDoc, remoteVars
<1>10. ASSUME PickDoc(PlanSlot("manual")) PROVE FALSE
  BY <1>6, <1>10 DEF PickDoc, remoteVars
<1> QED
  BY <1>4, <1>5, <1>7, <1>8, <1>9, <1>10 DEF ChatNext

\* Its count, and no other, rises above the baseline.
LEMMA ReturnOpens ==
  ASSUME IInv, NEW s \in Session, NEW d \in Doc, Return(s), view = s,
         CallOf(s).name.short = d, ~Forced(slot)
  PROVE  slot' = DocSlot(d, home[s])
<1>1. Effects(slot, FALSE) /\ UNCHANGED <<home, view, mode, ask>>
  BY DEF Return, Render, unmoved
<1>2. home[s] \in Workspace /\ StateShape /\ LogShape /\ MessageShape
  BY DEF IInv, StateShape
<1>3. \A e \in Doc : Keys'[e] = Keys[e] + (IF e = d THEN 1 ELSE 0)
  BY ReturnCounts
<1>4. Keys \in [Doc -> Nat]
  BY <1>2, KeysAre
<1>5. Bumped = {d}
  <2>1. Keys' # Keys
    BY <1>3, <1>4
  <2>2. Baseline = Keys
    BY <1>1 DEF Baseline, IInv, BaselineShape
  <2>3. \A e \in Doc : Keys'[e] > Keys[e] <=> e = d
    BY <1>3, <1>4
  <2> QED
    BY <2>1, <2>2, <2>3 DEF Bumped
<1>6. planActive' = planActive
  <2>1. msgs'[s] = Append(msgs[s], Result(Len(log[s])))
    BY ReturnArrives
  <2>2. PICK ms \in Seq(Blocks) : ms = msgs[s]
    BY <1>2, MessagesAre
  <2>3. PICK b : b = Result(Len(log[s]))
    OBVIOUS
  <2>4. b.type = "tool_result"
    BY <2>3 DEF Result
  <2>5. /\ DOMAIN Append(ms, b) = DOMAIN ms \cup {Len(ms) + 1}
        /\ Append(ms, b)[Len(ms) + 1] = b
        /\ \A i \in DOMAIN ms : Append(ms, b)[i] = ms[i]
    <3>1. ms \in Seq(Blocks \cup {b})
      OBVIOUS
    <3> QED
      BY <3>1
  <2>6. derivePlan(Append(ms, b)) = derivePlan(ms)
    BY <2>4, <2>5 DEF derivePlan
  <2>7. derivePlan(msgs[view])' = derivePlan(msgs[view])
    <3>1. derivePlan(msgs[view])' = derivePlan(msgs'[view'])
      BY DEF derivePlan
    <3> QED
      BY <3>1, <2>1, <2>2, <2>3, <2>6, <1>1
  <2> QED
    BY <2>7, <1>1 DEF planActive
<1>7. BeforeWrites(slot) = slot
  BY <1>1, <1>6 DEF BeforeWrites
<1>8. slot' = Written(slot, {d}, home[s])
  BY <1>1, <1>5, <1>7, EffectsAre
<1> QED
  BY <1>2, <1>8, OneWritten

\* A write that finishes in the session on screen opens its document, unless the plan
\* is forced.
THEOREM WritesOpen == ChatSpec => WriteOpensDocument
<1> DEFINE A == \A s \in Session, d \in Doc :
                  /\ view = s /\ view' = s
                  /\ Len(log'[s]) > Len(log[s])
                  /\ Last(log'[s]).type = "tool_result"
                  /\ CallOf(s).name.short = d
                  /\ ~Forced(slot)
                  => slot' = DocSlot(d, home[s])
<1>1. IInv /\ [ChatNext]_vars => [A]_vars
  BY ResultIsReturn, ReturnOpens
<1> QED
  BY <1>1, ChatInvariant, PTL DEF ChatSpec, WriteOpensDocument
=============================================================================
