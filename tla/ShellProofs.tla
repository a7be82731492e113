----------------------------- MODULE ShellProofs -----------------------------
(***************************************************************************)
(* Theorems about AppShell, for any number of operations, of this tab and  *)
(* of other browsers, of lost requests and of clicks, and any workspaces   *)
(* to start with: every change of the store is fetched, a button comes     *)
(* back exactly when its creation settles, and a creation ends with what   *)
(* it created on screen.  The inductive invariant says of the store that   *)
(* it holds only ids that were given, of an operation what it still relies *)
(* on in the store, and of the last change where the GET is that will      *)
(* bring it.  What an id or a version is bounded by takes a count of the   *)
(* operations that have not begun and of those that are not handled.       *)
(***************************************************************************)
EXTENDS AppShell, SequenceTheorems, FiniteSetTheorems, NaturalsInduction,
        WellFoundedInduction, TLAPS

(* ------------------------- the inductive invariant ------------------------- *)

\* The kinds of operations, and where one is.
Kinds == {"create", "chat", "spawn", "rename", "archive", "restore", "remove", "deleteSession"}
Places == {"sent", "begun", "answered", "refreshed", "repointing", "over"}

\* An operation; a workspace; a list of workspaces.
OpSet == [kind : Kinds, ws : Nat, sess : Nat, mine : BOOLEAN, at : Places, ver : Nat, had : Nat]
WsSet == [archived : BOOLEAN, session_ids : Seq(Nat)]
ListSet == UNION {[D -> WsSet] : D \in SUBSET WsIds}

\* The ids in a version of the store are ids that were given.
ListFits(l, m, n) ==
  \A w \in DOMAIN l : w < m /\ \A k \in DOMAIN l[w].session_ids : l[w].session_ids[k] \in 1..(n - 1)

\* Session s of workspace w is on the list l.
On(l, w, s) == w \in DOMAIN l /\ s \in ToSet(l[w].session_ids)

\* The versions of the store are lists.
StoreShape ==
  /\ store \in Seq(ListSet) /\ Len(store) > 0
  /\ nextWs \in Nat \ {0} /\ nextSess \in Nat \ {0}
  /\ \A v \in DOMAIN store : ListFits(store[v], nextWs, nextSess)

\* Where an operation can be.  The list it was started from is there; so is the version
\* its refresh brings, and its session is on that one if a later version still has it.
OpFits(o, st, m, n) ==
  /\ o.ws < m /\ o.sess < n
  /\ o.at \in {"answered", "refreshed", "repointing"} => o.mine
  /\ o.at = "repointing" => o.kind = "deleteSession"
  /\ o.mine /\ o.kind = "deleteSession" /\ ~Over(o) =>
       o.had \in DOMAIN st /\ o.ws \in DOMAIN st[o.had]
  /\ o.at = "refreshed" =>
       /\ o.ver \in DOMAIN st
       /\ \A v \in o.ver..Len(st) : On(st[v], o.ws, o.sess) => On(st[o.ver], o.ws, o.sess)

\* Every operation fits the store.
OpShape ==
  ops \in Seq(OpSet) /\ \A i \in DOMAIN ops : OpFits(ops[i], store, nextWs, nextSess)

\* What is on screen has an id that was given.
ScreenShape ==
  /\ shown \in 0..Len(store) /\ hydrated \in BOOLEAN
  /\ activeWs \in 0..(nextWs - 1) /\ activeBy \in [WsIds -> 0..(nextSess - 1)]

\* The buttons that are disabled are those of the creations under way.
Creation(o) == o.mine /\ o.kind \in Creates /\ ~Over(o)

ButtonShape ==
  /\ creating \subseteq Creates
  /\ \A i \in DOMAIN ops : Creation(ops[i]) => ops[i].kind \in creating
  /\ \A k \in creating : \E i \in DOMAIN ops : Creation(ops[i]) /\ ops[i].kind = k
  /\ \A i, j \in DOMAIN ops :
       Creation(ops[i]) /\ Creation(ops[j]) /\ ops[i].kind = ops[j].kind => i = j

\* Every operation changes the store at most twice, and gives at most one id of a
\* workspace.
Sent == {i \in DOMAIN ops : ops[i].at = "sent"}
Unhandled == {i \in DOMAIN ops : ops[i].at \in {"sent", "begun"}}

CountShape ==
  /\ Len(ops) <= MaxOp
  /\ Len(store) + Cardinality(Sent) + Cardinality(Unhandled) <= 1 + 2 * Len(ops)
  /\ nextWs + Cardinality(Sent) <= Len(Past) + 1 + Len(ops)

\* The last change of the store has been fetched, is on its way, will be asked for,
\* or is the first step of a creation that is not done.
FetchShape ==
  /\ pending \in Nat /\ missed \in Nat /\ newest \in 0..Len(store)
  /\ refreshes \in [1..MaxVersion -> Nat]
  /\ \A v \in 1..MaxVersion : refreshes[v] > 0 => v <= Len(store)
  /\ missed = 0 =>
       \/ newest = Len(store) \/ pending > 0 \/ refreshes[Len(store)] > 0
       \/ \E i \in DOMAIN ops : ops[i].kind \in Creates /\ ops[i].at = "begun"

\* The inductive invariant.
IInv == StoreShape /\ OpShape /\ ScreenShape /\ ButtonShape /\ CountShape /\ FetchShape

(* --------------------------- lists and filter() --------------------------- *)

\* A set of numbers that is not empty has a least element.
LEMMA LeastNat ==
  ASSUME NEW S \in SUBSET Nat, S # {}
  PROVE  \E n \in S : \A m \in S : n <= m
<1>1. PICK n \in S : \A m \in S : ~ (<<m, n>> \in OpToRel(<, Nat))
  BY NatLessThanWellFounded, WFMin
<1>2. \A m \in S : ~ (m < n)
  BY <1>1 DEF OpToRel
<1> QED
  BY <1>2

\* The newest of a list is on it.
LEMMA FirstIs ==
  ASSUME NEW l, NEW n \in Nat, DOMAIN l \subseteq 1..n, DOMAIN l # {}
  PROVE  First(l) \in DOMAIN l
<1> DEFINE S == {k \in Nat : n - k \in DOMAIN l}
<1>1. PICK w \in DOMAIN l : w \in 1..n
  OBVIOUS
<1>2. n - w \in S
  <2>1. n - w \in Nat /\ n - (n - w) = w
    BY <1>1
  <2> QED
    BY <2>1
<1>3. PICK k \in S : \A m \in S : k <= m
  BY LeastNat, <1>2
<1>4. n - k \in DOMAIN l /\ \A y \in DOMAIN l : n - k >= y
  <2>1. ASSUME NEW y \in DOMAIN l PROVE n - k >= y
    <3>1. y \in 1..n /\ n - y \in Nat /\ n - (n - y) = y
      OBVIOUS
    <3>2. n - y \in S
      BY <3>1
    <3> QED
      BY <1>3, <3>1, <3>2
  <2> QED
    BY <1>3, <2>1
<1> QED
  BY <1>4, Zenon DEF First, Max

\* f is what filter() computes of the first n sessions.
OthersUpTo(t, s, n, f) ==
  f = [m \in 0..n |-> IF m = 0 THEN <<>>
                      ELSE IF t[m] # s THEN Append(f[m - 1], t[m]) ELSE f[m - 1]]

\* The recursion of filter() has a solution.
LEMMA OthersExists ==
  ASSUME NEW t, NEW s, NEW n \in Nat
  PROVE  \E f : OthersUpTo(t, s, n, f)
<1> DEFINE Bad == {i \in Nat : ~ \E f : OthersUpTo(t, s, i, f)}
<1> SUFFICES ASSUME Bad # {} PROVE FALSE
  OBVIOUS
<1>1. PICK i \in Bad : \A j \in Bad : i <= j
  BY LeastNat
<1>2. CASE i = 0
  <2> DEFINE f == [m \in 0..0 |-> <<>>]
  <2>1. OthersUpTo(t, s, 0, f)
    BY DEF OthersUpTo
  <2> QED
    BY <1>1, <1>2, <2>1
<1>3. CASE i # 0
  <2>1. i - 1 \in Nat /\ i - 1 \notin Bad
    BY <1>1, <1>3
  <2>2. PICK f : OthersUpTo(t, s, i - 1, f)
    BY <2>1
  <2> DEFINE last == IF t[i] # s THEN Append(f[i - 1], t[i]) ELSE f[i - 1]
             g == [m \in 0..i |-> IF m = i THEN last ELSE f[m]]
  <2>3. OthersUpTo(t, s, i, g)
    <3>1. ASSUME NEW m \in 0..i
          PROVE  g[m] = IF m = 0 THEN <<>>
                        ELSE IF t[m] # s THEN Append(g[m - 1], t[m]) ELSE g[m - 1]
      <4>1. CASE m = i
        <5>1. g[m] = last /\ i - 1 \in 0..i /\ i - 1 # i /\ g[i - 1] = f[i - 1]
          BY <4>1, <2>1
        <5> QED
          BY <5>1, <4>1, <1>3
      <4>2. CASE m = 0
        <5>1. g[0] = f[0] /\ 0 \in 0..(i - 1)
          BY <4>2, <1>3, <2>1
        <5>2. f[0] = <<>>
          BY <5>1, <2>2 DEF OthersUpTo
        <5> QED
          BY <5>1, <5>2, <4>2
      <4>3. CASE m # i /\ m # 0
        <5>1. m \in 0..(i - 1) /\ m - 1 \in 0..i /\ m - 1 # i
          BY <4>3
        <5>2. g[m] = f[m] /\ g[m - 1] = f[m - 1]
          BY <5>1, <4>3
        <5>3. f[m] = IF m = 0 THEN <<>>
                     ELSE IF t[m] # s THEN Append(f[m - 1], t[m]) ELSE f[m - 1]
          BY <5>1, <2>2 DEF OthersUpTo
        <5> QED
          BY <5>2, <5>3
      <4> QED
        BY <4>1, <4>2, <4>3
    <3>2. g = [m \in 0..i |-> g[m]]
      OBVIOUS
    <3> HIDE DEF last, g
    <3> QED
      BY <3>1, <3>2 DEF OthersUpTo
  <2> QED
    BY <1>1, <2>3
<1> QED
  BY <1>2, <1>3

\* What filter() leaves was there before.
LEMMA OthersAre ==
  ASSUME NEW t \in Seq(Nat), NEW s
  PROVE  Others(t, s) \in Seq(Nat) /\ ToSet(Others(t, s)) \subseteq ToSet(t)
<1>1. Len(t) \in Nat /\ DOMAIN t = 1..Len(t)
  OBVIOUS
<1> DEFINE F == CHOOSE f : OthersUpTo(t, s, Len(t), f)
<1>2. OthersUpTo(t, s, Len(t), F)
  BY OthersExists, <1>1, Zenon
<1>3. Others(t, s) = F[Len(t)]
  BY DEF Others, OthersUpTo
<1> HIDE DEF F
<1>4. \A m \in 0..Len(t) :
        F[m] = IF m = 0 THEN <<>> ELSE IF t[m] # s THEN Append(F[m - 1], t[m]) ELSE F[m - 1]
  BY <1>2 DEF OthersUpTo
<1> DEFINE Good(n) == F[n] \in Seq(ToSet(t))
           Bad == {n \in 0..Len(t) : ~Good(n)}
<1>5. Bad = {}
  <2> SUFFICES ASSUME Bad # {} PROVE FALSE
    OBVIOUS
  <2>1. PICK n \in Bad : \A m \in Bad : n <= m
    <3>1. Bad \in SUBSET Nat
      BY <1>1
    <3> QED
      BY LeastNat, <3>1, Zenon
  <2>2. CASE n = 0
    <3>1. F[0] = <<>>
      BY <1>1, <1>4
    <3>2. <<>> \in Seq(ToSet(t))
      OBVIOUS
    <3> QED
      BY <2>1, <2>2, <3>1, <3>2
  <2>3. CASE n # 0
    <3>1. n - 1 \in 0..Len(t) /\ n - 1 \notin Bad /\ n \in 1..Len(t)
      BY <1>1, <2>1, <2>3
    <3>2. PICK p \in Seq(ToSet(t)) : p = F[n - 1]
      BY <3>1
    <3>3. PICK x \in ToSet(t) : x = t[n]
      BY <1>1, <3>1 DEF ToSet
    <3>4. F[n] = IF t[n] # s THEN Append(p, x) ELSE p
      BY <1>4, <2>1, <2>3, <3>2, <3>3
    <3>5. Append(p, x) \in Seq(ToSet(t))
      BY AppendProperties
    <3> QED
      BY <2>1, <3>2, <3>4, <3>5
  <2> QED
    BY <2>2, <2>3
<1>6. F[Len(t)] \in Seq(ToSet(t))
  BY <1>1, <1>5
<1>7. PICK u \in Seq(ToSet(t)) : u = Others(t, s)
  BY <1>3, <1>6
<1>8. ToSet(t) \subseteq Nat
  BY <1>1 DEF ToSet
<1>9. \A k \in DOMAIN u : u[k] \in ToSet(t)
  OBVIOUS
<1>10. u \in Seq(Nat)
  BY <1>8, SeqMonotonic
<1> QED
  BY <1>7, <1>9, <1>10 DEF ToSet

\* A list is a function on ids of workspaces.
LEMMA ListIs ==
  ASSUME NEW l \in ListSet
  PROVE  DOMAIN l \subseteq WsIds /\ \A w \in DOMAIN l : l[w] \in WsSet
<1>1. PICK D \in SUBSET WsIds : l \in [D -> WsSet]
  BY Zenon DEF ListSet
<1>2. PICK W : W = WsSet
  OBVIOUS
<1> QED
  BY <1>1, <1>2

\* and a function on such ids is one.
LEMMA IsList ==
  ASSUME NEW D \in SUBSET WsIds, NEW f, f = [w \in D |-> f[w]], \A w \in D : f[w] \in WsSet
  PROVE  f \in ListSet /\ DOMAIN f = D
<1>1. PICK W : W = WsSet
  OBVIOUS
<1>2. f \in [D -> W]
  BY <1>1
<1>3. f \in [D -> WsSet]
  BY <1>1, <1>2
<1> QED
  BY <1>2, <1>3, Zenon DEF ListSet

\* A list with one workspace put on it,
LEMMA PutList ==
  ASSUME NEW l \in ListSet, NEW w \in WsIds, NEW x \in WsSet,
         NEW f, f = Put(l, w, x)
  PROVE  /\ f \in ListSet /\ DOMAIN f = DOMAIN l \cup {w}
         /\ f[w] = x /\ \A y \in DOMAIN l : y # w => f[y] = l[y]
         /\ w \in DOMAIN l => [l EXCEPT ![w] = x] = f
<1>1. DOMAIN l \subseteq WsIds /\ \A y \in DOMAIN l : l[y] \in WsSet
  BY ListIs
<1>2. PICK D : D = DOMAIN l \cup {w}
  OBVIOUS
<1>4. /\ f = [y \in D |-> f[y]] /\ DOMAIN f = D /\ f[w] = x
      /\ \A y \in DOMAIN l : y # w => f[y] = l[y]
  BY <1>2 DEF Put
<1>5. f \in ListSet
  <2>1. D \in SUBSET WsIds /\ \A y \in D : f[y] \in WsSet
    BY <1>1, <1>2, <1>4
  <2> QED
    BY <1>4, <2>1, IsList
<1>6. w \in DOMAIN l => [l EXCEPT ![w] = x] = f
  <2>1. PICK E \in SUBSET WsIds : l \in [E -> WsSet]
    BY Zenon DEF ListSet
  <2>2. PICK W : W = WsSet
    OBVIOUS
  <2> QED
    BY <2>1, <2>2 DEF Put
<1> QED
  BY <1>2, <1>4, <1>5, <1>6

\* and one without it.
LEMMA WithoutList ==
  ASSUME NEW l \in ListSet, NEW w
  PROVE  /\ Without(l, w) \in ListSet /\ DOMAIN Without(l, w) = DOMAIN l \ {w}
         /\ \A y \in DOMAIN l : y # w => Without(l, w)[y] = l[y]
<1>1. DOMAIN l \subseteq WsIds /\ \A y \in DOMAIN l : l[y] \in WsSet
  BY ListIs
<1>2. PICK D : D = DOMAIN l \ {w}
  OBVIOUS
<1>3. PICK f : f = Without(l, w)
  OBVIOUS
<1>4. f = [y \in D |-> f[y]] /\ DOMAIN f = D /\ \A y \in D : f[y] = l[y]
  BY <1>2, <1>3 DEF Without
<1>5. f \in ListSet
  <2>1. D \in SUBSET WsIds /\ \A y \in D : f[y] \in WsSet
    BY <1>1, <1>2, <1>4
  <2> QED
    BY <1>4, <2>1, IsList
<1> QED
  BY <1>2, <1>3, <1>4, <1>5

(* ---------------- the store grows and one operation moves ----------------- *)

\* The store stays or gets one more version, with no session but a new one that
\* was not there the version before.
Grows ==
  /\ nextWs' >= nextWs /\ nextSess' >= nextSess
  /\ \A v \in DOMAIN store : v \in DOMAIN store' /\ store'[v] = store[v]
  /\ Len(store') = Len(store) \/
       /\ Len(store') = Len(store) + 1
       /\ \A w, s : s < nextSess /\ On(store'[Len(store')], w, s) => On(store[Len(store)], w, s)

\* The numbers of the store.
LEMMA StoreNumbers ==
  ASSUME StoreShape
  PROVE  /\ nextWs \in Nat /\ nextWs > 0 /\ nextSess \in Nat /\ nextSess > 0
         /\ Len(store) \in Nat /\ Len(store) > 0 /\ DOMAIN store = 1..Len(store)
<1>1. nextWs \in Nat /\ nextWs > 0
  BY DEF StoreShape
<1>2. nextSess \in Nat /\ nextSess > 0
  BY DEF StoreShape
<1>3. PICK L : L = ListSet
  OBVIOUS
<1>4. store \in Seq(L) /\ Len(store) > 0
  BY <1>3, Zenon DEF StoreShape
<1>5. Len(store) \in Nat /\ DOMAIN store = 1..Len(store)
  BY <1>4
<1> QED
  BY <1>1, <1>2, <1>4, <1>5

\* What fits the store fits the store that has grown.
LEMMA OpKeeps ==
  ASSUME StoreShape, StoreShape', Grows, NEW o \in OpSet, OpFits(o, store, nextWs, nextSess)
  PROVE  OpFits(o, store', nextWs', nextSess')
<1>1. /\ Len(store) \in Nat /\ DOMAIN store = 1..Len(store)
      /\ Len(store') \in Nat /\ DOMAIN store' = 1..Len(store')
      /\ nextWs \in Nat /\ nextWs' \in Nat /\ nextSess \in Nat /\ nextSess' \in Nat
  BY DEF StoreShape
<1>2. o.ws < nextWs' /\ o.sess < nextSess' /\ o.ws \in Nat /\ o.sess \in Nat /\ o.ver \in Nat
  <2>1. o.ws < nextWs /\ o.sess < nextSess /\ o.ws \in Nat /\ o.sess \in Nat /\ o.ver \in Nat
    BY DEF OpFits, OpSet
  <2>2. nextWs' >= nextWs /\ nextSess' >= nextSess
    BY DEF Grows
  <2> QED
    BY <1>1, <2>1, <2>2
<1>3. ASSUME o.at = "refreshed"
      PROVE  /\ o.ver \in DOMAIN store'
             /\ \A v \in o.ver..Len(store') : On(store'[v], o.ws, o.sess) => On(store'[o.ver], o.ws, o.sess)
  <2>1. /\ o.ver \in DOMAIN store /\ store'[o.ver] = store[o.ver] /\ o.ver \in DOMAIN store'
        /\ \A v \in o.ver..Len(store) : On(store[v], o.ws, o.sess) => On(store[o.ver], o.ws, o.sess)
    BY <1>3 DEF OpFits, Grows
  <2>2. ASSUME NEW v \in o.ver..Len(store'), On(store'[v], o.ws, o.sess)
        PROVE  On(store'[o.ver], o.ws, o.sess)
    <3>1. CASE v \in 1..Len(store)
      <4>1. store'[v] = store[v] /\ v \in o.ver..Len(store)
        <5>1. v \in o.ver..Len(store)
          BY <1>1, <1>2, <2>2, <3>1
        <5> QED
          BY <1>1, <3>1, <5>1 DEF Grows
      <4> QED
        BY <2>1, <2>2, <4>1
    <3>2. CASE v \notin 1..Len(store)
      <4>1. Len(store') = Len(store) + 1 /\ v = Len(store')
        <5>1. v \in 1..Len(store')
          BY <1>1, <1>2, <2>1, <2>2
        <5>2. Len(store') = Len(store) \/ Len(store') = Len(store) + 1
          BY DEF Grows
        <5>3. PICK a \in Nat, b \in Nat : a = Len(store) /\ b = Len(store')
          BY <1>1
        <5>4. v \in 1..b /\ v \notin 1..a /\ (b = a \/ b = a + 1)
          BY <3>2, <5>1, <5>2, <5>3
        <5>5. b = a + 1 /\ v = b
          BY <5>4
        <5> QED
          BY <5>3, <5>5
      <4>2. On(store[Len(store)], o.ws, o.sess)
        <5>2. On(store'[Len(store')], o.ws, o.sess)
          BY <2>2, <4>1
        <5>3. o.sess < nextSess
          BY DEF OpFits
        <5>4. Len(store') # Len(store)
          <6>1. PICK a \in Nat, b \in Nat : a = Len(store) /\ b = Len(store') /\ b = a + 1
            BY <1>1, <4>1
          <6>2. a # b
            BY <6>1
          <6> QED
            BY <6>1, <6>2
        <5>1. On(store'[Len(store')], o.ws, o.sess) /\ o.sess < nextSess /\ Len(store') # Len(store)
          BY <5>2, <5>3, <5>4
        <5> QED
          BY <5>1 DEF Grows
      <4>3. Len(store) \in o.ver..Len(store)
        BY <1>1, <2>1
      <4> QED
        BY <2>1, <4>2, <4>3
    <3> QED
      BY <3>1, <3>2
  <2> QED
    BY <2>1, <2>2
<1>4. o.mine /\ o.kind = "deleteSession" /\ ~Over(o) =>
        o.had \in DOMAIN store' /\ o.ws \in DOMAIN store'[o.had]
  BY DEF OpFits, Grows
<1>5. /\ o.at \in {"answered", "refreshed", "repointing"} => o.mine
      /\ o.at = "repointing" => o.kind = "deleteSession"
  BY DEF OpFits
<1> QED
  BY <1>2, <1>3, <1>4, <1>5 DEF OpFits

\* One operation moves.
OpMoves(i, o) ==
  /\ o \in OpSet /\ ops' = [ops EXCEPT ![i] = o]
  /\ o.kind = ops[i].kind /\ o.mine = ops[i].mine

\* The others stay where they are,
LEMMA MovedOps ==
  ASSUME OpShape, NEW i \in DOMAIN ops, NEW o, OpMoves(i, o)
  PROVE  /\ ops' \in Seq(OpSet) /\ Len(ops') = Len(ops) /\ DOMAIN ops' = DOMAIN ops
         /\ ops'[i] = o /\ \A j \in DOMAIN ops : j # i => ops'[j] = ops[j]
         /\ \A j \in DOMAIN ops : ops[j] \in OpSet
         /\ DOMAIN ops = 1..Len(ops) /\ Len(ops) \in Nat
<1>1. PICK S : S = OpSet
  OBVIOUS
<1>2. ops \in Seq(S) /\ o \in S /\ ops' = [ops EXCEPT ![i] = o]
  BY <1>1 DEF OpShape, OpMoves
<1> QED
  BY <1>1, <1>2

\* and every one of them fits the store that has grown.
LEMMA MovedShape ==
  ASSUME StoreShape, StoreShape', Grows, OpShape, NEW i \in DOMAIN ops, NEW o,
         OpMoves(i, o), OpFits(o, store', nextWs', nextSess')
  PROVE  OpShape'
<1>1. /\ ops' \in Seq(OpSet) /\ DOMAIN ops' = DOMAIN ops
      /\ ops'[i] = o /\ \A j \in DOMAIN ops : j # i => ops'[j] = ops[j]
      /\ \A j \in DOMAIN ops : ops[j] \in OpSet
  BY MovedOps
<1>2. ASSUME NEW j \in DOMAIN ops' PROVE OpFits(ops'[j], store', nextWs', nextSess')
  <2>1. CASE j = i
    <3>1. ops'[j] = o
      BY <2>1, <1>1
    <3> QED
      BY <3>1
  <2>2. CASE j # i
    <3>1. PICK p \in OpSet : p = ops[j] /\ OpFits(p, store, nextWs, nextSess)
      BY <1>1, <1>2 DEF OpShape
    <3>2. OpFits(p, store', nextWs', nextSess')
      BY <3>1, OpKeeps
    <3> QED
      BY <1>1, <1>2, <2>2, <3>1, <3>2
  <2> QED
    BY <2>1, <2>2
<1> QED
  BY <1>1, <1>2 DEF OpShape

\* The buttons while an operation is under way, and when it is over.
LEMMA MovedButtons ==
  ASSUME OpShape, ButtonShape, NEW i \in DOMAIN ops, NEW o, OpMoves(i, o),
         \/ ~Over(ops[i]) /\ ~Over(o) /\ creating' = creating
         \/ Over(o) /\ o.mine /\ ~Over(ops[i]) /\ creating' = creating \ {o.kind}
         \/ o.kind \notin Creates /\ creating' = creating \ {o.kind}
         \/ ~Creation(ops[i]) /\ ~Over(ops[i]) /\ creating' = creating
  PROVE  ButtonShape'
<1>1. /\ DOMAIN ops' = DOMAIN ops
      /\ ops'[i] = o /\ \A j \in DOMAIN ops : j # i => ops'[j] = ops[j]
      /\ o.kind = ops[i].kind /\ o.mine = ops[i].mine
  BY MovedOps DEF OpMoves
<1>2. CASE ~Over(ops[i]) /\ ~Over(o) /\ creating' = creating
  <2>1. \A j \in DOMAIN ops : Creation(ops'[j]) = Creation(ops[j]) /\ ops'[j].kind = ops[j].kind
    BY <1>1, <1>2 DEF Creation
  <2>2. ButtonShape
    OBVIOUS
  <2> QED
    BY <1>1, <1>2, <2>1, <2>2 DEF ButtonShape
<1>3. CASE Over(o) /\ o.mine /\ ~Over(ops[i]) /\ creating' = creating \ {o.kind}
  <2>1. ~Creation(ops'[i])
    BY <1>1, <1>3 DEF Creation
  <2>2. \A j \in DOMAIN ops : j # i => Creation(ops'[j]) = Creation(ops[j]) /\ ops'[j].kind = ops[j].kind
    BY <1>1
  <2>3. creating' \subseteq Creates
    BY <1>3 DEF ButtonShape
  <2>4. ASSUME NEW j \in DOMAIN ops, Creation(ops'[j]) PROVE ops'[j].kind \in creating'
    <3>1. j # i /\ Creation(ops[j]) /\ ops'[j].kind = ops[j].kind /\ ops[j].kind \in creating
      BY <2>1, <2>2, <2>4 DEF ButtonShape
    <3>2. ops[j].kind # o.kind
      <4> SUFFICES ASSUME ops[j].kind = o.kind PROVE FALSE
        OBVIOUS
      <4>1. Creation(ops[i])
        BY <1>1, <1>3, <3>1 DEF Creation
      <4> QED
        BY <1>1, <3>1, <4>1 DEF ButtonShape
    <3> QED
      BY <1>3, <3>1, <3>2
  <2>5. ASSUME NEW k \in creating' PROVE \E j \in DOMAIN ops : Creation(ops'[j]) /\ ops'[j].kind = k
    <3>1. k \in creating /\ k # o.kind
      BY <1>3, <2>5
    <3>2. PICK j \in DOMAIN ops : Creation(ops[j]) /\ ops[j].kind = k
      BY <3>1 DEF ButtonShape
    <3>3. j # i
      BY <1>1, <3>1, <3>2
    <3> QED
      BY <2>2, <3>2, <3>3
  <2>6. ASSUME NEW j \in DOMAIN ops, NEW h \in DOMAIN ops,
               Creation(ops'[j]), Creation(ops'[h]), ops'[j].kind = ops'[h].kind
        PROVE  j = h
    <3>1. j # i /\ h # i
      BY <2>1, <2>6
    <3>2. Creation(ops[j]) /\ Creation(ops[h]) /\ ops[j].kind = ops[h].kind
      BY <2>2, <2>6, <3>1
    <3> QED
      BY <3>2 DEF ButtonShape
  <2> QED
    BY <1>1, <2>3, <2>4, <2>5, <2>6 DEF ButtonShape
<1>4. CASE o.kind \notin Creates /\ creating' = creating \ {o.kind}
  <2>1. creating' = creating
    BY <1>4 DEF ButtonShape
  <2>2. \A j \in DOMAIN ops : Creation(ops'[j]) = Creation(ops[j]) /\ ops'[j].kind = ops[j].kind
    BY <1>1, <1>4 DEF Creation
  <2> QED
    BY <1>1, <2>1, <2>2 DEF ButtonShape
<1>5. CASE ~Creation(ops[i]) /\ ~Over(ops[i]) /\ creating' = creating
  <2>1. ~(o.mine /\ o.kind \in Creates)
    BY <1>1, <1>5 DEF Creation
  <2>2. \A j \in DOMAIN ops : Creation(ops'[j]) = Creation(ops[j]) /\ ops'[j].kind = ops[j].kind
    BY <1>1, <2>1 DEF Creation
  <2> QED
    BY <1>1, <1>5, <2>2 DEF ButtonShape
<1> QED
  BY <1>2, <1>3, <1>4, <1>5

\* The counts when one operation moves: the store grows by one version at a time,
\* and an id is given only when an operation begins.
LEMMA MovedCounts ==
  ASSUME StoreShape, StoreShape', Grows, OpShape, CountShape, NEW i \in DOMAIN ops, NEW o, OpMoves(i, o),
         o.at # "sent",
         nextWs' = nextWs \/ (nextWs' = nextWs + 1 /\ ops[i].at = "sent"),
         \/ ops[i].at = "sent"
         \/ (ops[i].at = "begun" /\ o.at # "begun")
         \/ (o.at # "begun" /\ Len(store') = Len(store))
  PROVE  CountShape'
<1>1. /\ DOMAIN ops' = DOMAIN ops /\ Len(ops') = Len(ops)
      /\ ops'[i] = o /\ \A j \in DOMAIN ops : j # i => ops'[j] = ops[j]
      /\ DOMAIN ops = 1..Len(ops) /\ Len(ops) \in Nat /\ ops[i] \in OpSet /\ o \in OpSet
  BY MovedOps DEF OpMoves
<1>2. IsFiniteSet(Sent) /\ IsFiniteSet(Unhandled)
  <2>1. IsFiniteSet(1..Len(ops))
    BY <1>1, FS_Interval
  <2>2. Sent \in SUBSET (1..Len(ops)) /\ Unhandled \in SUBSET (1..Len(ops))
    BY <1>1 DEF Sent, Unhandled
  <2> QED
    BY <2>1, <2>2, FS_Subset
<1>3. PICK n \in Nat, m \in Nat : n = Cardinality(Sent) /\ m = Cardinality(Unhandled)
  BY <1>2, FS_CardinalityType
<1>4. Sent' = Sent \ {i}
  BY <1>1 DEF Sent
<1>5. Cardinality(Sent') = IF i \in Sent THEN n - 1 ELSE n
  BY <1>2, <1>3, <1>4, FS_RemoveElement
<1>6. PICK a \in Nat, b \in Nat, len \in Nat, c \in Nat, d \in Nat, e \in Nat :
        /\ a = Len(store) /\ b = Len(store') /\ len = Len(ops)
        /\ c = nextWs /\ d = nextWs' /\ e = Len(Past)
  <2>1. Len(Past) \in Nat
    BY ShellBoundsAssumption
  <2>2. Len(store) \in Nat /\ Len(store') \in Nat /\ nextWs \in Nat /\ nextWs' \in Nat
    BY DEF StoreShape
  <2> QED
    BY <1>1, <2>1, <2>2, Zenon
<1>7. (b = a \/ b = a + 1) /\ len <= MaxOp /\ a + n + m <= 1 + 2 * len /\ c + n <= e + 1 + len
  BY <1>3, <1>6 DEF Grows, CountShape
<1>8. i \in Sent <=> ops[i].at = "sent"
  BY DEF Sent
<1>9. Cardinality(Unhandled') = IF o.at # "begun" /\ i \in Unhandled THEN m - 1 ELSE m
  <2>1. CASE o.at # "begun"
    <3>1. Unhandled' = Unhandled \ {i}
      BY <1>1, <2>1 DEF Unhandled
    <3> QED
      BY <1>2, <1>3, <2>1, <3>1, FS_RemoveElement
  <2>2. CASE o.at = "begun"
    <3>1. ops[i].at = "sent"
      BY <2>2
    <3>2. Unhandled' = Unhandled
      BY <1>1, <2>2, <3>1 DEF Unhandled
    <3> QED
      BY <1>3, <2>2, <3>2
  <2> QED
    BY <2>1, <2>2
<1>10. i \in Unhandled <=> ops[i].at \in {"sent", "begun"}
  BY DEF Unhandled
<1>11. PICK x \in Int, y \in Int : x = Cardinality(Sent') /\ y = Cardinality(Unhandled')
  BY <1>5, <1>9
<1>12. b + x + y <= 1 + 2 * len
  <2>1. CASE ops[i].at = "sent"
    <3>1. x = n - 1 /\ y <= m
      BY <1>5, <1>8, <1>9, <1>11, <2>1
    <3> QED
      BY <1>7, <3>1
  <2>2. CASE ops[i].at = "begun" /\ o.at # "begun"
    <3>1. x = n /\ y = m - 1
      BY <1>5, <1>8, <1>9, <1>10, <1>11, <2>2
    <3> QED
      BY <1>7, <3>1
  <2>3. CASE o.at # "begun" /\ Len(store') = Len(store)
    <3>1. x <= n /\ y <= m /\ b = a
      BY <1>5, <1>6, <1>9, <1>11, <2>3
    <3> QED
      BY <1>7, <3>1
  <2> QED
    BY <2>1, <2>2, <2>3
<1>13. d + x <= e + 1 + len
  <2>1. CASE nextWs' = nextWs
    <3>1. x <= n /\ d = c
      BY <1>5, <1>6, <1>11, <2>1
    <3> QED
      BY <1>7, <3>1
  <2>2. CASE nextWs' = nextWs + 1 /\ ops[i].at = "sent"
    <3>1. x = n - 1 /\ d = c + 1
      BY <1>5, <1>6, <1>8, <1>11, <2>2
    <3> QED
      BY <1>7, <3>1
  <2> QED
    BY <2>1, <2>2
<1> QED
  <2>1. Len(ops') = len /\ Len(store') = b /\ nextWs' = d
    BY <1>1, <1>6
  <2> QED
    BY <1>6, <1>7, <1>11, <1>12, <1>13, <2>1 DEF CountShape

\* A new operation.
LEMMA NewCounts ==
  ASSUME OpShape, CountShape, StoreShape, Len(ops) < MaxOp, NEW o \in OpSet, o.at = "sent",
         ops' = Append(ops, o), store' = store, nextWs' = nextWs
  PROVE  CountShape'
<1>1. PICK len \in Nat : len = Len(ops)
  BY DEF OpShape
<1>2. /\ DOMAIN ops = 1..len /\ DOMAIN ops' = 1..(len + 1) /\ Len(ops') = len + 1
      /\ ops'[len + 1] = o /\ \A j \in 1..len : ops'[j] = ops[j]
  BY <1>1, AppendProperties DEF OpShape
<1>3. IsFiniteSet(Sent) /\ IsFiniteSet(Unhandled)
  <2>1. IsFiniteSet(1..len)
    BY <1>1, FS_Interval
  <2>2. Sent \in SUBSET (1..len) /\ Unhandled \in SUBSET (1..len)
    BY <1>2 DEF Sent, Unhandled
  <2> QED
    BY <2>1, <2>2, FS_Subset
<1>4. PICK n \in Nat, m \in Nat : n = Cardinality(Sent) /\ m = Cardinality(Unhandled)
  BY <1>3, FS_CardinalityType
<1>5. Sent' = Sent \cup {len + 1} /\ Unhandled' = Unhandled \cup {len + 1}
  <2>1. \A j : j \in 1..(len + 1) <=> (j \in 1..len \/ j = len + 1)
    BY <1>1
  <2> QED
    BY <1>2, <2>1 DEF Sent, Unhandled
<1>6. len + 1 \notin Sent /\ len + 1 \notin Unhandled
  BY <1>1, <1>2 DEF Sent, Unhandled
<1>7. Cardinality(Sent') = n + 1 /\ Cardinality(Unhandled') = m + 1
  BY <1>3, <1>4, <1>5, <1>6, FS_AddElement
<1>8. PICK a \in Nat, c \in Nat, e \in Nat : a = Len(store) /\ c = nextWs /\ e = Len(Past)
  <2>1. Len(Past) \in Nat
    BY ShellBoundsAssumption
  <2> QED
    BY <2>1, StoreNumbers, Zenon
<1>9. len + 1 <= MaxOp /\ a + n + m <= 1 + 2 * len /\ c + n <= e + 1 + len
  BY <1>1, <1>4, <1>8, ShellBoundsAssumption DEF CountShape
<1>10. Len(store') = a /\ nextWs' = c
  BY <1>8
<1>11. Len(ops') <= MaxOp
  BY <1>2, <1>9
<1>n. /\ a \in Nat /\ c \in Nat /\ e \in Nat /\ len \in Nat /\ n \in Nat /\ m \in Nat
      /\ a + n + m <= 1 + 2 * len /\ c + n <= e + 1 + len
  BY <1>1, <1>4, <1>8, <1>9, Zenon
<1>12. a + (n + 1) + (m + 1) <= 1 + 2 * (len + 1) /\ c + (n + 1) <= e + 1 + (len + 1)
  BY <1>n
<1>13. Len(store') + Cardinality(Sent') + Cardinality(Unhandled') <= 1 + 2 * Len(ops')
  BY <1>2, <1>7, <1>10, <1>12, Zenon
<1>14. nextWs' + Cardinality(Sent') <= Len(Past) + 1 + Len(ops')
  BY <1>2, <1>7, <1>8, <1>10, <1>12, Zenon
<1> QED
  BY <1>11, <1>13, <1>14, Zenon DEF CountShape

\* The ids that are given are in their bounds.
LEMMA Bounds ==
  ASSUME StoreShape, OpShape, CountShape
  PROVE  /\ Len(store) \in 1..MaxVersion
         /\ 1..(nextWs - 1) \subseteq WsIds
         /\ Sent # {} => nextWs \in WsIds /\ Len(store) < MaxVersion
<1>1. Len(ops) \in Nat /\ DOMAIN ops = 1..Len(ops)
  BY DEF OpShape
<1>2. IsFiniteSet(Sent) /\ IsFiniteSet(Unhandled)
  <2>1. IsFiniteSet(1..Len(ops))
    BY <1>1, FS_Interval
  <2>2. Sent \in SUBSET (1..Len(ops)) /\ Unhandled \in SUBSET (1..Len(ops))
    BY <1>1 DEF Sent, Unhandled
  <2> QED
    BY <2>1, <2>2, FS_Subset
<1>3. PICK n \in Nat, m \in Nat : /\ n = Cardinality(Sent) /\ m = Cardinality(Unhandled)
                                  /\ Sent # {} => n # 0
  <2>1. Cardinality(Sent) \in Nat /\ Cardinality(Unhandled) \in Nat
    BY <1>2, FS_CardinalityType
  <2>2. Sent # {} => Cardinality(Sent) # 0
    BY <1>2, FS_EmptySet
  <2> QED
    BY <2>1, <2>2
<1>4. PICK a \in Nat, c \in Nat, e \in Nat, len \in Nat :
        a = Len(store) /\ c = nextWs /\ e = Len(Past) /\ len = Len(ops) /\ a > 0 /\ c > 0
  <2>1. Len(Past) \in Nat
    BY ShellBoundsAssumption
  <2>2. Len(store) \in Nat /\ nextWs \in Nat /\ Len(store) > 0 /\ nextWs > 0
    BY DEF StoreShape
  <2> QED
    BY <1>1, <2>1, <2>2, Zenon
<1>5. MaxOp \in Nat /\ len <= MaxOp /\ a + n + m <= 1 + 2 * len /\ c + n <= e + 1 + len
  BY <1>3, <1>4, ShellBoundsAssumption DEF CountShape
<1>6. MaxVersion = 1 + 2 * MaxOp /\ WsIds = 1..(e + MaxOp)
  BY <1>4 DEF MaxVersion, WsIds, MaxWs
<1>n. /\ MaxOp \in Nat /\ len <= MaxOp /\ a + n + m <= 1 + 2 * len /\ c + n <= e + 1 + len
      /\ a \in Nat /\ c \in Nat /\ e \in Nat /\ len \in Nat /\ n \in Nat /\ m \in Nat
  BY <1>3, <1>4, <1>5, Zenon
<1>7. a \in 1..(1 + 2 * MaxOp) /\ \A x \in 1..(c - 1) : x \in 1..(e + MaxOp)
  <2>1. a <= 1 + 2 * MaxOp
    BY <1>n
  <2>2. c <= e + 1 + MaxOp
    BY <1>n
  <2> QED
    BY <1>4, <1>5, <2>1, <2>2
<1>8. Sent # {} => c \in 1..(e + MaxOp) /\ a < 1 + 2 * MaxOp
  <2> SUFFICES ASSUME Sent # {} PROVE c \in 1..(e + MaxOp) /\ a < 1 + 2 * MaxOp
    OBVIOUS
  <2>1. n >= 1
    BY <1>3
  <2>2. c + 1 <= e + 1 + MaxOp
    BY <2>1, <1>n
  <2>3. a + 1 <= 1 + 2 * MaxOp
    BY <2>1, <1>n
  <2> QED
    BY <2>2, <2>3, <1>4, <1>5
<1> QED
  BY <1>4, <1>6, <1>7, <1>8

\* The newest version of the store is a list of ids that were given.
LEMMA NowIs ==
  ASSUME StoreShape
  PROVE  /\ Now \in ListSet /\ Now = store[Len(store)] /\ ListFits(Now, nextWs, nextSess)
         /\ DOMAIN Now \subseteq WsIds /\ \A w \in DOMAIN Now : Now[w] \in WsSet
<1>1. PICK L : L = ListSet
  OBVIOUS
<1>2. store \in Seq(L) /\ Len(store) > 0 /\ Now = store[Len(store)]
  BY <1>1, Zenon DEF StoreShape, Now, Last
<1>3. Len(store) \in DOMAIN store /\ store[Len(store)] \in L
  BY <1>2
<1>4. Now \in ListSet /\ ListFits(Now, nextWs, nextSess)
  BY <1>1, <1>2, <1>3, Zenon DEF StoreShape
<1> QED
  BY <1>2, <1>4, ListIs

\* The store gets a new version.
LEMMA StoreGrows ==
  ASSUME StoreShape, NEW l \in ListSet, Store(l), nextWs' \in Nat, nextWs' >= nextWs,
         nextSess' \in Nat, nextSess' >= nextSess, ListFits(l, nextWs', nextSess'),
         \A w, s : s < nextSess /\ On(l, w, s) => On(Now, w, s)
  PROVE  StoreShape' /\ Grows /\ Len(store') = Len(store) + 1
<1>1. PICK L : L = ListSet
  OBVIOUS
<1>2. store \in Seq(L) /\ l \in L /\ store' = Append(store, l)
  BY <1>1, Zenon DEF StoreShape, Store
<1>3. PICK len \in Nat : len = Len(store)
  BY <1>2
<1>4. /\ store' \in Seq(L) /\ Len(store') = len + 1 /\ store'[len + 1] = l
      /\ DOMAIN store = 1..len /\ DOMAIN store' = 1..(len + 1)
      /\ \A v \in 1..len : store'[v] = store[v]
  BY <1>2, <1>3
<1>5. /\ nextWs \in Nat \ {0} /\ nextSess \in Nat \ {0}
      /\ \A v \in 1..len : ListFits(store[v], nextWs, nextSess)
  BY <1>4, Zenon DEF StoreShape
<1>6. ASSUME NEW v \in 1..(len + 1) PROVE ListFits(store'[v], nextWs', nextSess')
  <2>1. CASE v = len + 1
    BY <2>1, <1>4, Zenon
  <2>2. CASE v # len + 1
    <3>1. v \in 1..len
      BY <2>2, <1>3, <1>6
    <3>2. store'[v] = store[v] /\ ListFits(store[v], nextWs, nextSess)
      BY <3>1, <1>4, <1>5
    <3>3. store[v] \in ListSet
      BY <3>1, <1>1, <1>2, <1>4
    <3>4. \A w \in DOMAIN store[v] : w \in Nat
      <4>1. WsIds \subseteq Nat
        BY ShellBoundsAssumption DEF WsIds, MaxWs
      <4> QED
        BY <3>3, <4>1, ListIs
    <3> QED
      BY <3>2, <3>4, <1>5 DEF ListFits
  <2> QED
    BY <2>1, <2>2
<1>7. StoreShape'
  BY <1>1, <1>3, <1>4, <1>5, <1>6 DEF StoreShape
<1>8. Grows
  <2>1. \A v \in DOMAIN store : v \in DOMAIN store' /\ store'[v] = store[v]
    BY <1>3, <1>4
  <2>2. store[Len(store)] = Now /\ store'[Len(store')] = l
    BY NowIs, <1>4
  <2> QED
    BY <2>1, <2>2, <1>3, <1>4 DEF Grows
<1> QED
  BY <1>3, <1>4, <1>7, <1>8

\* It stays as it is.
LEMMA StoreStays ==
  ASSUME StoreShape, UNCHANGED <<store, nextWs>>, nextSess' = nextSess
  PROVE  StoreShape' /\ Grows /\ Len(store') = Len(store)
<1>1. nextWs \in Nat /\ nextSess \in Nat /\ Len(store') = Len(store)
  BY DEF StoreShape
<1>2. Grows
  BY <1>1 DEF Grows
<1>3. StoreShape'
  BY DEF StoreShape, ListFits
<1> QED
  BY <1>1, <1>2, <1>3

\* A session that is appended, taken off, or neither.
LEMMA AppendedIds ==
  ASSUME NEW t \in Seq(Nat), NEW s \in Nat
  PROVE  Append(t, s) \in Seq(Nat) /\ ToSet(Append(t, s)) = ToSet(t) \cup {s}
<1>1. PICK len \in Nat : len = Len(t)
  OBVIOUS
<1>2. PICK u : u = Append(t, s)
  OBVIOUS
<1>3. /\ u \in Seq(Nat) /\ DOMAIN t = 1..len /\ DOMAIN u = 1..(len + 1) /\ u[len + 1] = s
      /\ \A k \in 1..len : u[k] = t[k]
  BY <1>1, <1>2
<1>4. \A k : k \in 1..(len + 1) <=> (k \in 1..len \/ k = len + 1)
  BY <1>1
<1> QED
  BY <1>2, <1>3, <1>4, Zenon DEF ToSet

\* What one workspace becomes.
LEMMA PutFits ==
  ASSUME StoreShape, NEW w \in WsIds, NEW x \in WsSet, NEW m \in Nat, NEW n \in Nat,
         m >= nextWs, n >= nextSess, w < m,
         \A s \in ToSet(x.session_ids) : s \in 1..(n - 1) /\ (s < nextSess => On(Now, w, s))
  PROVE  /\ Put(Now, w, x) \in ListSet /\ ListFits(Put(Now, w, x), m, n)
         /\ \A y, s : s < nextSess /\ On(Put(Now, w, x), y, s) => On(Now, y, s)
         /\ w \in DOMAIN Now => [Now EXCEPT ![w] = x] = Put(Now, w, x)
<1>1. /\ Now \in ListSet /\ ListFits(Now, nextWs, nextSess)
      /\ DOMAIN Now \subseteq WsIds /\ \A y \in DOMAIN Now : Now[y] \in WsSet
  BY NowIs
<1>2. PICK p : p = Put(Now, w, x)
  OBVIOUS
<1>3. /\ p \in ListSet /\ DOMAIN p = DOMAIN Now \cup {w} /\ p[w] = x
      /\ \A y \in DOMAIN Now : y # w => p[y] = Now[y]
      /\ w \in DOMAIN Now => [Now EXCEPT ![w] = x] = p
  <2>1. PICK l \in ListSet : l = Now
    BY <1>1
  <2>2. p = Put(l, w, x)
    BY <1>2, <2>1
  <2>3. /\ p \in ListSet /\ DOMAIN p = DOMAIN l \cup {w} /\ p[w] = x
        /\ \A y \in DOMAIN l : y # w => p[y] = l[y]
    BY <2>2, PutList
  <2>4. w \in DOMAIN l => [l EXCEPT ![w] = x] = p
    BY <2>2, PutList, Zenon
  <2> QED
    BY <2>1, <2>3, <2>4
<1>4. WsIds \subseteq Nat /\ nextWs \in Nat /\ nextSess \in Nat
  BY ShellBoundsAssumption DEF WsIds, MaxWs, StoreShape
<1>5. ListFits(p, m, n)
  <2>1. ASSUME NEW y \in DOMAIN p
        PROVE  y < m /\ \A k \in DOMAIN p[y].session_ids : p[y].session_ids[k] \in 1..(n - 1)
    <3>1. CASE y = w
      BY <3>1, <1>3 DEF ToSet
    <3>2. CASE y # w
      <4>1. y \in DOMAIN Now /\ p[y] = Now[y] /\ y \in Nat
        BY <3>2, <1>1, <1>3, <1>4, <2>1
      <4>2. y < nextWs /\ \A k \in DOMAIN Now[y].session_ids :
                            Now[y].session_ids[k] \in 1..(nextSess - 1)
        BY <4>1, <1>1 DEF ListFits
      <4> QED
        BY <4>1, <4>2, <1>4
    <3> QED
      BY <3>1, <3>2
  <2> QED
    BY <2>1 DEF ListFits
<1>6. ASSUME NEW y, NEW s, s < nextSess, On(p, y, s) PROVE On(Now, y, s)
  <2>1. CASE y = w
    BY <2>1, <1>3, <1>6 DEF On
  <2>2. CASE y # w
    BY <2>2, <1>3, <1>6 DEF On
  <2> QED
    BY <2>1, <2>2
<1> QED
  BY <1>2, <1>3, <1>5, <1>6
\* What a change makes of one workspace.
LEMMA WsMade ==
  ASSUME NEW r \in WsSet, NEW u \in Seq(Nat), NEW b \in BOOLEAN
  PROVE  /\ r.session_ids \in Seq(Nat) /\ r.archived \in BOOLEAN
         /\ [r EXCEPT !.session_ids = u] \in WsSet /\ [r EXCEPT !.session_ids = u].session_ids = u
         /\ [r EXCEPT !.archived = b] \in WsSet
         /\ [r EXCEPT !.archived = b].session_ids = r.session_ids
<1>1. PICK S : S = Seq(Nat)
  OBVIOUS
<1>2. r \in [archived : BOOLEAN, session_ids : S] /\ u \in S /\ WsSet = [archived : BOOLEAN, session_ids : S]
  BY <1>1 DEF WsSet
<1> QED
  BY <1>1, <1>2

\* What a handler leaves of the list.
LEMMA ChangedFits ==
  ASSUME StoreShape, NEW o \in OpSet, o.ws < nextWs, Spawns(o) \/ o.ws \in DOMAIN Now,
         NEW n \in Nat, n = IF Spawns(o) THEN nextSess + 1 ELSE nextSess
  PROVE  /\ Changed(o) \in ListSet /\ ListFits(Changed(o), nextWs, n)
         /\ \A y, s : s < nextSess /\ On(Changed(o), y, s) => On(Now, y, s)
<1>1. /\ Now \in ListSet /\ ListFits(Now, nextWs, nextSess)
      /\ DOMAIN Now \subseteq WsIds /\ \A y \in DOMAIN Now : Now[y] \in WsSet
  BY NowIs
<1>2. WsIds \subseteq Nat /\ nextWs \in Nat \ {0} /\ nextSess \in Nat \ {0} /\ n >= nextSess
  BY ShellBoundsAssumption DEF WsIds, MaxWs, StoreShape
<1>3. ListFits(Now, nextWs, n)
  BY <1>1, <1>2 DEF ListFits
<1>4. PICK w : w = o.ws
  OBVIOUS
<1>5. w \in DOMAIN Now =>
        /\ w \in WsIds /\ Now[w] \in WsSet
        /\ \A s \in ToSet(Now[w].session_ids) : s \in 1..(nextSess - 1) /\ On(Now, w, s)
  BY <1>1 DEF ListFits, ToSet, On
<1>6. o.kind \in Kinds
  BY DEF OpSet
<1>7. CASE Spawns(o)
  <2>1. Changed(o) = IF w \in DOMAIN Now
                     THEN [Now EXCEPT ![w].session_ids = Append(@, nextSess)] ELSE Now
    <3>1. Changed(o) = IF o.ws \in DOMAIN Now
                       THEN [Now EXCEPT ![o.ws].session_ids = Append(@, nextSess)] ELSE Now
      BY <1>7 DEF Changed, Spawns
    <3> QED
      BY <3>1, <1>4, Zenon
  <2>2. CASE w \notin DOMAIN Now
    BY <2>1, <2>2, <1>1, <1>3
  <2>3. CASE w \in DOMAIN Now
    <3>1. PICK t \in Seq(Nat) : t = Now[w].session_ids
      BY <2>3, <1>5 DEF WsSet
    <3>2. Append(t, nextSess) \in Seq(Nat) /\ ToSet(Append(t, nextSess)) = ToSet(t) \cup {nextSess}
      BY <1>2, AppendedIds
    <3>3. PICK x \in WsSet : x = [Now[w] EXCEPT !.session_ids = Append(t, nextSess)]
                              /\ x.session_ids = Append(t, nextSess)
      <4>1. PICK v \in Seq(Nat) : v = Append(t, nextSess)
        BY <3>2
      <4>2. PICK r \in WsSet : r = Now[w]
        BY <2>3, <1>5
      <4>3. [r EXCEPT !.session_ids = v] \in WsSet /\ [r EXCEPT !.session_ids = v].session_ids = v
        BY WsMade
      <4> QED
        BY <4>1, <4>2, <4>3, Zenon
    <3>4. Changed(o) = [Now EXCEPT ![w] = x]
      BY <2>1, <2>3, <3>1, <3>3
    <3>5. \A s \in ToSet(x.session_ids) : s \in 1..(n - 1) /\ (s < nextSess => On(Now, w, s))
      <4>1. n - 1 = nextSess
        BY <1>2, <1>7
      <4>2. \A s \in ToSet(t) : s \in 1..(nextSess - 1) /\ On(Now, w, s)
        BY <2>3, <1>5, <3>1
      <4> QED
        BY <4>1, <4>2, <3>2, <3>3, <1>2
    <3> QED
      <4>1. nextWs >= nextWs /\ w < nextWs /\ w \in WsIds /\ nextWs \in Nat
        BY <1>2, <1>4, <1>5, <2>3
      <4>2. /\ Put(Now, w, x) \in ListSet /\ ListFits(Put(Now, w, x), nextWs, n)
            /\ \A y, s : s < nextSess /\ On(Put(Now, w, x), y, s) => On(Now, y, s)
            /\ w \in DOMAIN Now => [Now EXCEPT ![w] = x] = Put(Now, w, x)
        BY <4>1, <3>5, <1>2, PutFits
      <4> QED
        BY <4>2, <3>4, <2>3, Zenon
  <2> QED
    BY <2>2, <2>3
<1>8. CASE ~Spawns(o)
  <2>1. w \in DOMAIN Now /\ n = nextSess
    BY <1>4, <1>8
  <2>2. ASSUME NEW x \in WsSet, ToSet(x.session_ids) \subseteq ToSet(Now[w].session_ids),
               Changed(o) = [Now EXCEPT ![w] = x]
        PROVE  /\ Changed(o) \in ListSet /\ ListFits(Changed(o), nextWs, n)
               /\ \A y, s : s < nextSess /\ On(Changed(o), y, s) => On(Now, y, s)
    <3>1. \A s \in ToSet(x.session_ids) : s \in 1..(n - 1) /\ (s < nextSess => On(Now, w, s))
      BY <2>1, <2>2, <1>5
    <3> QED
      <4>1. nextWs >= nextWs /\ w < nextWs /\ w \in WsIds /\ nextWs \in Nat
        BY <1>2, <1>4, <1>5, <2>1
      <4>2. /\ Put(Now, w, x) \in ListSet /\ ListFits(Put(Now, w, x), nextWs, n)
            /\ \A y, s : s < nextSess /\ On(Put(Now, w, x), y, s) => On(Now, y, s)
            /\ w \in DOMAIN Now => [Now EXCEPT ![w] = x] = Put(Now, w, x)
        BY <4>1, <3>1, <2>2, <1>2, PutFits
      <4> QED
        BY <4>2, <2>1, <2>2, Zenon
  <2>3. CASE o.kind = "deleteSession"
    <3>1. PICK t \in Seq(Nat) : t = Now[w].session_ids
      BY <2>1, <1>5 DEF WsSet
    <3>2. PICK u \in Seq(Nat) : u = Others(t, o.sess) /\ ToSet(u) \subseteq ToSet(t)
      BY OthersAre
    <3>3. PICK x \in WsSet : x = [Now[w] EXCEPT !.session_ids = u] /\ x.session_ids = u
      <4>1. PICK r \in WsSet : r = Now[w]
        BY <2>1, <1>5
      <4>2. [r EXCEPT !.session_ids = u] \in WsSet /\ [r EXCEPT !.session_ids = u].session_ids = u
        BY WsMade
      <4> QED
        BY <4>1, <4>2, Zenon
    <3>4. Changed(o) = [Now EXCEPT ![w] = x]
      BY <2>3, <1>4, <1>8, <3>1, <3>2, <3>3 DEF Changed
    <3> QED
      BY <2>2, <3>1, <3>2, <3>3, <3>4
  <2>4. CASE o.kind \in {"archive", "restore"}
    <3>1. PICK x \in WsSet : x = [Now[w] EXCEPT !.archived = (o.kind = "archive")]
                              /\ x.session_ids = Now[w].session_ids
      <4>1. PICK r \in WsSet : r = Now[w]
        BY <2>1, <1>5
      <4>2. PICK b \in BOOLEAN : b = (o.kind = "archive")
        OBVIOUS
      <4>3. /\ [r EXCEPT !.archived = b] \in WsSet
            /\ [r EXCEPT !.archived = b].session_ids = r.session_ids
        <5>1. <<>> \in Seq(Nat)
          OBVIOUS
        <5> QED
          BY <5>1, WsMade, Zenon
      <4> QED
        BY <4>1, <4>2, <4>3, Zenon
    <3>2. Changed(o) = [Now EXCEPT ![w] = x]
      BY <2>4, <1>4, <1>8, <3>1 DEF Changed
    <3> QED
      BY <2>2, <3>1, <3>2
  <2>5. CASE o.kind = "rename"
    <3>1. Changed(o) = Now
      BY <2>5, <1>8 DEF Changed
    <3> QED
      BY <3>1, <1>1, <1>3
  <2>6. CASE o.kind = "remove"
    <3>1. PICK l : l = Without(Now, w)
      OBVIOUS
    <3>2. Changed(o) = l
      BY <2>6, <1>4, <1>8, <3>1 DEF Changed
    <3>3. /\ l \in ListSet /\ DOMAIN l = DOMAIN Now \ {w}
          /\ \A y \in DOMAIN Now : y # w => l[y] = Now[y]
      <4>1. /\ Without(Now, w) \in ListSet /\ DOMAIN Without(Now, w) = DOMAIN Now \ {w}
            /\ \A y \in DOMAIN Now : y # w => Without(Now, w)[y] = Now[y]
        BY <1>1, WithoutList, Zenon
      <4> QED
        BY <4>1, <3>1
    <3>4. \A y \in DOMAIN l : y \in DOMAIN Now /\ l[y] = Now[y]
      BY <3>3
    <3> QED
      BY <3>2, <3>3, <3>4, <1>3 DEF ListFits, On
  <2>7. o.kind \in {"rename", "archive", "restore", "remove", "deleteSession"}
    BY <1>6, <1>8 DEF Kinds, Spawns
  <2> QED
    BY <2>3, <2>4, <2>5, <2>6, <2>7
<1> QED
  BY <1>7, <1>8

(* --------------------------- what is on screen ---------------------------- *)

\* What is on the list has an id that was given.
LEMMA ListOf ==
  ASSUME StoreShape, NEW v \in 0..Len(store), NEW l, l = IF v = 0 THEN <<>> ELSE store[v]
  PROVE  /\ \A w \in DOMAIN l : w \in WsIds /\ w \in 1..(nextWs - 1) /\ l[w] \in WsSet
         /\ \A w \in DOMAIN l : \A s \in ToSet(l[w].session_ids) : s \in 1..(nextSess - 1)
<1>1. CASE v = 0
  <2>1. DOMAIN l = {}
    BY <1>1
  <2> QED
    BY <2>1
<1>2. CASE v # 0
  <2>1. PICK L : L = ListSet
    OBVIOUS
  <2>2. store \in Seq(L)
    BY <2>1, Zenon DEF StoreShape
  <2>3. v \in DOMAIN store /\ l \in L /\ l = store[v]
    BY <1>2, <2>2
  <2>4. l \in ListSet /\ ListFits(l, nextWs, nextSess)
    BY <2>1, <2>3, Zenon DEF StoreShape
  <2>5. DOMAIN l \subseteq WsIds /\ \A w \in DOMAIN l : l[w] \in WsSet
    BY <2>4, ListIs
  <2>6. \A w \in WsIds : w \in Nat /\ w > 0
    BY ShellBoundsAssumption DEF WsIds, MaxWs
  <2>7. nextWs \in Nat
    BY DEF StoreShape
  <2> QED
    BY <2>4, <2>5, <2>6, <2>7 DEF ListFits, ToSet
<1> QED
  BY <1>1, <1>2

\* A render leaves the screen as it should be, whatever list it shows.
LEMMA ShowScreen ==
  ASSUME StoreShape, CountShape, OpShape, UNCHANGED server,
         NEW v \in 0..Len(store), NEW ready \in BOOLEAN, NEW w \in 0..(nextWs - 1),
         NEW by \in [WsIds -> 0..(nextSess - 1)], Show(v, ready, w, by)
  PROVE  ScreenShape'
<1>1. PICK l : l = IF v = 0 THEN <<>> ELSE store'[v]
  OBVIOUS
<1>2. PICK c : c = IF ready /\ w = 0 /\ DOMAIN l # {} THEN First(l) ELSE w
  OBVIOUS
<1>3. /\ shown' = v /\ hydrated' = ready /\ activeWs' = c
      /\ activeBy' = IF c = 0 THEN by ELSE [by EXCEPT ![c] = activeSession(l, c, by)]
  BY <1>1, <1>2, Zenon DEF Show
<1>4. PICK m \in Nat, n \in Nat : m = nextWs /\ n = nextSess /\ m > 0 /\ n > 0
  BY StoreNumbers, Zenon
<1>5. l = IF v = 0 THEN <<>> ELSE store[v]
  BY <1>1 DEF server
<1>6. /\ \A x \in DOMAIN l : x \in WsIds /\ x \in 1..(m - 1) /\ l[x] \in WsSet
      /\ \A x \in DOMAIN l : \A s \in ToSet(l[x].session_ids) : s \in 1..(n - 1)
  BY <1>4, <1>5, ListOf
<1>7. c \in 0..(m - 1) /\ (c # 0 => c \in WsIds)
  <2>1. 1..(m - 1) \subseteq WsIds
    BY <1>4, Bounds
  <2>2. CASE ready /\ w = 0 /\ DOMAIN l # {}
    <3>1. DOMAIN l \subseteq 1..(m - 1) /\ m - 1 \in Nat
      BY <1>4, <1>6
    <3>2. PICK k \in Nat : k = m - 1
      BY <3>1
    <3>3. First(l) \in DOMAIN l
      BY <3>1, <3>2, <2>2, FirstIs
    <3> QED
      BY <1>2, <1>6, <2>2, <3>3
  <2>3. CASE ~(ready /\ w = 0 /\ DOMAIN l # {})
    <3>1. c = w /\ w \in 0..(m - 1)
      BY <1>2, <1>4, <2>3
    <3> QED
      BY <3>1, <2>1, <1>4
  <2> QED
    BY <2>2, <2>3
<1>8. activeBy' \in [WsIds -> 0..(n - 1)]
  <2>1. by \in [WsIds -> 0..(n - 1)]
    BY <1>4
  <2>2. CASE c = 0
    BY <1>3, <2>1, <2>2
  <2>3. CASE c # 0
    <3>1. PICK a : a = activeSession(l, c, by)
      OBVIOUS
    <3>2. a \in 0..(n - 1)
      <4>1. 0 \in 0..(n - 1) /\ by[c] \in 0..(n - 1)
        BY <1>4, <1>7, <2>1, <2>3
      <4>2. ASSUME c \in DOMAIN l, l[c].session_ids # <<>>
            PROVE  Head(l[c].session_ids) \in 0..(n - 1)
        <5>1. PICK t \in Seq(Nat) : t = l[c].session_ids
          BY <4>2, <1>6 DEF WsSet
        <5>2. Head(t) \in ToSet(t)
          <6>1. 1 \in DOMAIN t /\ Head(t) = t[1]
            BY <4>2, <5>1
          <6> QED
            BY <6>1 DEF ToSet
        <5>3. Head(l[c].session_ids) \in 1..(n - 1)
          BY <4>2, <5>1, <5>2, <1>6
        <5> QED
          BY <5>3
      <4> QED
        BY <3>1, <4>1, <4>2 DEF activeSession
    <3>3. activeBy' = [by EXCEPT ![c] = a]
      BY <1>3, <2>3, <3>1
    <3> QED
      BY <2>1, <3>2, <3>3
  <2> QED
    BY <2>2, <2>3
<1>9. nextWs' = m /\ nextSess' = n /\ Len(store') = Len(store)
  BY <1>4 DEF server
<1> QED
  BY <1>3, <1>7, <1>8, <1>9 DEF ScreenShape

\* Nothing on screen moves.
LEMMA ScreenStays ==
  ASSUME StoreShape, StoreShape', Grows, ScreenShape, UNCHANGED screen
  PROVE  ScreenShape'
<1>1. PICK a \in Nat, b \in Nat, m \in Nat, n \in Nat, x \in Nat, y \in Nat :
        /\ a = Len(store) /\ b = Len(store') /\ m = nextWs /\ n = nextWs'
        /\ x = nextSess /\ y = nextSess' /\ a <= b /\ m <= n /\ x <= y
  <2>1. /\ Len(store) \in Nat /\ Len(store') \in Nat /\ nextWs \in Nat /\ nextWs' \in Nat
        /\ nextSess \in Nat /\ nextSess' \in Nat
    BY DEF StoreShape
  <2>2. Len(store) <= Len(store') /\ nextWs <= nextWs' /\ nextSess <= nextSess'
    BY <2>1 DEF Grows
  <2> QED
    BY <2>1, <2>2, Zenon
<1>2. /\ shown \in 0..a /\ hydrated \in BOOLEAN /\ activeWs \in 0..(m - 1)
      /\ activeBy \in [WsIds -> 0..(x - 1)]
  BY <1>1 DEF ScreenShape
<1>6. a \in Nat /\ b \in Nat /\ m \in Nat /\ n \in Nat /\ x \in Nat /\ y \in Nat /\ a <= b /\ m <= n /\ x <= y
  BY <1>1, Zenon
<1>3. activeBy \in [WsIds -> 0..(y - 1)]
  <2>1. 0..(x - 1) \subseteq 0..(y - 1)
    BY <1>6
  <2> QED
    BY <1>2, <2>1
<1>4. shown \in 0..b /\ activeWs \in 0..(n - 1)
  BY <1>2, <1>6
<1>5. shown' = shown /\ hydrated' = hydrated /\ activeWs' = activeWs /\ activeBy' = activeBy
  BY DEF screen
<1> QED
  BY <1>1, <1>2, <1>3, <1>4, <1>5 DEF ScreenShape

(* ------------------------------- operations ------------------------------- *)

\* Nothing that fetches moves, nor a creation that is under way.
LEMMA FetchKeeps ==
  ASSUME FetchShape, UNCHANGED <<store, pending, refreshes, missed, newest>>,
         \A j \in DOMAIN ops : ops[j].kind \in Creates /\ ops[j].at = "begun" =>
                                 j \in DOMAIN ops' /\ ops'[j] = ops[j]
  PROVE  FetchShape'
<1>1. /\ pending' \in Nat /\ missed' \in Nat /\ newest' \in 0..Len(store')
      /\ refreshes' \in [1..MaxVersion -> Nat]
      /\ \A v \in 1..MaxVersion : refreshes'[v] > 0 => v <= Len(store')
  BY DEF FetchShape
<1>2. ASSUME missed' = 0
      PROVE  \/ newest' = Len(store') \/ pending' > 0 \/ refreshes'[Len(store')] > 0
             \/ \E i \in DOMAIN ops' : ops'[i].kind \in Creates /\ ops'[i].at = "begun"
  <2>1. CASE \E i \in DOMAIN ops : ops[i].kind \in Creates /\ ops[i].at = "begun"
    <3>1. PICK i \in DOMAIN ops : ops[i].kind \in Creates /\ ops[i].at = "begun"
      BY <2>1
    <3>2. i \in DOMAIN ops' /\ ops'[i] = ops[i]
      BY <3>1
    <3> QED
      BY <3>1, <3>2
  <2>2. CASE ~ \E i \in DOMAIN ops : ops[i].kind \in Creates /\ ops[i].at = "begun"
    BY <1>2, <2>2 DEF FetchShape
  <2> QED
    BY <2>1, <2>2
<1> QED
  BY <1>1, <1>2 DEF FetchShape

\* An operation is started, here or in another browser.
LEMMA NewOp ==
  ASSUME IInv, Len(ops) < MaxOp, NEW o \in OpSet, o.at = "sent", o.ws < nextWs, o.sess < nextSess,
         o.mine /\ o.kind = "deleteSession" => o.had \in DOMAIN store /\ o.ws \in DOMAIN store[o.had],
         ops' = Append(ops, o), UNCHANGED <<server, pending, refreshes, screen, newest, missed>>,
         o.mine /\ o.kind \in Creates => o.kind \notin creating /\ creating' = creating \cup {o.kind},
         ~(o.mine /\ o.kind \in Creates) => creating' = creating
  PROVE  IInv'
<1>1. StoreShape /\ OpShape /\ ScreenShape /\ ButtonShape /\ CountShape /\ FetchShape
  BY DEF IInv
<1>2. StoreShape' /\ Grows
  BY <1>1, StoreStays DEF server
<1>3. CountShape'
  BY <1>1, NewCounts DEF server
<1>4. ScreenShape'
  BY <1>1, <1>2, ScreenStays
<1>5. PICK len \in Nat : len = Len(ops)
  BY <1>1 DEF OpShape
<1>6. /\ DOMAIN ops = 1..len /\ DOMAIN ops' = 1..(len + 1) /\ ops'[len + 1] = o
      /\ \A j \in 1..len : ops'[j] = ops[j]
      /\ ops' \in Seq(OpSet) /\ \A j \in 1..len : ops[j] \in OpSet
  <2>1. PICK S : S = OpSet
    OBVIOUS
  <2>2. ops \in Seq(S) /\ o \in S
    BY <1>1, <2>1 DEF OpShape
  <2> QED
    BY <1>5, <2>1, <2>2
<1>7. \A j : j \in 1..(len + 1) <=> (j \in 1..len \/ j = len + 1)
  BY <1>5
<1>8. OpShape'
  <2>1. OpFits(o, store, nextWs, nextSess)
    BY DEF OpFits
  <2>2. \A j \in DOMAIN ops' : OpFits(ops'[j], store, nextWs, nextSess)
    BY <1>1, <1>6, <1>7, <2>1, Zenon DEF OpShape
  <2>3. store' = store /\ nextWs' = nextWs /\ nextSess' = nextSess
    BY DEF server
  <2> QED
    BY <1>6, <2>2, <2>3 DEF OpShape
<1>9. ButtonShape'
  <2>1. Creation(o) <=> o.mine /\ o.kind \in Creates
    BY DEF Creation, Over
  <2>2. \A j \in 1..len : Creation(ops'[j]) = Creation(ops[j]) /\ ops'[j].kind = ops[j].kind
    BY <1>6
  <2>3. Creation(ops'[len + 1]) = Creation(o) /\ ops'[len + 1].kind = o.kind
    BY <1>6
  <2>4. CASE Creation(o)
    <3>1. o.kind \in Creates /\ o.kind \notin creating /\ creating' = creating \cup {o.kind}
      BY <2>1, <2>4
    <3>2. \A j \in 1..len : Creation(ops[j]) => ops[j].kind # o.kind
      BY <1>1, <1>6, <3>1 DEF ButtonShape
    <3>3. \A j \in DOMAIN ops' : Creation(ops'[j]) => ops'[j].kind \in creating'
      BY <1>1, <1>6, <1>7, <2>2, <2>3, <3>1, Zenon DEF ButtonShape
    <3>4. \A k \in creating' : \E j \in DOMAIN ops' : Creation(ops'[j]) /\ ops'[j].kind = k
      <4>1. ASSUME NEW k \in creating PROVE \E j \in DOMAIN ops' : Creation(ops'[j]) /\ ops'[j].kind = k
        <5>1. PICK j \in DOMAIN ops : Creation(ops[j]) /\ ops[j].kind = k
          BY <1>1, <4>1 DEF ButtonShape
        <5>2. j \in 1..len /\ j \in DOMAIN ops'
          BY <1>6, <1>7, <5>1, Zenon
        <5> QED
          BY <5>1, <5>2, <2>2
      <4>2. len + 1 \in DOMAIN ops' /\ Creation(ops'[len + 1]) /\ ops'[len + 1].kind = o.kind
        BY <1>6, <1>7, <2>3, <2>4, Zenon
      <4> QED
        BY <4>1, <4>2, <3>1, Zenon
    <3>5. ASSUME NEW j \in DOMAIN ops', NEW k \in DOMAIN ops',
                 Creation(ops'[j]), Creation(ops'[k]), ops'[j].kind = ops'[k].kind
          PROVE  j = k
      <4>1. CASE j \in 1..len /\ k \in 1..len
        <5>1. j \in DOMAIN ops /\ k \in DOMAIN ops
          BY <4>1, <1>6
        <5>2. Creation(ops[j]) /\ Creation(ops[k]) /\ ops[j].kind = ops[k].kind
          BY <4>1, <3>5, <2>2, Zenon
        <5> QED
          BY <5>1, <5>2, <1>1, Zenon DEF ButtonShape
      <4>2. \A y \in 1..len : Creation(ops'[y]) => ops'[y].kind # ops'[len + 1].kind
        BY <3>2, <2>2, <2>3, Zenon
      <4>3. CASE j = len + 1 /\ k \in 1..len
        BY <4>2, <4>3, <3>5, Zenon
      <4>4. CASE k = len + 1 /\ j \in 1..len
        BY <4>2, <4>4, <3>5, Zenon
      <4>5. CASE j = len + 1 /\ k = len + 1
        BY <4>5
      <4>6. (j \in 1..len \/ j = len + 1) /\ (k \in 1..len \/ k = len + 1)
        BY <3>5, <1>6, <1>7, Zenon
      <4> QED
        BY <4>1, <4>3, <4>4, <4>5, <4>6, Zenon
    <3>6. creating' \subseteq Creates
      BY <1>1, <3>1 DEF ButtonShape
    <3> QED
      BY <3>3, <3>4, <3>5, <3>6, Zenon DEF ButtonShape
  <2>5. CASE ~Creation(o)
    <3>1. creating' = creating
      BY <2>1, <2>5
    <3>2. \A j \in DOMAIN ops' : Creation(ops'[j]) => j \in DOMAIN ops /\ ops'[j] = ops[j]
      BY <1>6, <1>7, <2>3, <2>5, Zenon
    <3>3. \A j \in DOMAIN ops : j \in DOMAIN ops' /\ ops'[j] = ops[j]
      BY <1>6, <1>7, Zenon
    <3>4. \A k \in creating' : \E j \in DOMAIN ops' : Creation(ops'[j]) /\ ops'[j].kind = k
      <4> SUFFICES ASSUME NEW k \in creating PROVE \E j \in DOMAIN ops' : Creation(ops'[j]) /\ ops'[j].kind = k
        BY <3>1
      <4>1. PICK j \in DOMAIN ops : Creation(ops[j]) /\ ops[j].kind = k
        BY <1>1 DEF ButtonShape
      <4>2. j \in DOMAIN ops' /\ Creation(ops'[j]) /\ ops'[j].kind = k
        BY <4>1, <3>3
      <4> QED
        BY <4>2
    <3>5. \A j \in DOMAIN ops' : Creation(ops'[j]) => ops'[j].kind \in creating'
      BY <1>1, <3>1, <3>2 DEF ButtonShape
    <3>6. \A j, k \in DOMAIN ops' :
            Creation(ops'[j]) /\ Creation(ops'[k]) /\ ops'[j].kind = ops'[k].kind => j = k
      BY <1>1, <3>2 DEF ButtonShape
    <3> QED
      BY <1>1, <3>1, <3>4, <3>5, <3>6, Zenon DEF ButtonShape
  <2> QED
    BY <2>4, <2>5
<1>10. FetchShape'
  <2>1. \A j \in DOMAIN ops : j \in DOMAIN ops' /\ ops'[j] = ops[j]
    BY <1>6, <1>7, Zenon
  <2>2. UNCHANGED <<store, pending, refreshes, missed, newest>>
    BY DEF server
  <2> QED
    BY <1>1, <2>1, <2>2, FetchKeeps
<1> QED
  BY <1>2, <1>3, <1>4, <1>8, <1>9, <1>10 DEF IInv

\* An operation of this tab is started, from what its list has.
LEMMA Started ==
  ASSUME IInv, NEW kind \in Kinds, NEW w \in Nat, NEW s \in Nat, w < nextWs, s < nextSess,
         kind \in Creates => kind \notin creating,
         kind = "deleteSession" => shown \in DOMAIN store /\ w \in DOMAIN store[shown],
         Start(kind, w, s)
  PROVE  IInv'
<1>1. shown \in Nat
  <2>1. Len(store) \in Nat /\ shown \in 0..Len(store)
    BY DEF IInv, ScreenShape, StoreShape
  <2> QED
    BY <2>1
<1>2. PICK o : o = Op(kind, w, s, TRUE)
  OBVIOUS
<1>3. /\ o \in OpSet /\ o.kind = kind /\ o.ws = w /\ o.sess = s /\ o.mine /\ o.at = "sent"
      /\ kind = "deleteSession" => o.had = shown
  <2>1. PICK h \in Nat : h = IF kind = "deleteSession" THEN shown ELSE 0
    BY <1>1
  <2>2. o = [kind |-> kind, ws |-> w, sess |-> s, mine |-> TRUE, at |-> "sent", ver |-> 0, had |-> h]
    BY <1>2, <2>1 DEF Op
  <2> QED
    BY <2>1, <2>2 DEF OpSet, Places
<1>4. /\ Len(ops) < MaxOp /\ ops' = Append(ops, o) /\ creating' = creating \cup ({kind} \cap Creates)
      /\ UNCHANGED <<server, pending, refreshes, screen, newest, missed>>
  BY <1>2, Zenon DEF Start
<1>5. o.mine /\ o.kind \in Creates => o.kind \notin creating /\ creating' = creating \cup {o.kind}
  BY <1>3, <1>4
<1>6. ~(o.mine /\ o.kind \in Creates) => creating' = creating
  BY <1>3, <1>4
<1>7. o.mine /\ o.kind = "deleteSession" => o.had \in DOMAIN store /\ o.ws \in DOMAIN store[o.had]
  BY <1>3
<1>8. o.ws < nextWs /\ o.sess < nextSess
  BY <1>3
<1> QED
  BY <1>3, <1>4, <1>5, <1>6, <1>7, <1>8, NewOp

\* What the list of the tab has.
LEMMA Listed ==
  ASSUME IInv
  PROVE  /\ \A w \in DOMAIN list : w \in WsIds /\ w \in 1..(nextWs - 1) /\ list[w] \in WsSet
                                   /\ shown \in DOMAIN store /\ w \in DOMAIN store[shown]
         /\ \A w \in DOMAIN list : \A s \in ToSet(list[w].session_ids) : s \in 1..(nextSess - 1)
         /\ ChatViewShown => activeWs \in DOMAIN list
<1>1. PICK a \in Nat : a = Len(store)
  BY DEF IInv, StoreShape
<1>2. shown \in 0..a
  BY <1>1 DEF IInv, ScreenShape
<1>3. /\ \A w \in DOMAIN list : w \in WsIds /\ w \in 1..(nextWs - 1) /\ list[w] \in WsSet
      /\ \A w \in DOMAIN list : \A s \in ToSet(list[w].session_ids) : s \in 1..(nextSess - 1)
  BY <1>1, <1>2, ListOf DEF IInv, list
<1>4. ASSUME NEW w \in DOMAIN list PROVE shown \in DOMAIN store /\ w \in DOMAIN store[shown]
  <2>1. shown # 0
    <3> SUFFICES ASSUME shown = 0 PROVE FALSE
      OBVIOUS
    <3>1. list = <<>>
      BY DEF list
    <3> QED
      BY <3>1, <1>4
  <2>2. shown \in 1..a /\ DOMAIN store = 1..a
    BY <1>1, <1>2, <2>1 DEF IInv, StoreShape
  <2> QED
    BY <1>4, <2>1, <2>2 DEF list
<1>5. ChatViewShown => activeWs \in DOMAIN list
  BY DEF ChatViewShown, activeSession
<1> QED
  BY <1>3, <1>4, <1>5

\* Each step keeps the invariant: a button, a menu or a tab that starts an operation,
LEMMA StartsKeep ==
  ASSUME IInv,
         \/ CreateTicket \/ NewChat \/ SpawnSession
         \/ \E s \in 1..MaxSess : RenameSession(s) \/ DeleteSession(s)
         \/ \E w \in WsIds : \/ \E kind \in {"archive", "remove"} : RowMenu(w, kind)
                             \/ \E kind \in {"restore", "remove"} : Archive(w, kind)
  PROVE  IInv'
<1>1. PICK m \in Nat, n \in Nat : m = nextWs /\ n = nextSess /\ m > 0 /\ n > 0
  BY StoreNumbers, Zenon DEF IInv
<1>2. /\ \A w \in DOMAIN list : w \in 1..(m - 1) /\ shown \in DOMAIN store /\ w \in DOMAIN store[shown]
      /\ \A w \in DOMAIN list : \A s \in ToSet(list[w].session_ids) : s \in 1..(n - 1)
      /\ ChatViewShown => activeWs \in DOMAIN list
  BY <1>1, Listed
<1>3. \A w \in 1..(m - 1) : w \in Nat /\ w < nextWs
  BY <1>1
<1>4. \A s \in 1..(n - 1) : s \in Nat /\ s < nextSess
  BY <1>1
<1>5. 0 \in Nat /\ 0 < nextWs /\ 0 < nextSess
  BY <1>1
<1>6. CASE CreateTicket
  BY <1>5, <1>6, Started DEF CreateTicket, Kinds
<1>7. CASE NewChat
  BY <1>5, <1>7, Started DEF NewChat, Kinds
<1>8. CASE SpawnSession
  <2>1. activeWs \in 1..(m - 1) /\ Start("spawn", activeWs, 0)
    BY <1>2, <1>8 DEF SpawnSession
  <2>2. PICK w \in Nat : w = activeWs /\ w < nextWs
    BY <2>1, <1>3
  <2>3. Start("spawn", w, 0) /\ "spawn" \in Kinds /\ "spawn" \notin Creates /\ "spawn" # "deleteSession"
    BY <2>1, <2>2 DEF Kinds, Creates
  <2> QED
    BY <2>2, <2>3, <1>5, Started, Zenon
<1>9. ASSUME NEW s \in 1..MaxSess, RenameSession(s) PROVE IInv'
  <2>1. activeWs \in 1..(m - 1) /\ s \in 1..(n - 1) /\ Start("rename", activeWs, s)
    BY <1>2, <1>9 DEF RenameSession
  <2>2. PICK w \in Nat : w = activeWs /\ w < nextWs
    BY <2>1, <1>3
  <2>3. Start("rename", w, s) /\ "rename" \in Kinds /\ "rename" \notin Creates /\ "rename" # "deleteSession"
    BY <2>1, <2>2 DEF Kinds, Creates
  <2>4. s \in Nat /\ s < nextSess
    BY <2>1, <1>4
  <2> QED
    BY <2>2, <2>3, <2>4, Started, Zenon
<1>10. ASSUME NEW s \in 1..MaxSess, DeleteSession(s) PROVE IInv'
  <2>1. /\ activeWs \in 1..(m - 1) /\ s \in 1..(n - 1) /\ Start("deleteSession", activeWs, s)
        /\ shown \in DOMAIN store /\ activeWs \in DOMAIN store[shown]
    BY <1>2, <1>10 DEF DeleteSession
  <2>2. PICK w \in Nat : w = activeWs /\ w < nextWs
    BY <2>1, <1>3
  <2>3. /\ Start("deleteSession", w, s) /\ "deleteSession" \in Kinds /\ "deleteSession" \notin Creates
        /\ shown \in DOMAIN store /\ w \in DOMAIN store[shown]
    BY <2>1, <2>2 DEF Kinds, Creates
  <2>4. s \in Nat /\ s < nextSess
    BY <2>1, <1>4
  <2> QED
    BY <2>2, <2>3, <2>4, Started, Zenon
<1>11. ASSUME NEW w \in WsIds, NEW kind \in {"archive", "restore", "remove"},
              w \in DOMAIN list, Start(kind, w, 0)
       PROVE  IInv'
  <2>1. w \in Nat /\ w < nextWs
    BY <1>2, <1>3, <1>11
  <2>2. kind \in Kinds /\ kind \notin Creates /\ kind # "deleteSession"
    BY <1>11 DEF Kinds, Creates
  <2> QED
    BY <1>5, <1>11, <2>1, <2>2, Started, Zenon
<1>12. ASSUME NEW w \in WsIds, NEW kind, RowMenu(w, kind) PROVE IInv'
  BY <1>11, <1>12, Zenon DEF RowMenu
<1>13. ASSUME NEW w \in WsIds, NEW kind, Archive(w, kind) PROVE IInv'
  BY <1>11, <1>13, Zenon DEF Archive
<1> QED
  BY <1>6, <1>7, <1>8, <1>9, <1>10, <1>12, <1>13, Zenon

\* another browser that starts one,
LEMMA StartElsewhereKeeps ==
  ASSUME IInv, NEW kind \in Kinds, NEW w \in Nat, NEW s \in Nat,
         w # 0 => kind \notin Creates,
         s # 0 => OfSession(kind),
         StartElsewhere(kind, w, s)
  PROVE  IInv'
<1>1. StoreShape
  BY DEF IInv
<1>2. /\ \A x \in DOMAIN Now : x < nextWs
      /\ \A x \in DOMAIN Now : \A y \in ToSet(Now[x].session_ids) : y < nextSess
      /\ nextWs \in Nat \ {0} /\ nextSess \in Nat \ {0}
  BY <1>1, NowIs DEF ListFits, ToSet, StoreShape
<1>3. PICK o : o = Op(kind, w, s, FALSE)
  OBVIOUS
<1>4. /\ Len(ops) < MaxOp /\ ops' = Append(ops, o) /\ creating' = creating
      /\ UNCHANGED <<server, pending, refreshes, screen, newest, missed>>
      /\ kind \notin Creates => w \in DOMAIN Now
      /\ OfSession(kind) => s \in ToSet(Now[w].session_ids)
  BY <1>3, Zenon DEF StartElsewhere
<1>5. o \in OpSet /\ o.ws = w /\ o.sess = s /\ ~o.mine /\ o.at = "sent"
  <2>1. o = [kind |-> kind, ws |-> w, sess |-> s, mine |-> FALSE, at |-> "sent", ver |-> 0, had |-> 0]
    BY <1>3 DEF Op
  <2> QED
    BY <2>1 DEF OpSet, Places
<1>6. w < nextWs
  BY <1>2, <1>4
<1>7. s < nextSess
  <2>1. OfSession(kind) => kind \notin Creates
    BY DEF OfSession, Creates
  <2> QED
    <3>1. CASE s = 0
      BY <3>1, <1>2
    <3>2. CASE s # 0
      <4>1. OfSession(kind) /\ w \in DOMAIN Now /\ s \in ToSet(Now[w].session_ids)
        BY <3>2, <2>1, <1>4
      <4> QED
        BY <4>1, <1>2
    <3> QED
      BY <3>1, <3>2
<1> QED
  BY <1>4, <1>5, <1>6, <1>7, NewOp

\* What an operation becomes.
LEMMA OpMade ==
  ASSUME NEW r \in OpSet, NEW at \in Places, NEW ws \in Nat, NEW sess \in Nat, NEW ver \in Nat, NEW had \in Nat,
         NEW x, x = [r EXCEPT !.at = at, !.ws = ws, !.sess = sess, !.ver = ver, !.had = had]
  PROVE  /\ x \in OpSet /\ x.kind = r.kind /\ x.mine = r.mine
         /\ x.at = at /\ x.ws = ws /\ x.sess = sess /\ x.ver = ver /\ x.had = had
<1>1. PICK P : P = Places /\ at \in P
  OBVIOUS
<1>2. PICK K : K = Kinds
  OBVIOUS
<1> QED
  BY <1>1, <1>2 DEF OpSet

\* What an operation is.
LEMMA OpIs ==
  ASSUME OpShape, NEW i \in DOMAIN ops
  PROVE  /\ ops[i] \in OpSet /\ OpFits(ops[i], store, nextWs, nextSess)
         /\ ops[i].kind \in Kinds /\ ops[i].at \in Places /\ ops[i].mine \in BOOLEAN
         /\ ops[i].ws \in Nat /\ ops[i].sess \in Nat /\ ops[i].ver \in Nat /\ ops[i].had \in Nat
         /\ ops[i] = [ops[i] EXCEPT !.at = @]
<1>1. PICK S : S = OpSet
  OBVIOUS
<1>2. ops \in Seq(S)
  BY <1>1 DEF OpShape
<1>3. ops[i] \in OpSet
  BY <1>1, <1>2
<1>4. OpFits(ops[i], store, nextWs, nextSess)
  BY DEF OpShape
<1>5. PICK r \in OpSet : r = ops[i]
  BY <1>3
<1>6. /\ r.kind \in Kinds /\ r.at \in Places /\ r.mine \in BOOLEAN
      /\ r.ws \in Nat /\ r.sess \in Nat /\ r.ver \in Nat /\ r.had \in Nat
      /\ r = [r EXCEPT !.at = @]
  BY DEF OpSet
<1> QED
  BY <1>3, <1>4, <1>5, <1>6

\* Operation i goes on, and keeps its workspace and its session.
MovesTo(i, o, at, ver, had) ==
  /\ o = [ops[i] EXCEPT !.at = at, !.ver = ver, !.had = had]
  /\ ops' = [ops EXCEPT ![i] = o]

\* An operation moves on without the store.
LEMMA MoveOn ==
  ASSUME IInv, UNCHANGED server, NEW i \in DOMAIN ops, NEW at \in Places, NEW ver \in Nat, NEW had \in Nat,
         NEW o, MovesTo(i, o, at, ver, had),
         at \in {"answered", "refreshed", "repointing"} => ops[i].mine,
         at = "repointing" => ops[i].kind = "deleteSession",
         at = "refreshed" => ver = Len(store),
         ~Over(ops[i]), had = ops[i].had \/ at = "over",
         at \notin {"sent", "begun"}
  PROVE  /\ OpMoves(i, o) /\ StoreShape' /\ Grows /\ OpShape' /\ CountShape'
         /\ o \in OpSet /\ o.kind = ops[i].kind /\ o.mine = ops[i].mine /\ o.at = at
<1>1. /\ ops[i] \in OpSet /\ OpFits(ops[i], store, nextWs, nextSess)
      /\ ops[i].ws \in Nat /\ ops[i].sess \in Nat
  BY OpIs DEF IInv
<1>2. PICK r \in OpSet : r = ops[i]
  BY <1>1
<1>3. /\ o \in OpSet /\ o.kind = r.kind /\ o.mine = r.mine
      /\ o.at = at /\ o.ws = r.ws /\ o.sess = r.sess /\ o.ver = ver /\ o.had = had
  <2>1. o = [r EXCEPT !.at = at, !.ver = ver, !.had = had]
    BY <1>2 DEF MovesTo
  <2>2. PICK P : P = Places /\ at \in P
    OBVIOUS
  <2>3. PICK K : K = Kinds
    OBVIOUS
  <2> QED
    BY <2>1, <2>2, <2>3 DEF OpSet
<1>4. OpMoves(i, o)
  BY <1>2, <1>3 DEF OpMoves, MovesTo
<1>5. /\ StoreShape' /\ Grows /\ Len(store') = Len(store) /\ StoreShape /\ OpShape /\ CountShape
      /\ store' = store /\ nextWs' = nextWs /\ nextSess' = nextSess
  BY StoreStays DEF server, IInv
<1>6. OpFits(o, store', nextWs', nextSess')
  <2>1. o.ws < nextWs /\ o.sess < nextSess
    BY <1>1, <1>2, <1>3 DEF OpFits
  <2>2. o.mine /\ o.kind = "deleteSession" /\ ~Over(o) => o.had \in DOMAIN store /\ o.ws \in DOMAIN store[o.had]
    BY <1>1, <1>2, <1>3 DEF OpFits, Over
  <2>3. o.at = "refreshed" =>
          /\ o.ver \in DOMAIN store
          /\ \A v \in o.ver..Len(store) : On(store[v], o.ws, o.sess) => On(store[o.ver], o.ws, o.sess)
    <3>1. PICK a \in Nat : a = Len(store) /\ a > 0 /\ DOMAIN store = 1..a
      BY <1>5 DEF StoreShape
    <3>2. \A v \in a..a : v = a
      BY <3>1
    <3>3. a \in 1..a
      BY <3>1
    <3> QED
      BY <1>3, <3>1, <3>2, <3>3
  <2> QED
    BY <2>1, <2>2, <2>3, <1>2, <1>3, <1>5 DEF OpFits
<1>7. OpShape'
  BY <1>4, <1>5, <1>6, MovedShape
<1>8. CountShape'
  BY <1>3, <1>4, <1>5, MovedCounts
<1> QED
  BY <1>2, <1>3, <1>4, <1>5, <1>7, <1>8

\* the first step of a handler,
LEMMA BeginKeeps ==
  ASSUME IInv, NEW i \in DOMAIN ops, Begin(i)
  PROVE  IInv'
<1>1. StoreShape /\ OpShape /\ ScreenShape /\ ButtonShape /\ CountShape /\ FetchShape
  BY DEF IInv
<1>2. PICK r \in OpSet : r = ops[i] /\ OpFits(r, store, nextWs, nextSess) /\ r.ws \in Nat /\ r.sess \in Nat
                         /\ r.ver \in Nat /\ r.had \in Nat
  BY <1>1, OpIs
<1>3. /\ r.at = "sent" /\ nextSess' = nextSess
      /\ UNCHANGED <<pending, refreshes, screen, creating, newest, missed>>
  BY <1>2, Zenon DEF Begin
<1>4. nextWs \in Nat \ {0} /\ nextSess \in Nat \ {0}
  BY <1>1 DEF StoreShape
<1>5. CASE r.kind \in Creates
  <2>1. PICK x : x = Workspace(FALSE, <<>>)
    OBVIOUS
  <2>2. x \in WsSet /\ ToSet(x.session_ids) = {}
    <3>1. x = [archived |-> FALSE, session_ids |-> <<>>]
      BY <2>1 DEF Workspace
    <3>2. <<>> \in Seq(Nat) /\ ToSet(<<>>) = {}
      BY DEF ToSet
    <3> QED
      BY <3>1, <3>2 DEF WsSet
  <2>3. nextWs \in WsIds
    <3>1. i \in Sent
      BY <1>2, <1>3 DEF Sent
    <3> QED
      BY <3>1, <1>1, Bounds
  <2>4. PICK l : l = Put(Now, nextWs, x)
    OBVIOUS
  <2>5. Store(l) /\ nextWs' = nextWs + 1 /\ ops' = [ops EXCEPT ![i].at = "begun", ![i].ws = nextWs]
    BY <1>2, <1>5, <2>1, <2>4, Zenon DEF Begin
  <2>6. PICK m \in Nat : m = nextWs' /\ m >= nextWs /\ nextWs < m
    BY <1>4, <2>5
  <2>7. l \in ListSet /\ ListFits(l, m, nextSess) /\ \A y, s : s < nextSess /\ On(l, y, s) => On(Now, y, s)
    <3>1. nextSess \in Nat /\ nextSess >= nextSess
      BY <1>4
    <3> QED
      BY <1>1, <2>2, <2>3, <2>4, <2>6, <3>1, PutFits
  <2>8. StoreShape' /\ Grows /\ Len(store') = Len(store) + 1
    <3>1. /\ nextWs' \in Nat /\ nextWs' >= nextWs /\ nextSess' \in Nat /\ nextSess' >= nextSess
          /\ ListFits(l, nextWs', nextSess')
      BY <1>3, <1>4, <2>6, <2>7
    <3> QED
      BY <1>1, <2>5, <2>7, <3>1, StoreGrows
  <2>9. PICK o : o = [r EXCEPT !.at = "begun", !.ws = nextWs]
    OBVIOUS
  <2>10. /\ o \in OpSet /\ o.kind = r.kind /\ o.mine = r.mine /\ o.at = "begun"
         /\ o.ws = nextWs /\ o.sess = r.sess
    <3>1. nextWs \in Nat /\ "begun" \in Places
      BY <1>4 DEF Places
    <3>2. PICK P : P = Places
      OBVIOUS
    <3>3. PICK K : K = Kinds
      OBVIOUS
    <3> QED
      BY <2>9, <3>1, <3>2, <3>3 DEF OpSet
  <2>11. OpMoves(i, o)
    <3>1. ops' = [ops EXCEPT ![i] = o]
      BY <1>2, <2>5, <2>9
    <3> QED
      BY <1>2, <2>10, <3>1 DEF OpMoves
  <2>12. OpFits(o, store', nextWs', nextSess')
    <3>1. o.sess < nextSess' /\ o.ws < nextWs'
      BY <1>2, <1>3, <2>6, <2>10 DEF OpFits
    <3>2. o.kind # "deleteSession"
      BY <1>5, <2>10 DEF Creates
    <3> QED
      BY <2>10, <3>1, <3>2 DEF OpFits
  <2>13. OpShape'
    BY <1>1, <2>8, <2>11, <2>12, MovedShape
  <2>14. ButtonShape'
    <3>1. ~Over(ops[i]) /\ ~Over(o) /\ creating' = creating
      BY <1>2, <1>3, <2>10 DEF Over
    <3> QED
      BY <1>1, <2>11, <3>1, MovedButtons
  <2>15. CountShape'
    <3>1. ops[i].at = "sent" /\ o.at # "sent" /\ (nextWs' = nextWs \/ (nextWs' = nextWs + 1 /\ ops[i].at = "sent"))
      BY <1>2, <1>3, <2>5, <2>10
    <3> QED
      BY <1>1, <2>8, <2>11, <3>1, MovedCounts
  <2>16. ScreenShape'
    BY <1>1, <1>3, <2>8, ScreenStays
  <2>17. FetchShape'
    <3>1. i \in DOMAIN ops' /\ ops'[i] = o
      BY <1>1, <2>11, MovedOps
    <3>2. \E j \in DOMAIN ops' : ops'[j].kind \in Creates /\ ops'[j].at = "begun"
      BY <3>1, <2>10, <1>5
    <3>3. PICK a \in Nat, b \in Nat : a = Len(store) /\ b = Len(store') /\ b = a + 1
      <4>1. Len(store) \in Nat
        BY <1>1 DEF StoreShape
      <4> QED
        BY <4>1, <2>8
    <3>4. /\ pending \in Nat /\ missed \in Nat /\ newest \in 0..a /\ refreshes \in [1..MaxVersion -> Nat]
          /\ \A v \in 1..MaxVersion : refreshes[v] > 0 => v <= a
      BY <1>1, <3>3 DEF FetchShape
    <3>5. a \in Nat /\ b \in Nat /\ b = a + 1
      BY <3>3
    <3>6. MaxVersion \in Nat
      BY ShellBoundsAssumption DEF MaxVersion
    <3>7. newest \in 0..b /\ \A v \in 1..MaxVersion : refreshes[v] > 0 => v <= b
      BY <3>4, <3>5, <3>6
    <3> QED
      BY <1>3, <3>2, <3>3, <3>4, <3>7 DEF FetchShape
  <2> QED
    BY <2>8, <2>13, <2>14, <2>15, <2>16, <2>17 DEF IInv
<1>6. CASE r.kind \notin Creates
  <2>1. store' = store /\ nextWs' = nextWs /\ ops' = [ops EXCEPT ![i].at = "begun"]
    BY <1>2, <1>6, Zenon DEF Begin, At
  <2>2. StoreShape' /\ Grows /\ Len(store') = Len(store)
    BY <1>1, <1>3, <2>1, StoreStays
  <2>3. PICK o : o = [r EXCEPT !.at = "begun"]
    OBVIOUS
  <2>4. /\ o \in OpSet /\ o.kind = r.kind /\ o.mine = r.mine /\ o.at = "begun"
        /\ o.ws = r.ws /\ o.sess = r.sess /\ o.had = r.had
    <3>1. "begun" \in Places
      BY DEF Places
    <3>2. PICK P : P = Places
      OBVIOUS
    <3>3. PICK K : K = Kinds
      OBVIOUS
    <3> QED
      BY <2>3, <3>1, <3>2, <3>3 DEF OpSet
  <2>5. OpMoves(i, o)
    <3>1. ops' = [ops EXCEPT ![i] = o]
      BY <1>2, <2>1, <2>3
    <3> QED
      BY <1>2, <2>4, <3>1 DEF OpMoves
  <2>6. OpFits(o, store', nextWs', nextSess')
    <3>1. Over(o) = FALSE /\ Over(r) = FALSE
      BY <1>3, <2>4 DEF Over
    <3> QED
      BY <1>2, <1>3, <2>1, <2>4, <3>1 DEF OpFits
  <2>7. OpShape'
    BY <1>1, <2>2, <2>5, <2>6, MovedShape
  <2>8. ButtonShape'
    <3>1. ~Over(ops[i]) /\ ~Over(o) /\ creating' = creating
      BY <1>2, <1>3, <2>4 DEF Over
    <3> QED
      BY <1>1, <2>5, <3>1, MovedButtons
  <2>9. CountShape'
    <3>1. ops[i].at = "sent" /\ o.at # "sent"
      BY <1>2, <1>3, <2>4
    <3> QED
      BY <1>1, <2>1, <2>2, <2>5, <3>1, MovedCounts
  <2>10. ScreenShape'
    BY <1>1, <1>3, <2>2, ScreenStays
  <2>11. FetchShape'
    <3>1. DOMAIN ops' = DOMAIN ops /\ \A j \in DOMAIN ops : j # i => ops'[j] = ops[j]
      BY <1>1, <2>5, MovedOps
    <3>2. \A j \in DOMAIN ops : ops[j].kind \in Creates /\ ops[j].at = "begun" => j # i
      BY <1>2, <1>6
    <3> QED
      BY <1>1, <1>3, <2>1, <3>1, <3>2, FetchKeeps
  <2> QED
    BY <2>2, <2>7, <2>8, <2>9, <2>10, <2>11 DEF IInv
<1> QED
  BY <1>5, <1>6

\* its last one, with the broadcast,
LEMMA HandleKeeps ==
  ASSUME IInv, NEW i \in DOMAIN ops, Handle(i)
  PROVE  IInv'
<1>1. StoreShape /\ OpShape /\ ScreenShape /\ ButtonShape /\ CountShape /\ FetchShape
  BY DEF IInv
<1>2. PICK r \in OpSet : r = ops[i] /\ OpFits(r, store, nextWs, nextSess) /\ r.ws \in Nat /\ r.sess \in Nat
                         /\ r.ver \in Nat /\ r.had \in Nat /\ r.kind \in Kinds /\ r.mine \in BOOLEAN
  BY <1>1, OpIs
<1>3. PICK n : n = IF Spawns(r) THEN nextSess + 1 ELSE nextSess
  OBVIOUS
<1>4. PICK at, sess : at = Answer(r, TRUE) /\ sess = (IF Spawns(r) THEN nextSess ELSE r.sess)
  OBVIOUS
<1>5. /\ IF r.kind \in AtOnce THEN r.at = "sent" /\ ~Refused(r) ELSE r.at = "begun" /\ ~Gone(r)
      /\ Store(Changed(r)) /\ nextSess' = n /\ pending' = pending + 1
      /\ nextWs' = nextWs /\ UNCHANGED <<refreshes, screen, creating, newest, missed>>
  BY <1>2, <1>3, Zenon DEF Handle
<1>6. ops' = [ops EXCEPT ![i] = [r EXCEPT !.at = at, !.sess = sess]]
  BY <1>2, <1>4 DEF Handle
<1>7. nextWs \in Nat \ {0} /\ nextSess \in Nat \ {0}
  BY <1>1 DEF StoreShape
<1>8. n \in Nat /\ n >= nextSess /\ sess \in Nat /\ sess < n
  BY <1>2, <1>3, <1>4, <1>7 DEF OpFits
<1>9. at = IF r.mine THEN "answered" ELSE "over"
  BY <1>4 DEF Answer
<1>10. StoreShape' /\ Grows /\ Len(store') = Len(store) + 1
  <2>1. Spawns(r) \/ r.ws \in DOMAIN Now
    BY <1>5 DEF Refused, Gone, AtOnce, Creates
  <2>2. r.ws < nextWs
    BY <1>2 DEF OpFits
  <2>3. /\ Changed(r) \in ListSet /\ ListFits(Changed(r), nextWs, n)
        /\ \A y, s : s < nextSess /\ On(Changed(r), y, s) => On(Now, y, s)
    BY <1>1, <1>3, <1>8, <2>1, <2>2, ChangedFits
  <2>4. PICK l \in ListSet : l = Changed(r)
    BY <2>3
  <2>5. /\ nextWs' \in Nat /\ nextWs' >= nextWs /\ nextSess' \in Nat /\ nextSess' >= nextSess
        /\ ListFits(l, nextWs', nextSess') /\ Store(l)
        /\ \A y, s : s < nextSess /\ On(l, y, s) => On(Now, y, s)
    BY <1>5, <1>7, <1>8, <2>3, <2>4
  <2> QED
    BY <1>1, <2>5, StoreGrows
<1>11. PICK o : o = [r EXCEPT !.at = at, !.sess = sess]
  OBVIOUS
<1>12. /\ o \in OpSet /\ o.kind = r.kind /\ o.mine = r.mine /\ o.at = at
       /\ o.ws = r.ws /\ o.sess = sess /\ o.had = r.had
  <2>1. at \in Places
    BY <1>9 DEF Places
  <2>2. PICK P : P = Places
    OBVIOUS
  <2>3. PICK K : K = Kinds
    OBVIOUS
  <2> QED
    BY <1>8, <1>11, <2>1, <2>2, <2>3 DEF OpSet
<1>13. OpMoves(i, o)
  BY <1>2, <1>6, <1>11, <1>12 DEF OpMoves
<1>14. OpFits(o, store', nextWs', nextSess')
  <2>1. OpFits(r, store', nextWs', nextSess')
    BY <1>1, <1>2, <1>10, OpKeeps
  <2>2. ~Over(r)
    BY <1>5 DEF Over
  <2>3. o.ws < nextWs' /\ o.sess < nextSess'
    BY <1>5, <1>8, <1>12, <2>1 DEF OpFits
  <2> QED
    BY <1>9, <1>12, <2>1, <2>2, <2>3 DEF OpFits
<1>15. OpShape'
  BY <1>1, <1>10, <1>13, <1>14, MovedShape
<1>16. ButtonShape'
  <2>1. ~Over(ops[i]) /\ creating' = creating
    BY <1>2, <1>5 DEF Over
  <2>2. CASE r.mine
    <3>1. ~Over(o)
      BY <1>9, <1>12, <2>2 DEF Over
    <3> QED
      BY <1>1, <1>13, <2>1, <3>1, MovedButtons
  <2>3. CASE ~r.mine
    <3>1. ~Creation(ops[i])
      BY <1>2, <2>3 DEF Creation
    <3> QED
      BY <1>1, <1>13, <2>1, <3>1, MovedButtons
  <2> QED
    BY <2>2, <2>3
<1>17. CountShape'
  <2>1. o.at # "sent" /\ o.at # "begun"
    BY <1>9, <1>12
  <2>2. ops[i].at = "sent" \/ (ops[i].at = "begun" /\ o.at # "begun")
    BY <1>2, <1>5, <2>1
  <2> QED
    BY <1>1, <1>5, <1>10, <1>13, <2>1, <2>2, MovedCounts
<1>18. ScreenShape'
  BY <1>1, <1>5, <1>10, ScreenStays
<1>19. FetchShape'
  <2>1. PICK a \in Nat, b \in Nat : a = Len(store) /\ b = Len(store') /\ b = a + 1
    <3>1. Len(store) \in Nat
      BY <1>1 DEF StoreShape
    <3> QED
      BY <3>1, <1>10
  <2>2. /\ pending \in Nat /\ missed \in Nat /\ newest \in 0..a /\ refreshes \in [1..MaxVersion -> Nat]
        /\ \A v \in 1..MaxVersion : refreshes[v] > 0 => v <= a
    BY <1>1, <2>1 DEF FetchShape
  <2>3. a \in Nat /\ b \in Nat /\ b = a + 1
    BY <2>1
  <2>4. MaxVersion \in Nat
    BY ShellBoundsAssumption DEF MaxVersion
  <2>5. newest \in 0..b /\ \A v \in 1..MaxVersion : refreshes[v] > 0 => v <= b
    BY <2>2, <2>3, <2>4
  <2>6. pending' \in Nat /\ pending' > 0
    BY <1>5, <2>2
  <2> QED
    BY <1>5, <2>1, <2>2, <2>5, <2>6 DEF FetchShape
<1> QED
  BY <1>10, <1>15, <1>16, <1>17, <1>18, <1>19 DEF IInv

\* a handler that refuses,
LEMMA RefuseKeeps ==
  ASSUME IInv, NEW i \in DOMAIN ops, Refuse(i)
  PROVE  IInv'
<1>1. StoreShape /\ OpShape /\ ScreenShape /\ ButtonShape /\ CountShape /\ FetchShape
  BY DEF IInv
<1>2. PICK r \in OpSet : /\ r = ops[i] /\ r.kind \in Kinds /\ r.mine \in BOOLEAN
                         /\ r.ver \in Nat /\ r.had \in Nat
  BY <1>1, OpIs
<1>3. PICK at : at = Answer(r, FALSE)
  OBVIOUS
<1>4. /\ (r.at = "sent" /\ Refused(r)) \/ (r.at = "begun" /\ Gone(r))
      /\ ops' = At(i, at)
      /\ UNCHANGED <<server, pending, refreshes, screen, creating, newest, missed>>
  BY <1>2, <1>3, Zenon DEF Refuse
<1>5. at \in {"answered", "over"} /\ at \in Places /\ (at = "answered" => r.mine)
  BY <1>3 DEF Answer, Places
<1>6. PICK o : o = [ops[i] EXCEPT !.at = at, !.ver = r.ver, !.had = r.had]
  OBVIOUS
<1>7. ops' = [ops EXCEPT ![i] = o]
  <2>1. o = [r EXCEPT !.at = at]
    BY <1>2, <1>6 DEF OpSet
  <2> QED
    BY <2>1, <1>2, <1>4 DEF At
<1>8. ~Over(ops[i]) /\ r.kind \notin Creates
  BY <1>2, <1>4 DEF Over, Refused, Gone, Spawns, Creates
<1>9. /\ OpMoves(i, o) /\ StoreShape' /\ Grows /\ OpShape' /\ CountShape'
      /\ o.kind = r.kind /\ o.mine = r.mine /\ o.at = at
  <2>1. /\ at \in {"answered", "refreshed", "repointing"} => ops[i].mine
        /\ at = "repointing" => ops[i].kind = "deleteSession"
        /\ at = "refreshed" => r.ver = Len(store)
        /\ r.had = ops[i].had \/ at = "over"
        /\ at \notin {"sent", "begun"}
        /\ UNCHANGED server
    BY <1>2, <1>4, <1>5
  <2>2. at \in Places /\ r.ver \in Nat /\ r.had \in Nat /\ ~Over(ops[i])
    BY <1>2, <1>5, <1>8
  <2>3. /\ OpMoves(i, o) /\ StoreShape' /\ Grows /\ OpShape' /\ CountShape'
        /\ o \in OpSet /\ o.kind = ops[i].kind /\ o.mine = ops[i].mine /\ o.at = at
    <3>1. MovesTo(i, o, at, r.ver, r.had)
      BY <1>6, <1>7 DEF MovesTo
    <3> QED
      BY <2>1, <2>2, <3>1, MoveOn, SMT
  <2> QED
    BY <1>2, <2>3
<1>10. ButtonShape'
  <2>1. ~Creation(ops[i])
    BY <1>2, <1>8 DEF Creation
  <2> QED
    BY <1>1, <1>4, <1>8, <1>9, <2>1, MovedButtons
<1>11. ScreenShape'
  BY <1>1, <1>4, <1>9, ScreenStays
<1>12. FetchShape'
  <2>1. DOMAIN ops' = DOMAIN ops /\ \A j \in DOMAIN ops : j # i => ops'[j] = ops[j]
    BY <1>1, <1>9, MovedOps
  <2>2. \A j \in DOMAIN ops : ops[j].kind \in Creates /\ ops[j].at = "begun" => j # i
    BY <1>2, <1>8
  <2>3. UNCHANGED <<store, pending, refreshes, missed, newest>>
    BY <1>4 DEF server
  <2> QED
    BY <1>1, <2>1, <2>2, <2>3, FetchKeeps
<1> QED
  BY <1>9, <1>10, <1>11, <1>12 DEF IInv

\* a request or an answer that is lost,
LEMMA LostKeeps ==
  ASSUME IInv, NEW i \in DOMAIN ops, Lost(i)
  PROVE  IInv'
<1>1. StoreShape /\ OpShape /\ ScreenShape /\ ButtonShape /\ CountShape /\ FetchShape
  BY DEF IInv
<1>2. PICK r \in OpSet : r = ops[i] /\ r.kind \in Kinds /\ r.mine \in BOOLEAN
  BY <1>1, OpIs
<1>3. /\ r.mine /\ r.at \in {"sent", "answered"} /\ ops' = End(i) /\ creating' = creating \ {r.kind}
      /\ UNCHANGED <<server, pending, refreshes, screen, newest, missed>>
  BY <1>2, Zenon DEF Lost, Settled
<1>4. PICK o : o = [ops[i] EXCEPT !.at = "over", !.ver = 0, !.had = 0]
  OBVIOUS
<1>5. ops' = [ops EXCEPT ![i] = o]
  BY <1>3, <1>4 DEF End
<1>6. ~Over(ops[i])
  BY <1>2, <1>3 DEF Over
<1>7. /\ OpMoves(i, o) /\ StoreShape' /\ Grows /\ OpShape' /\ CountShape'
      /\ o.kind = r.kind /\ o.mine = r.mine /\ o.at = "over"
  <2>1. "over" \in Places /\ 0 \in Nat /\ UNCHANGED server
    BY <1>3 DEF Places
  <2>2. PICK at : at = "over"
    OBVIOUS
  <2>3. /\ at \in Places /\ at \notin {"sent", "begun"} /\ at \notin {"answered", "refreshed", "repointing"}
        /\ at # "repointing" /\ at # "refreshed" /\ at = "over"
    BY <2>1, <2>2
  <2>4. MovesTo(i, o, at, 0, 0)
    BY <1>4, <1>5, <2>2 DEF MovesTo
  <2>5. /\ OpMoves(i, o) /\ StoreShape' /\ Grows /\ OpShape' /\ CountShape'
        /\ o \in OpSet /\ o.kind = ops[i].kind /\ o.mine = ops[i].mine /\ o.at = at
    BY <1>6, <2>1, <2>3, <2>4, MoveOn, SMT
  <2> QED
    BY <1>2, <2>2, <2>5
<1>8. ButtonShape'
  <2>1. Over(o) /\ o.mine /\ creating' = creating \ {o.kind}
    BY <1>3, <1>7 DEF Over
  <2> QED
    BY <1>1, <1>6, <1>7, <2>1, MovedButtons
<1>9. ScreenShape'
  BY <1>1, <1>3, <1>7, ScreenStays
<1>10. FetchShape'
  <2>1. DOMAIN ops' = DOMAIN ops /\ \A j \in DOMAIN ops : j # i => ops'[j] = ops[j]
    BY <1>1, <1>7, MovedOps
  <2>2. \A j \in DOMAIN ops : ops[j].kind \in Creates /\ ops[j].at = "begun" => j # i
    BY <1>2, <1>3
  <2>3. UNCHANGED <<store, pending, refreshes, missed, newest>>
    BY <1>3 DEF server
  <2> QED
    BY <1>1, <2>1, <2>2, <2>3, FetchKeeps
<1> QED
  BY <1>7, <1>8, <1>9, <1>10 DEF IInv

\* an answer, after which the list is fetched,
LEMMA AwaitRefreshKeeps ==
  ASSUME IInv, NEW i \in DOMAIN ops, AwaitRefresh(i)
  PROVE  IInv'
<1>1. StoreShape /\ OpShape /\ ScreenShape /\ ButtonShape /\ CountShape /\ FetchShape
  BY DEF IInv
<1>2. PICK r \in OpSet : /\ r = ops[i] /\ r.kind \in Kinds /\ r.mine \in BOOLEAN /\ r.had \in Nat
                         /\ OpFits(r, store, nextWs, nextSess)
  BY <1>1, OpIs
<1>3. PICK len \in Nat : len = Len(store)
  BY <1>1 DEF StoreShape
<1>4. /\ r.at = "answered" /\ ops' = [ops EXCEPT ![i].at = "refreshed", ![i].ver = len]
      /\ UNCHANGED <<server, pending, refreshes, screen, creating, newest, missed>>
  BY <1>2, <1>3, Zenon DEF AwaitRefresh
<1>5. PICK o : o = [ops[i] EXCEPT !.at = "refreshed", !.ver = len, !.had = r.had]
  OBVIOUS
<1>6. ops' = [ops EXCEPT ![i] = o]
  <2>1. o = [r EXCEPT !.at = "refreshed", !.ver = len]
    BY <1>2, <1>5 DEF OpSet
  <2> QED
    BY <2>1, <1>2, <1>4
<1>7. ~Over(ops[i])
  BY <1>2, <1>4 DEF Over
<1>8. /\ OpMoves(i, o) /\ StoreShape' /\ Grows /\ OpShape' /\ CountShape'
      /\ o.kind = r.kind /\ o.mine = r.mine /\ o.at = "refreshed"
  <2>1. "refreshed" \in Places /\ UNCHANGED server /\ ops[i].mine /\ r.had = ops[i].had
    BY <1>2, <1>4 DEF Places, OpFits
  <2>2. PICK at : at = "refreshed"
    OBVIOUS
  <2>3. at \in Places /\ at \notin {"sent", "begun"} /\ at # "repointing" /\ len \in Nat /\ r.had \in Nat
    BY <2>1, <2>2, <1>2
  <2>4. MovesTo(i, o, at, len, r.had)
    BY <1>5, <1>6, <2>2 DEF MovesTo
  <2>5. /\ OpMoves(i, o) /\ StoreShape' /\ Grows /\ OpShape' /\ CountShape'
        /\ o \in OpSet /\ o.kind = ops[i].kind /\ o.mine = ops[i].mine /\ o.at = at
    <3>1. /\ at \in {"answered", "refreshed", "repointing"} => ops[i].mine
          /\ at = "repointing" => ops[i].kind = "deleteSession"
          /\ at = "refreshed" => len = Len(store)
          /\ r.had = ops[i].had \/ at = "over"
          /\ UNCHANGED server
      BY <1>3, <2>1, <2>3
    <3> QED
      BY <1>7, <2>3, <2>4, <3>1, MoveOn, SMT
  <2> QED
    BY <1>2, <2>2, <2>5
<1>9. ButtonShape'
  <2>1. ~Over(o)
    BY <1>8 DEF Over
  <2> QED
    BY <1>1, <1>4, <1>7, <1>8, <2>1, MovedButtons
<1>10. ScreenShape'
  BY <1>1, <1>4, <1>8, ScreenStays
<1>11. FetchShape'
  <2>1. DOMAIN ops' = DOMAIN ops /\ \A j \in DOMAIN ops : j # i => ops'[j] = ops[j]
    BY <1>1, <1>8, MovedOps
  <2>2. \A j \in DOMAIN ops : ops[j].kind \in Creates /\ ops[j].at = "begun" => j # i
    BY <1>2, <1>4
  <2>3. UNCHANGED <<store, pending, refreshes, missed, newest>>
    BY <1>4 DEF server
  <2> QED
    BY <1>1, <2>1, <2>2, <2>3, FetchKeeps
<1> QED
  BY <1>8, <1>9, <1>10, <1>11 DEF IInv

(* -------------------------- refreshes and clicks -------------------------- *)

\* The greater of two.
LEMMA MaxOfTwo ==
  ASSUME NEW a \in Nat, NEW b \in Nat
  PROVE  Max({a, b}) = IF a >= b THEN a ELSE b
<1>1. PICK m : m = IF a >= b THEN a ELSE b
  OBVIOUS
<1>2. m \in {a, b} /\ \A y \in {a, b} : m >= y
  BY <1>1
<1>3. \A x \in {a, b} : (\A y \in {a, b} : x >= y) => x = m
  BY <1>1
<1>4. Max({a, b}) = m
  BY <1>2, <1>3 DEF Max
<1> QED
  BY <1>1, <1>4

\* A GET of the list ends.
LEMMA FetchLands ==
  ASSUME StoreShape, FetchShape, store' = store, pending' = pending,
         NEW v \in 1..Len(store), NEW ok \in BOOLEAN,
         missed' = IF ok THEN missed ELSE missed + 1,
         newest' = IF ok THEN Max({newest, v}) ELSE newest,
         refreshes' \in [1..MaxVersion -> Nat],
         \A x \in 1..MaxVersion : refreshes'[x] > 0 => refreshes[x] > 0,
         ok /\ v # Len(store) => refreshes'[Len(store)] = refreshes[Len(store)],
         \A j \in DOMAIN ops : ops[j].kind \in Creates /\ ops[j].at = "begun" =>
                                 j \in DOMAIN ops' /\ ops'[j] = ops[j]
  PROVE  FetchShape'
<1>1. PICK len \in Nat : len = Len(store) /\ len > 0
  BY DEF StoreShape
<1>2. /\ pending \in Nat /\ missed \in Nat /\ newest \in 0..len /\ newest \in Nat
      /\ \A x \in 1..MaxVersion : refreshes[x] > 0 => x <= len
  BY <1>1 DEF FetchShape
<1>3. v \in 1..len /\ v \in Nat
  BY <1>1
<1>4. newest' = IF ok /\ newest < v THEN v ELSE newest
  BY <1>2, <1>3, MaxOfTwo
<1>5. newest' \in 0..len /\ missed' \in Nat
  BY <1>1, <1>2, <1>3, <1>4
<1>6. ASSUME missed' = 0
      PROVE  \/ newest' = len \/ pending' > 0 \/ refreshes'[len] > 0
             \/ \E i \in DOMAIN ops' : ops'[i].kind \in Creates /\ ops'[i].at = "begun"
  <2>1. ok /\ missed = 0
    BY <1>2, <1>6
  <2>2. \/ newest = len \/ pending > 0 \/ refreshes[len] > 0
        \/ \E i \in DOMAIN ops : ops[i].kind \in Creates /\ ops[i].at = "begun"
    BY <1>1, <2>1 DEF FetchShape
  <2>3. CASE newest = len
    BY <2>3, <1>1, <1>3, <1>4
  <2>4. CASE pending > 0
    BY <2>4
  <2>5. CASE refreshes[len] > 0
    <3>1. CASE v = len
      BY <2>1, <3>1, <1>1, <1>2, <1>4
    <3>2. CASE v # len
      <4>1. refreshes'[len] = refreshes[len]
        BY <1>1, <2>1, <3>2
      <4> QED
        BY <4>1, <2>5
    <3> QED
      BY <3>1, <3>2
  <2>6. CASE \E i \in DOMAIN ops : ops[i].kind \in Creates /\ ops[i].at = "begun"
    <3>1. PICK i \in DOMAIN ops : ops[i].kind \in Creates /\ ops[i].at = "begun"
      BY <2>6
    <3>2. i \in DOMAIN ops' /\ ops'[i] = ops[i]
      BY <3>1
    <3> QED
      BY <3>1, <3>2
  <2> QED
    BY <2>2, <2>3, <2>4, <2>5, <2>6
<1>7. \A x \in 1..MaxVersion : refreshes'[x] > 0 => x <= len
  BY <1>2
<1>8. Len(store') = len
  BY <1>1
<1> QED
  BY <1>2, <1>5, <1>6, <1>7, <1>8 DEF FetchShape

\* the GET for an app event,
LEMMA RefreshKeeps ==
  ASSUME IInv, Refresh
  PROVE  IInv'
<1>1. StoreShape /\ OpShape /\ ScreenShape /\ ButtonShape /\ CountShape /\ FetchShape
  BY DEF IInv
<1>2. /\ pending > 0 /\ pending' = pending - 1
      /\ refreshes' = [refreshes EXCEPT ![Len(store)] = @ + 1]
      /\ UNCHANGED <<server, ops, screen, creating, newest, missed>>
  BY Zenon DEF Refresh
<1>3. StoreShape' /\ Grows /\ store' = store /\ nextWs' = nextWs /\ nextSess' = nextSess
  BY <1>1, <1>2, StoreStays DEF server
<1>4. ScreenShape'
  BY <1>1, <1>2, <1>3, ScreenStays
<1>5. OpShape' /\ ButtonShape' /\ CountShape'
  <2>1. OpShape'
    BY <1>1, <1>2, <1>3 DEF OpShape
  <2>2. ButtonShape'
    BY <1>1, <1>2 DEF ButtonShape
  <2>3. CountShape'
    BY <1>1, <1>2, <1>3 DEF CountShape, Sent, Unhandled
  <2> QED
    BY <2>1, <2>2, <2>3
<1>6. PICK len \in 1..MaxVersion : len = Len(store) /\ len \in Nat
  BY <1>1, Bounds DEF StoreShape
<1>7. /\ pending \in Nat /\ missed \in Nat /\ newest \in 0..len
      /\ refreshes \in [1..MaxVersion -> Nat]
      /\ \A x \in 1..MaxVersion : refreshes[x] > 0 => x <= len
  BY <1>1, <1>6 DEF FetchShape
<1>8. /\ refreshes' \in [1..MaxVersion -> Nat] /\ refreshes'[len] > 0
      /\ \A x \in 1..MaxVersion : x # len => refreshes'[x] = refreshes[x]
  BY <1>2, <1>6, <1>7
<1>9. \A x \in 1..MaxVersion : refreshes'[x] > 0 => x <= len
  BY <1>6, <1>7, <1>8
<1>10. pending' \in Nat /\ missed' \in Nat /\ newest' \in 0..len /\ Len(store') = len
  BY <1>2, <1>3, <1>6, <1>7
<1>11. FetchShape'
  BY <1>8, <1>9, <1>10 DEF FetchShape
<1> QED
  BY <1>3, <1>4, <1>5, <1>11 DEF IInv

\* Only what is on screen changes, and what has been fetched.
LEMMA OpsStay ==
  ASSUME IInv, UNCHANGED <<server, ops, creating>>
  PROVE  /\ StoreShape' /\ Grows /\ OpShape' /\ ButtonShape' /\ CountShape'
         /\ store' = store /\ nextWs' = nextWs /\ nextSess' = nextSess
<1>1. StoreShape /\ OpShape /\ ButtonShape /\ CountShape
  BY DEF IInv
<1>2. StoreShape' /\ Grows /\ store' = store /\ nextWs' = nextWs /\ nextSess' = nextSess
  BY <1>1, StoreStays DEF server
<1>3. OpShape'
  BY <1>1, <1>2 DEF OpShape
<1>4. ButtonShape'
  BY <1>1 DEF ButtonShape
<1>5. CountShape'
  BY <1>1, <1>2 DEF CountShape, Sent, Unhandled
<1> QED
  BY <1>2, <1>3, <1>4, <1>5

\* its answer,
LEMMA LandKeeps ==
  ASSUME IInv, NEW v \in 1..MaxVersion, NEW ok \in BOOLEAN, Land(v, ok)
  PROVE  IInv'
<1>1. StoreShape /\ OpShape /\ ScreenShape /\ ButtonShape /\ CountShape /\ FetchShape
  BY DEF IInv
<1>2. PICK c : c = IF ok THEN v ELSE shown
  OBVIOUS
<1>3. /\ refreshes[v] > 0
      /\ refreshes' = [refreshes EXCEPT ![v] = @ - 1]
      /\ missed' = IF ok THEN missed ELSE missed + 1
      /\ newest' = IF ok THEN Max({newest, v}) ELSE newest
      /\ UNCHANGED <<server, ops, pending, creating>>
  BY Zenon DEF Land
<1>4. Show(c, TRUE, activeWs, activeBy)
  BY <1>2, Zenon DEF Land, Hydrated
<1>5. /\ StoreShape' /\ Grows /\ OpShape' /\ ButtonShape' /\ CountShape'
      /\ store' = store /\ nextWs' = nextWs /\ nextSess' = nextSess
  BY <1>3, OpsStay
<1>6. PICK len \in Nat : len = Len(store) /\ len > 0
  BY <1>1 DEF StoreShape
<1>7. v \in 1..len
  BY <1>1, <1>3, <1>6 DEF FetchShape
<1>8. ScreenShape'
  <2>1. c \in 0..Len(store) /\ activeWs \in 0..(nextWs - 1) /\ activeBy \in [WsIds -> 0..(nextSess - 1)]
    BY <1>1, <1>2, <1>6, <1>7 DEF ScreenShape
  <2>2. UNCHANGED server /\ TRUE \in BOOLEAN
    BY <1>3
  <2> QED
    BY <1>1, <1>4, <2>1, <2>2, ShowScreen
<1>9. FetchShape'
  <2>1. /\ refreshes \in [1..MaxVersion -> Nat]
        /\ refreshes' \in [1..MaxVersion -> Nat]
        /\ \A x \in 1..MaxVersion : x # v => refreshes'[x] = refreshes[x]
    BY <1>1, <1>3 DEF FetchShape
  <2>2. \A x \in 1..MaxVersion : refreshes'[x] > 0 => refreshes[x] > 0
    BY <1>3, <2>1
  <2>3. ok /\ v # Len(store) => refreshes'[Len(store)] = refreshes[Len(store)]
    <3>1. Len(store) \in 1..MaxVersion
      BY <1>1, Bounds
    <3> QED
      BY <2>1, <3>1
  <2>4. v \in 1..Len(store)
    BY <1>6, <1>7
  <2>5. pending' = pending /\ ops' = ops
    BY <1>3
  <2> QED
    BY <1>1, <1>3, <1>5, <2>1, <2>2, <2>3, <2>4, <2>5, FetchLands
<1> QED
  BY <1>5, <1>8, <1>9 DEF IInv

\* a click,
LEMMA PickKeeps ==
  ASSUME IInv, NEW w \in WsIds, NEW s \in Nat, Pick(w, s)
  PROVE  IInv'
<1>1. StoreShape /\ OpShape /\ ScreenShape /\ ButtonShape /\ CountShape /\ FetchShape
  BY DEF IInv
<1>2. PICK by : by = IF s = 0 THEN activeBy ELSE [activeBy EXCEPT ![w] = s]
  OBVIOUS
<1>3. /\ w \in DOMAIN list
      /\ s # 0 => s \in ToSet(list[w].session_ids)
      /\ UNCHANGED <<server, ops, pending, refreshes, creating, newest, missed>>
      /\ Show(shown, hydrated, w, by)
  BY <1>2, Zenon DEF Pick
<1>4. /\ StoreShape' /\ Grows /\ OpShape' /\ ButtonShape' /\ CountShape'
      /\ store' = store /\ nextWs' = nextWs /\ nextSess' = nextSess
  BY <1>3, OpsStay
<1>5. w \in 1..(nextWs - 1) /\ (s # 0 => s \in 1..(nextSess - 1))
  BY <1>3, Listed
<1>6. PICK m \in Nat, n \in Nat : m = nextWs /\ n = nextSess /\ m > 0 /\ n > 0
  BY <1>1, StoreNumbers, Zenon
<1>7. ScreenShape'
  <2>1. activeBy \in [WsIds -> 0..(n - 1)] /\ hydrated \in BOOLEAN /\ shown \in 0..Len(store)
    BY <1>1, <1>6 DEF ScreenShape
  <2>2. by \in [WsIds -> 0..(n - 1)]
    <3>1. CASE s = 0
      BY <1>2, <2>1, <3>1
    <3>2. CASE s # 0
      <4>1. s \in 0..(n - 1)
        BY <1>5, <1>6, <3>2
      <4> QED
        BY <1>2, <2>1, <3>2, <4>1
    <3> QED
      BY <3>1, <3>2
  <2>3. by \in [WsIds -> 0..(nextSess - 1)] /\ w \in 0..(nextWs - 1) /\ UNCHANGED server
    BY <1>3, <1>5, <1>6, <2>2
  <2> QED
    BY <1>1, <1>3, <2>1, <2>3, ShowScreen
<1>8. FetchShape'
  BY <1>1, <1>3, <1>4, FetchKeeps
<1> QED
  BY <1>4, <1>7, <1>8 DEF IInv

\* The rest of an operation: it waits for the list of sessions, or is over.
LEMMA RestOf ==
  ASSUME IInv, UNCHANGED server, NEW i \in DOMAIN ops, ~Over(ops[i]), ops[i].mine,
         ops' = End(i) \/ (ops[i].kind = "deleteSession" /\ ops' = At(i, "repointing"))
  PROVE  /\ StoreShape' /\ Grows /\ OpShape' /\ CountShape'
         /\ \E o \in OpSet : /\ OpMoves(i, o) /\ o.kind = ops[i].kind /\ o.mine
                             /\ Over(o) \/ o.kind = "deleteSession"
<1>1. PICK r \in OpSet : r = ops[i] /\ r.ver \in Nat /\ r.had \in Nat
  BY OpIs DEF IInv
<1>2. CASE ops' = End(i)
  <2>1. PICK at \in Places : at = "over"
    BY DEF Places
  <2>2. PICK o : o = [ops[i] EXCEPT !.at = at, !.ver = 0, !.had = 0]
    OBVIOUS
  <2>3. MovesTo(i, o, at, 0, 0)
    BY <1>2, <2>1, <2>2 DEF MovesTo, End
  <2>4. OpMoves(i, o) /\ StoreShape' /\ Grows /\ OpShape' /\ CountShape'
    <3>1. /\ at \in {"answered", "refreshed", "repointing"} => ops[i].mine
          /\ at = "repointing" => ops[i].kind = "deleteSession"
          /\ at = "refreshed" => 0 = Len(store)
          /\ 0 = ops[i].had \/ at = "over"
          /\ at \notin {"sent", "begun"} /\ 0 \in Nat
      BY <2>1
    <3> QED
      BY <2>1, <2>3, <3>1, MoveOn, Zenon
  <2>5. o \in OpSet /\ o.kind = ops[i].kind /\ o.mine
    BY <2>4 DEF OpMoves
  <2>6. Over(o)
    BY <1>1, <2>1, <2>2 DEF Over, OpSet
  <2> QED
    BY <2>4, <2>5, <2>6
<1>3. CASE ops[i].kind = "deleteSession" /\ ops' = At(i, "repointing")
  <2>1. PICK at \in Places : at = "repointing"
    BY DEF Places
  <2>2. PICK o : o = [ops[i] EXCEPT !.at = at, !.ver = r.ver, !.had = r.had]
    OBVIOUS
  <2>3. MovesTo(i, o, at, r.ver, r.had)
    <3>1. o = [r EXCEPT !.at = at]
      BY <1>1, <2>2 DEF OpSet
    <3> QED
      BY <1>1, <1>3, <2>1, <2>2, <3>1 DEF MovesTo, At
  <2>4. OpMoves(i, o) /\ StoreShape' /\ Grows /\ OpShape' /\ CountShape'
    <3>1. /\ at \in {"answered", "refreshed", "repointing"} => ops[i].mine
          /\ at = "repointing" => ops[i].kind = "deleteSession"
          /\ at = "refreshed" => r.ver = Len(store)
          /\ r.had = ops[i].had \/ at = "over"
          /\ at \notin {"sent", "begun"} /\ r.ver \in Nat /\ r.had \in Nat
      BY <1>1, <1>3, <2>1
    <3> QED
      BY <2>1, <2>3, <3>1, MoveOn, Zenon
  <2>5. o \in OpSet /\ o.kind = ops[i].kind /\ o.mine
    BY <2>4 DEF OpMoves
  <2> QED
    BY <1>3, <2>4, <2>5
<1> QED
  BY <1>2, <1>3

\* What is the same for every way on from a refresh that was awaited.
LEMMA RestKeeps ==
  ASSUME IInv, UNCHANGED server, NEW i \in DOMAIN ops, ~Over(ops[i]), ops[i].mine, ops[i].at # "begun",
         ops' = End(i) \/ (ops[i].kind = "deleteSession" /\ ops' = At(i, "repointing")),
         creating' = creating \ {ops[i].kind}
  PROVE  /\ StoreShape' /\ Grows /\ OpShape' /\ CountShape' /\ ButtonShape'
         /\ \A j \in DOMAIN ops : ops[j].kind \in Creates /\ ops[j].at = "begun" =>
                                    j \in DOMAIN ops' /\ ops'[j] = ops[j]
<1>1. /\ StoreShape' /\ Grows /\ OpShape' /\ CountShape'
      /\ \E o \in OpSet : /\ OpMoves(i, o) /\ o.kind = ops[i].kind /\ o.mine
                          /\ Over(o) \/ o.kind = "deleteSession"
  BY RestOf
<1>2. PICK o \in OpSet : /\ OpMoves(i, o) /\ o.kind = ops[i].kind /\ o.mine
                         /\ Over(o) \/ o.kind = "deleteSession"
  BY <1>1
<1>3. OpShape /\ ButtonShape
  BY DEF IInv
<1>4. ButtonShape'
  <2>1. "deleteSession" \notin Creates /\ creating' = creating \ {o.kind}
    BY <1>2 DEF Creates
  <2>2. \/ Over(o) /\ o.mine /\ ~Over(ops[i]) /\ creating' = creating \ {o.kind}
        \/ o.kind \notin Creates /\ creating' = creating \ {o.kind}
    BY <1>2, <2>1
  <2> QED
    BY <1>2, <1>3, <2>2, MovedButtons
<1>5. DOMAIN ops' = DOMAIN ops /\ \A j \in DOMAIN ops : j # i => ops'[j] = ops[j]
  BY <1>2, <1>3, MovedOps
<1> QED
  BY <1>1, <1>4, <1>5

\* the answer to a refresh that was awaited,
LEMMA RefreshedKeeps ==
  ASSUME IInv, NEW i \in DOMAIN ops, NEW ok \in BOOLEAN, Refreshed(i, ok)
  PROVE  IInv'
<1>1. StoreShape /\ OpShape /\ ScreenShape /\ ButtonShape /\ CountShape /\ FetchShape
  BY DEF IInv
<1>2. PICK r \in OpSet : r = ops[i] /\ OpFits(r, store, nextWs, nextSess) /\ r.ws \in Nat /\ r.sess \in Nat
  BY <1>1, OpIs
<1>3. PICK v : v = IF ok THEN r.ver ELSE shown
  OBVIOUS
<1>4. /\ r.at = "refreshed"
      /\ missed' = IF ok THEN missed ELSE missed + 1
      /\ newest' = IF ok THEN Max({newest, r.ver}) ELSE newest
      /\ ops' = IF r.kind = "deleteSession" THEN At(i, "repointing") ELSE End(i)
      /\ creating' = creating \ {r.kind}
      /\ UNCHANGED <<server, pending, refreshes>>
  BY <1>2, Zenon DEF Refreshed, Settled
<1>5. Opens(r, v)
  BY <1>2, <1>3, Zenon DEF Refreshed
<1>6. r.mine /\ r.ver \in DOMAIN store /\ r.ws < nextWs /\ r.sess < nextSess
  BY <1>2, <1>4 DEF OpFits
<1>7. /\ StoreShape' /\ Grows /\ OpShape' /\ CountShape' /\ ButtonShape'
      /\ \A j \in DOMAIN ops : ops[j].kind \in Creates /\ ops[j].at = "begun" =>
                                 j \in DOMAIN ops' /\ ops'[j] = ops[j]
  <2>1. /\ ~Over(ops[i]) /\ ops[i].mine /\ ops[i].at # "begun" /\ UNCHANGED server
        /\ ops' = End(i) \/ (ops[i].kind = "deleteSession" /\ ops' = At(i, "repointing"))
        /\ creating' = creating \ {ops[i].kind}
    BY <1>2, <1>4, <1>6 DEF Over
  <2> QED
    BY <2>1, RestKeeps
<1>8. PICK m \in Nat, n \in Nat, len \in Nat : m = nextWs /\ n = nextSess /\ len = Len(store)
                                               /\ m > 0 /\ n > 0 /\ len > 0 /\ DOMAIN store = 1..len
  BY <1>1, StoreNumbers, Zenon
<1>9. ScreenShape'
  <2>1. /\ shown \in 0..len /\ activeWs \in 0..(m - 1) /\ activeBy \in [WsIds -> 0..(n - 1)]
        /\ r.ws \in 0..(m - 1) /\ r.sess \in 0..(n - 1) /\ r.ver \in 1..len
    BY <1>1, <1>2, <1>6, <1>8 DEF ScreenShape
  <2>2. v \in 0..len
    BY <1>3, <1>8, <2>1
  <2>3. PICK by : by = [activeBy EXCEPT ![r.ws] = r.sess]
    OBVIOUS
  <2>4. by \in [WsIds -> 0..(n - 1)]
    BY <2>1, <2>3
  <2>5. \E w \in 0..(m - 1), b \in [WsIds -> 0..(n - 1)] : Show(v, TRUE, w, b)
    <3>1. CASE r.kind \in Creates
      <4>1. Show(v, TRUE, r.ws, by)
        BY <1>5, <2>3, <3>1 DEF Opens, Creates
      <4> QED
        BY <2>1, <2>4, <4>1, Zenon
    <3>2. CASE r.kind = "spawn"
      <4>1. Show(v, TRUE, activeWs, by)
        BY <1>5, <2>3, <3>2 DEF Opens, Creates
      <4> QED
        BY <2>1, <2>4, <4>1, Zenon
    <3>3. CASE r.kind \notin Creates /\ r.kind # "spawn"
      <4>1. Show(v, TRUE, activeWs, activeBy)
        BY <1>5, <3>3 DEF Opens
      <4> QED
        BY <2>1, <4>1, Zenon
    <3> QED
      BY <3>1, <3>2, <3>3
  <2>6. PICK w \in 0..(m - 1) : \E b \in [WsIds -> 0..(n - 1)] : Show(v, TRUE, w, b)
    BY <2>5, Zenon
  <2>7. PICK b \in [WsIds -> 0..(n - 1)] : Show(v, TRUE, w, b)
    BY <2>6, Zenon
  <2>8. /\ v \in 0..Len(store) /\ TRUE \in BOOLEAN /\ w \in 0..(nextWs - 1)
        /\ b \in [WsIds -> 0..(nextSess - 1)] /\ UNCHANGED server
    BY <1>4, <1>8, <2>2, <2>6, <2>7
  <2> QED
    BY <1>1, <2>7, <2>8, ShowScreen
<1>10. FetchShape'
  <2>1. r.ver \in 1..Len(store) /\ store' = store /\ pending' = pending /\ refreshes' = refreshes
    BY <1>4, <1>6, <1>8 DEF server
  <2>2. refreshes' \in [1..MaxVersion -> Nat] /\ \A x \in 1..MaxVersion : refreshes'[x] > 0 => refreshes[x] > 0
    BY <1>1, <2>1 DEF FetchShape
  <2>3. ok /\ r.ver # Len(store) => refreshes'[Len(store)] = refreshes[Len(store)]
    BY <2>1
  <2>4. PICK x \in 1..Len(store) : x = r.ver
    BY <2>1
  <2> QED
    BY <1>1, <1>4, <1>7, <2>1, <2>2, <2>3, <2>4, FetchLands
<1> QED
  BY <1>7, <1>9, <1>10 DEF IInv

\* one that rejects,
LEMMA RefreshRejectsKeeps ==
  ASSUME IInv, NEW i \in DOMAIN ops, RefreshRejects(i)
  PROVE  IInv'
<1>1. StoreShape /\ OpShape /\ ScreenShape /\ ButtonShape /\ CountShape /\ FetchShape
  BY DEF IInv
<1>2. PICK r \in OpSet : r = ops[i] /\ OpFits(r, store, nextWs, nextSess)
  BY <1>1, OpIs
<1>3. /\ r.at = "refreshed" /\ missed' = missed + 1 /\ newest' = newest /\ ops' = End(i)
      /\ creating' = creating \ {r.kind} /\ UNCHANGED <<server, pending, refreshes>>
      /\ Show(shown, TRUE, activeWs, activeBy)
  BY <1>2, Zenon DEF RefreshRejects, Settled
<1>4. /\ StoreShape' /\ Grows /\ OpShape' /\ CountShape' /\ ButtonShape'
      /\ \A j \in DOMAIN ops : ops[j].kind \in Creates /\ ops[j].at = "begun" =>
                                 j \in DOMAIN ops' /\ ops'[j] = ops[j]
  <2>1. r.mine
    BY <1>2, <1>3 DEF OpFits
  <2>2. /\ ~Over(ops[i]) /\ ops[i].mine /\ ops[i].at # "begun" /\ UNCHANGED server
        /\ ops' = End(i) \/ (ops[i].kind = "deleteSession" /\ ops' = At(i, "repointing"))
        /\ creating' = creating \ {ops[i].kind}
    BY <1>2, <1>3, <2>1 DEF Over
  <2> QED
    BY <2>2, RestKeeps
<1>5. ScreenShape'
  <2>1. /\ shown \in 0..Len(store) /\ TRUE \in BOOLEAN /\ activeWs \in 0..(nextWs - 1)
        /\ activeBy \in [WsIds -> 0..(nextSess - 1)] /\ UNCHANGED server
    BY <1>1, <1>3 DEF ScreenShape
  <2> QED
    BY <1>1, <1>3, <2>1, ShowScreen
<1>6. FetchShape'
  <2>1. PICK len \in Nat : len = Len(store) /\ len > 0
    BY <1>1 DEF StoreShape
  <2>2. missed \in Nat /\ missed' # 0 /\ missed' \in Nat
    BY <1>1, <1>3 DEF FetchShape
  <2>3. store' = store /\ pending' = pending /\ refreshes' = refreshes /\ newest' = newest
    BY <1>3 DEF server
  <2> QED
    BY <1>1, <2>2, <2>3 DEF FetchShape
<1> QED
  BY <1>4, <1>5, <1>6 DEF IInv

\* and the sibling that is shown for a session deleted.
LEMMA RepointKeeps ==
  ASSUME IInv, NEW i \in DOMAIN ops, Repoint(i)
  PROVE  IInv'
<1>1. StoreShape /\ OpShape /\ ScreenShape /\ ButtonShape /\ CountShape /\ FetchShape
  BY DEF IInv
<1>2. PICK r \in OpSet : r = ops[i] /\ OpFits(r, store, nextWs, nextSess) /\ r.ws \in Nat /\ r.sess \in Nat
  BY <1>1, OpIs
<1>3. PICK l : l = store[r.had]
  OBVIOUS
<1>4. PICK t : t = Others(l[r.ws].session_ids, r.sess)
  OBVIOUS
<1>5. PICK next : next = IF t = <<>> THEN 0 ELSE Head(t)
  OBVIOUS
<1>6. PICK by : by = IF activeBy[r.ws] = r.sess THEN [activeBy EXCEPT ![r.ws] = next] ELSE activeBy
  OBVIOUS
<1>7. /\ r.at = "repointing" /\ ops' = End(i)
      /\ UNCHANGED <<server, pending, refreshes, creating, newest, missed>>
  BY <1>2, Zenon DEF Repoint
<1>8. Show(shown, hydrated, activeWs, by)
  BY <1>2, <1>3, <1>4, <1>5, <1>6, Zenon DEF Repoint
<1>9. r.mine /\ r.kind = "deleteSession" /\ r.had \in DOMAIN store /\ r.ws \in DOMAIN l
  BY <1>2, <1>3, <1>7 DEF OpFits, Over
<1>10. /\ StoreShape' /\ Grows /\ OpShape' /\ CountShape' /\ ButtonShape'
       /\ \A j \in DOMAIN ops : ops[j].kind \in Creates /\ ops[j].at = "begun" =>
                                  j \in DOMAIN ops' /\ ops'[j] = ops[j]
  <2>1. creating' = creating \ {ops[i].kind}
    <3>1. "deleteSession" \notin creating
      BY <1>1 DEF ButtonShape, Creates
    <3> QED
      BY <1>2, <1>7, <1>9, <3>1
  <2>2. /\ ~Over(ops[i]) /\ ops[i].mine /\ ops[i].at # "begun" /\ UNCHANGED server
        /\ ops' = End(i) \/ (ops[i].kind = "deleteSession" /\ ops' = At(i, "repointing"))
    BY <1>2, <1>7, <1>9 DEF Over
  <2> QED
    BY <2>1, <2>2, RestKeeps
<1>11. PICK m \in Nat, n \in Nat, len \in Nat : m = nextWs /\ n = nextSess /\ len = Len(store)
                                                /\ m > 0 /\ n > 0 /\ DOMAIN store = 1..len
  BY <1>1, StoreNumbers, Zenon
<1>12. next \in 0..(n - 1)
  <2>1. r.had \in 0..len /\ r.had # 0
    BY <1>9, <1>11
  <2>2. l[r.ws] \in WsSet /\ \A s \in ToSet(l[r.ws].session_ids) : s \in 1..(n - 1)
    <3>1. l = IF r.had = 0 THEN <<>> ELSE store[r.had]
      BY <1>3, <2>1
    <3> QED
      BY <1>1, <1>9, <1>11, <2>1, <3>1, ListOf
  <2>3. PICK u \in Seq(Nat) : u = l[r.ws].session_ids
    BY <2>2 DEF WsSet
  <2>4. t \in Seq(Nat) /\ ToSet(t) \subseteq ToSet(u)
    BY <1>4, <2>3, OthersAre
  <2>5. CASE t = <<>>
    BY <1>5, <1>11, <2>5
  <2>6. CASE t # <<>>
    <3>1. 1 \in DOMAIN t /\ Head(t) = t[1]
      BY <2>4, <2>6
    <3>2. Head(t) \in ToSet(t)
      BY <3>1 DEF ToSet
    <3>3. Head(t) \in 1..(n - 1)
      BY <2>2, <2>3, <2>4, <3>2
    <3> QED
      BY <1>5, <2>6, <3>3
  <2> QED
    BY <2>5, <2>6
<1>13. ScreenShape'
  <2>1. activeBy \in [WsIds -> 0..(n - 1)]
    BY <1>1, <1>11 DEF ScreenShape
  <2>2. by \in [WsIds -> 0..(n - 1)]
    BY <1>6, <1>12, <2>1
  <2>3. /\ shown \in 0..Len(store) /\ hydrated \in BOOLEAN /\ activeWs \in 0..(nextWs - 1)
        /\ by \in [WsIds -> 0..(nextSess - 1)] /\ UNCHANGED server
    BY <1>1, <1>7, <1>11, <2>2 DEF ScreenShape
  <2> QED
    BY <1>1, <1>8, <2>3, ShowScreen
<1>14. FetchShape'
  <2>1. UNCHANGED <<store, pending, refreshes, missed, newest>>
    BY <1>7 DEF server
  <2> QED
    BY <1>1, <1>10, <2>1, FetchKeeps
<1> QED
  BY <1>10, <1>13, <1>14 DEF IInv

(* ------------------------------ the theorems ------------------------------ *)

\* The invariant holds at the start,
LEMMA InitFits ==
  ASSUME ShellInit
  PROVE  IInv
<1>1. PICK e \in Nat : e = Len(Past) /\ Past \in Seq(Seq(1..PastSess)) /\ DOMAIN Past = 1..e
  BY ShellBoundsAssumption
<1>2. PICK l : l = [i \in DOMAIN Past |-> Workspace(FALSE, Past[i])]
  OBVIOUS
<1>3. /\ store = <<l>> /\ nextWs = e + 1 /\ nextSess = PastSess + 1
      /\ ops = <<>> /\ pending = 1 /\ refreshes = [v \in 1..MaxVersion |-> 0]
      /\ shown = 0 /\ hydrated = FALSE /\ activeWs = 0 /\ activeBy = [w \in WsIds |-> 0]
      /\ creating = {} /\ newest = 0 /\ missed = 0
  BY <1>1, <1>2, Zenon DEF ShellInit
<1>4. PastSess \in Nat /\ MaxOp \in Nat /\ WsIds = 1..(e + MaxOp) /\ MaxVersion = 1 + 2 * MaxOp
  BY <1>1, ShellBoundsAssumption DEF WsIds, MaxWs, MaxVersion
<1>5. ASSUME NEW w \in 1..e
      PROVE  l[w] \in WsSet /\ \A k \in DOMAIN l[w].session_ids : l[w].session_ids[k] \in 1..PastSess
  <2>1. PICK t : t = Past[w]
    OBVIOUS
  <2>2. t \in Seq(1..PastSess)
    <3>1. PICK P : P = Seq(1..PastSess)
      OBVIOUS
    <3> QED
      BY <1>1, <1>5, <2>1, <3>1
  <2>3. l[w] = [archived |-> FALSE, session_ids |-> t]
    BY <1>1, <1>2, <1>5, <2>1 DEF Workspace
  <2>4. t \in Seq(Nat)
    <3>1. 1..PastSess \subseteq Nat
      BY <1>4
    <3> QED
      BY <2>2, <3>1, SeqMonotonic
  <2>5. \A k \in DOMAIN t : t[k] \in 1..PastSess
    <3>1. PICK E : E = 1..PastSess
      OBVIOUS
    <3>2. t \in Seq(E)
      BY <2>2, <3>1
    <3>3. DOMAIN t = 1..Len(t) /\ \A k \in 1..Len(t) : t[k] \in E
      BY <3>2
    <3> QED
      BY <3>1, <3>3
  <2>6. l[w].session_ids = t /\ l[w] \in WsSet
    BY <2>3, <2>4 DEF WsSet
  <2> QED
    BY <2>5, <2>6
<1>6. l \in ListSet /\ DOMAIN l = 1..e
  <2>1. PICK D : D = 1..e
    OBVIOUS
  <2>2. D \in SUBSET WsIds
    BY <1>1, <1>4, <2>1
  <2>3. l = [w \in D |-> l[w]]
    <3>1. l = [i \in D |-> Workspace(FALSE, Past[i])]
      BY <1>1, <1>2, <2>1
    <3> QED
      BY <3>1
  <2>4. \A w \in D : l[w] \in WsSet
    BY <1>5, <2>1
  <2> QED
    BY <2>1, <2>2, <2>3, <2>4, IsList
<1>7. StoreShape
  <2>1. PICK L : L = ListSet
    OBVIOUS
  <2>2. store \in Seq(L) /\ Len(store) = 1 /\ DOMAIN store = {1} /\ store[1] = l
    BY <1>3, <1>6, <2>1
  <2>3. nextWs \in Nat \ {0} /\ nextSess \in Nat \ {0}
    BY <1>1, <1>3, <1>4
  <2>4. ListFits(l, nextWs, nextSess)
    <3>1. ASSUME NEW w \in DOMAIN l
          PROVE  w < nextWs /\ \A k \in DOMAIN l[w].session_ids : l[w].session_ids[k] \in 1..(nextSess - 1)
      <4>1. w \in 1..e /\ nextSess - 1 = PastSess
        BY <1>3, <1>4, <1>6, <3>1
      <4>2. w < nextWs
        BY <1>1, <1>3, <4>1
      <4> QED
        BY <1>5, <4>1, <4>2
    <3> QED
      BY <3>1 DEF ListFits
  <2> QED
    BY <2>1, <2>2, <2>3, <2>4 DEF StoreShape
<1>8. DOMAIN ops = {} /\ Len(ops) = 0 /\ ops \in Seq(OpSet)
  BY <1>3
<1>9. OpShape
  BY <1>8 DEF OpShape
<1>10. ScreenShape
  <2>1. 0 \in 0..Len(store) /\ 0 \in 0..(nextWs - 1) /\ 0 \in 0..(nextSess - 1)
    BY <1>1, <1>3, <1>4
  <2>2. PICK N : N = 0..(nextSess - 1)
    OBVIOUS
  <2>3. activeBy \in [WsIds -> N]
    BY <1>3, <2>1, <2>2
  <2> QED
    BY <1>3, <2>1, <2>2, <2>3 DEF ScreenShape
<1>11. ButtonShape
  BY <1>3, <1>8 DEF ButtonShape
<1>12. CountShape
  <2>1. Sent = {} /\ Unhandled = {}
    BY <1>8 DEF Sent, Unhandled
  <2>2. Cardinality(Sent) = 0 /\ Cardinality(Unhandled) = 0
    BY <2>1, FS_EmptySet
  <2>3. Len(store) = 1
    BY <1>3
  <2> QED
    BY <1>1, <1>3, <1>4, <1>8, <2>2, <2>3 DEF CountShape
<1>13. FetchShape
  <2>1. /\ pending \in Nat /\ pending > 0 /\ missed \in Nat /\ Len(store) = 1
        /\ \A v \in 1..MaxVersion : refreshes[v] = 0
        /\ refreshes \in [1..MaxVersion -> Nat] /\ newest = 0
    BY <1>3
  <2> QED
    BY <2>1 DEF FetchShape
<1> QED
  BY <1>7, <1>9, <1>10, <1>11, <1>12, <1>13 DEF IInv

\* and every step keeps it.
LEMMA NextKeeps ==
  ASSUME IInv, [ShellNext]_vars
  PROVE  IInv'
<1>1. CASE UNCHANGED vars
  <2>1. UNCHANGED <<server, ops, pending, refreshes, fails, picks, screen, creating, newest, missed>>
    BY <1>1, Zenon DEF vars
  <2>2. StoreShape' /\ Grows /\ OpShape' /\ ButtonShape' /\ CountShape' /\ store' = store
    BY <2>1, OpsStay
  <2>3. StoreShape /\ ScreenShape /\ FetchShape
    BY DEF IInv
  <2>4. ScreenShape'
    BY <2>1, <2>2, <2>3, ScreenStays
  <2>5. FetchShape'
    BY <2>1, <2>2, <2>3, FetchKeeps
  <2> QED
    BY <2>2, <2>4, <2>5 DEF IInv
<1>2. CASE \/ CreateTicket \/ NewChat \/ SpawnSession
           \/ \E s \in 1..MaxSess : RenameSession(s) \/ DeleteSession(s)
           \/ \E w \in WsIds : \/ \E kind \in {"archive", "remove"} : RowMenu(w, kind)
                               \/ \E kind \in {"restore", "remove"} : Archive(w, kind)
  BY <1>2, StartsKeep, Zenon
<1>3. WsIds \subseteq Nat /\ 0 \notin WsIds /\ 0..MaxSess \subseteq Nat
  BY ShellBoundsAssumption DEF WsIds, MaxWs, MaxSess
<1>4. ASSUME NEW kind \in Creates, StartElsewhere(kind, 0, 0) PROVE IInv'
  <2>1. kind \in Kinds /\ 0 \in Nat
    BY <1>4 DEF Creates, Kinds
  <2> QED
    BY <1>4, <2>1, StartElsewhereKeeps
<1>5. ASSUME NEW w \in WsIds, NEW kind \in {"spawn", "remove", "archive", "restore"},
             StartElsewhere(kind, w, 0)
      PROVE  IInv'
  <2>1. kind \in Kinds /\ kind \notin Creates /\ 0 \in Nat /\ w \in Nat
    BY <1>3, <1>5 DEF Creates, Kinds
  <2> QED
    BY <1>5, <2>1, StartElsewhereKeeps
<1>6. ASSUME NEW w \in WsIds, NEW s \in 1..MaxSess, NEW kind \in {"rename", "deleteSession"},
             StartElsewhere(kind, w, s)
      PROVE  IInv'
  <2>1. kind \in Kinds /\ kind \notin Creates /\ OfSession(kind) /\ w \in Nat /\ s \in Nat
    BY <1>3, <1>6 DEF Creates, Kinds, OfSession
  <2> QED
    BY <1>6, <2>1, StartElsewhereKeeps
<1>7. ASSUME NEW i \in DOMAIN ops, Running(i) \/ Lost(i) \/ RefreshRejects(i) PROVE IInv'
  BY <1>7, BeginKeeps, HandleKeeps, RefuseKeeps, AwaitRefreshKeeps, RefreshedKeeps, RepointKeeps,
     LostKeeps, RefreshRejectsKeeps, Zenon DEF Running
<1>8. CASE Stream
  BY <1>8, RefreshKeeps, LandKeeps, Zenon DEF Stream
<1>9. ASSUME NEW w \in WsIds, NEW s \in 0..MaxSess, Pick(w, s) PROVE IInv'
  <2>1. s \in Nat
    BY <1>3, <1>9
  <2> QED
    BY <1>9, <2>1, PickKeeps
<1> QED
  BY <1>1, <1>2, <1>4, <1>5, <1>6, <1>7, <1>8, <1>9, Zenon DEF ShellNext

\* The invariant holds always, for every value of the constants.
THEOREM ShellInvariant == ShellSpec => []IInv
<1>1. ShellInit => IInv
  BY InitFits
<1>2. IInv /\ [ShellNext]_vars => IInv'
  BY NextKeeps
<1> QED
  BY <1>1, <1>2, PTL DEF ShellSpec

\* The invariant has the types, and the buttons.
LEMMA TypesFit ==
  ASSUME IInv
  PROVE  ShellTypeOK
<1>1. StoreShape /\ OpShape /\ ScreenShape /\ ButtonShape /\ FetchShape
  BY DEF IInv
<1>2. PICK len \in Nat : len = Len(store) /\ len > 0 /\ DOMAIN store = 1..len
  BY <1>1, StoreNumbers, Zenon
<1>3. PICK m \in Nat, n \in Nat : m = nextWs /\ n = nextSess /\ m > 0 /\ n > 0
  BY <1>1, StoreNumbers, Zenon
<1>4. store # <<>> /\ shown \in 0..Len(store) /\ newest \in 0..Len(store)
  BY <1>1 DEF StoreShape, ScreenShape, FetchShape
<1>5. ASSUME NEW v \in DOMAIN store PROVE DOMAIN store[v] \subseteq 1..(nextWs - 1)
  <2>1. v \in 0..Len(store) /\ store[v] = IF v = 0 THEN <<>> ELSE store[v]
    BY <1>2, <1>5
  <2>2. PICK l : l = store[v]
    OBVIOUS
  <2>3. l = IF v = 0 THEN <<>> ELSE store[v]
    BY <2>1, <2>2
  <2>4. \A w \in DOMAIN l : w \in 1..(nextWs - 1)
    BY <1>1, <2>1, <2>3, ListOf
  <2> QED
    BY <2>2, <2>4
<1>6. activeWs \in 0..(nextWs - 1) /\ \A w \in WsIds : activeBy[w] \in 0..(nextSess - 1)
  BY <1>1 DEF ScreenShape
<1>7. \A i \in DOMAIN ops : ops[i].ws \in 0..(nextWs - 1) /\ ops[i].sess \in 0..(nextSess - 1)
  <2> SUFFICES ASSUME NEW i \in DOMAIN ops
               PROVE  ops[i].ws \in 0..(nextWs - 1) /\ ops[i].sess \in 0..(nextSess - 1)
    OBVIOUS
  <2>1. ops[i].ws \in Nat /\ ops[i].sess \in Nat /\ ops[i].ws < nextWs /\ ops[i].sess < nextSess
    BY <1>1, OpIs DEF OpFits
  <2> QED
    BY <1>3, <2>1
<1>8. creating = {ops[i].kind : i \in {j \in DOMAIN ops :
                    ops[j].mine /\ ops[j].kind \in Creates /\ ~Over(ops[j])}}
  <2>1. \A k \in creating : \E j \in DOMAIN ops :
          ops[j].mine /\ ops[j].kind \in Creates /\ ~Over(ops[j]) /\ ops[j].kind = k
    BY <1>1 DEF ButtonShape, Creation
  <2>2. \A j \in DOMAIN ops :
          ops[j].mine /\ ops[j].kind \in Creates /\ ~Over(ops[j]) => ops[j].kind \in creating
    BY <1>1 DEF ButtonShape, Creation
  <2> QED
    BY <2>1, <2>2
<1> QED
  BY <1>4, <1>5, <1>6, <1>7, <1>8 DEF ShellTypeOK

\* What is on screen has an id that was given, the list is a version of the store,
\* and a button is disabled exactly while the creation it started is under way.
THEOREM ShellTypesHold == ShellSpec => []ShellTypeOK
<1>1. IInv => ShellTypeOK
  BY TypesFit
<1> QED
  BY <1>1, ShellInvariant, PTL

\* Once nothing is under way and no GET has failed, the tab has fetched the list
\* since the last change of the store, whoever made it and in whichever steps.
THEOREM ChangesAreFetched == ShellSpec => []EveryChangeIsFetched
<1>1. ASSUME IInv PROVE EveryChangeIsFetched
  <2>1. StoreShape /\ OpShape /\ CountShape /\ FetchShape
    BY <1>1 DEF IInv
  <2>2. Len(store) \in 1..MaxVersion
    BY <2>1, Bounds
  <2>3. SUFFICES ASSUME Quiet, missed = 0 PROVE newest = Len(store)
    BY DEF EveryChangeIsFetched
  <2>4. pending = 0 /\ refreshes[Len(store)] = 0
    BY <2>2, <2>3 DEF Quiet
  <2>5. \A i \in DOMAIN ops : ops[i].at # "begun"
    BY <2>3 DEF Quiet, Over
  <2> QED
    BY <2>1, <2>3, <2>4, <2>5 DEF FetchShape
<1> QED
  BY <1>1, ShellInvariant, PTL

\* A refresh that is awaited goes on only by its own answer.
LEMMA OnlyRefreshed ==
  ASSUME IInv, [ShellNext]_vars, NEW i \in DOMAIN ops, ops[i].at = "refreshed", Over(ops'[i]),
         missed' = missed
  PROVE  Refreshed(i, TRUE)
<1>1. ops \in Seq(OpSet) /\ missed \in Nat
  BY DEF IInv, OpShape, FetchShape
<1>2. ~Over(ops[i])
  BY DEF Over
<1>3. ASSUME NEW o, ops' = Append(ops, o) PROVE FALSE
  <2>1. ops'[i] = ops[i]
    BY <1>1, <1>3
  <2> QED
    BY <1>2, <2>1
<1>4. ops' # ops
  BY <1>2
<1>5. ASSUME NEW j \in DOMAIN ops, NEW o, ops' = [ops EXCEPT ![j] = o] PROVE j = i
  <2>1. j # i => ops'[i] = ops[i]
    BY <1>1, <1>5
  <2> QED
    BY <1>2, <2>1
<1>a. ASSUME NEW j \in DOMAIN ops, NEW at, NEW v, NEW h,
             ops' = [ops EXCEPT ![j].at = at, ![j].ver = v, ![j].had = h]
      PROVE  j = i
  <2>1. j # i => ops'[i] = ops[i]
    BY <1>1, <1>a
  <2> QED
    BY <1>2, <2>1
<1>6. ASSUME NEW kind, NEW w, NEW s, Start(kind, w, s) PROVE FALSE
  BY <1>3, <1>6, Zenon DEF Start
<1>7. ASSUME NEW kind, NEW w, NEW s, StartElsewhere(kind, w, s) PROVE FALSE
  BY <1>3, <1>7, Zenon DEF StartElsewhere
<1>8. ASSUME NEW j \in DOMAIN ops, Begin(j) PROVE FALSE
  <2>1. PICK r : r = ops[j]
    OBVIOUS
  <2>2. r.at = "sent" /\ (ops' = [ops EXCEPT ![j].at = "begun", ![j].ws = nextWs]
                          \/ ops' = [ops EXCEPT ![j].at = "begun"])
    BY <1>8, <2>1, Zenon DEF Begin, At
  <2>3. j = i
    BY <1>5, <2>2
  <2> QED
    BY <2>1, <2>2, <2>3
<1>9. ASSUME NEW j \in DOMAIN ops, Handle(j) PROVE FALSE
  <2>1. PICK r : r = ops[j]
    OBVIOUS
  <2>2. PICK sess : sess = IF Spawns(r) THEN nextSess ELSE r.sess
    OBVIOUS
  <2>3. /\ r.at \in {"sent", "begun"}
        /\ ops' = [ops EXCEPT ![j] = [r EXCEPT !.at = Answer(r, TRUE), !.sess = sess]]
    BY <1>9, <2>1, <2>2 DEF Handle
  <2>4. j = i
    BY <1>5, <2>3
  <2> QED
    BY <2>1, <2>3, <2>4
<1>10. ASSUME NEW j \in DOMAIN ops, Refuse(j) PROVE FALSE
  <2>1. ops[j].at \in {"sent", "begun"} /\ ops' = [ops EXCEPT ![j].at = Answer(ops[j], FALSE)]
    BY <1>10 DEF Refuse, At
  <2>2. j = i
    BY <1>5, <2>1
  <2> QED
    BY <2>1, <2>2
<1>11. ASSUME NEW j \in DOMAIN ops, AwaitRefresh(j) PROVE FALSE
  <2>1. ops[j].at = "answered" /\ ops' = [ops EXCEPT ![j].at = "refreshed", ![j].ver = Len(store)]
    BY <1>11, Zenon DEF AwaitRefresh
  <2>2. j = i
    BY <1>5, <2>1
  <2> QED
    BY <2>1, <2>2
<1>12. ASSUME NEW j \in DOMAIN ops, Repoint(j) PROVE FALSE
  <2>1. ops[j].at = "repointing" /\ ops' = [ops EXCEPT ![j].at = "over", ![j].ver = 0, ![j].had = 0]
    BY <1>12 DEF Repoint, End
  <2>2. j = i
    BY <1>a, <2>1, Zenon
  <2> QED
    BY <2>1, <2>2
<1>13. ASSUME NEW j \in DOMAIN ops, Lost(j) PROVE FALSE
  <2>1. /\ ops[j].at \in {"sent", "answered"}
        /\ ops' = [ops EXCEPT ![j].at = "over", ![j].ver = 0, ![j].had = 0]
    BY <1>13 DEF Lost, End
  <2>2. j = i
    BY <1>a, <2>1, Zenon
  <2> QED
    BY <2>1, <2>2
<1>14. ASSUME NEW j \in DOMAIN ops, RefreshRejects(j) PROVE FALSE
  <2>1. missed' = missed + 1
    BY <1>14, Zenon DEF RefreshRejects
  <2> QED
    BY <1>1, <2>1
<1>15. ASSUME NEW j \in DOMAIN ops, NEW ok \in BOOLEAN, Refreshed(j, ok) PROVE Refreshed(i, TRUE)
  <2>1. missed' = (IF ok THEN missed ELSE missed + 1) /\ (ops' = At(j, "repointing") \/ ops' = End(j))
    BY <1>15 DEF Refreshed
  <2>2. ok = TRUE
    BY <1>1, <1>15, <2>1
  <2>3. j = i
    BY <1>5, <2>1 DEF At, End
  <2> QED
    BY <1>15, <2>2, <2>3
<1>16. ASSUME NEW j \in DOMAIN ops, Running(j) \/ Lost(j) \/ RefreshRejects(j) PROVE Refreshed(i, TRUE)
  BY <1>8, <1>9, <1>10, <1>11, <1>12, <1>13, <1>14, <1>15, <1>16, Zenon DEF Running
<1>17. ~Stream
  BY <1>4, Zenon DEF Stream, Refresh, Land
<1>18. ASSUME NEW w, NEW s, Pick(w, s) PROVE FALSE
  BY <1>4, <1>18, Zenon DEF Pick
<1>19. ~UNCHANGED vars
  BY <1>4, Zenon DEF vars
<1>20. ~(CreateTicket \/ NewChat \/ SpawnSession)
  BY <1>6, Zenon DEF CreateTicket, NewChat, SpawnSession
<1>21. ASSUME NEW s, RenameSession(s) \/ DeleteSession(s) PROVE FALSE
  BY <1>6, <1>21, Zenon DEF RenameSession, DeleteSession
<1>22. ASSUME NEW w, NEW kind, RowMenu(w, kind) \/ Archive(w, kind) PROVE FALSE
  BY <1>6, <1>22, Zenon DEF RowMenu, Archive
<1> QED
  BY <1>7, <1>16, <1>17, <1>18, <1>19, <1>20, <1>21, <1>22, Zenon DEF ShellNext

\* A creation that succeeds ends with its workspace and its first session on screen.
THEOREM CreatedOpens == ShellSpec => CreatedWorkspaceOpens
<1>1. ASSUME IInv, [ShellNext]_vars, NEW i \in DOMAIN ops, NEW o, o = ops[i], o.mine, o.kind \in Creates,
             o.at = "refreshed", Over(ops'[i]), missed' = missed,
             o.ws \in DOMAIN Now, o.sess \in ToSet(Now[o.ws].session_ids)
      PROVE  /\ activeWs' = o.ws /\ o.ws \in DOMAIN list'
             /\ activeSession(list', activeWs', activeBy') = o.sess
             /\ o.sess \in ToSet(list'[o.ws].session_ids)
  <2>1. StoreShape /\ OpShape /\ ScreenShape /\ CountShape
    BY <1>1 DEF IInv
  <2>2. PICK r \in OpSet : r = ops[i] /\ OpFits(r, store, nextWs, nextSess)
    BY <1>1, <2>1, OpIs
  <2>3. Refreshed(i, TRUE)
    BY <1>1, OnlyRefreshed
  <2>4. PICK by : by = [activeBy EXCEPT ![r.ws] = r.sess]
    OBVIOUS
  <2>5. PICK v : v = r.ver
    OBVIOUS
  <2>6. Opens(r, v) /\ store' = store
    <3>1. Opens(r, IF TRUE THEN r.ver ELSE shown) /\ UNCHANGED <<server, pending, refreshes, picks>>
      BY <2>2, <2>3, Zenon DEF Refreshed
    <3> QED
      BY <2>5, <3>1 DEF server
  <2>7. Show(v, TRUE, r.ws, by)
    BY <1>1, <2>2, <2>4, <2>6 DEF Opens, Creates
  <2>8. PICK l : l = IF v = 0 THEN <<>> ELSE store'[v]
    OBVIOUS
  <2>9. PICK c : c = IF TRUE /\ r.ws = 0 /\ DOMAIN l # {} THEN First(l) ELSE r.ws
    OBVIOUS
  <2>10. /\ shown' = v /\ activeWs' = c
         /\ activeBy' = IF c = 0 THEN by ELSE [by EXCEPT ![c] = activeSession(l, c, by)]
    BY <2>7, <2>8, <2>9, Zenon DEF Show
  <2>11. r.ws \in WsIds /\ r.ws # 0 /\ r.sess \in 1..(nextSess - 1) /\ r.sess # 0
    <3>1. /\ DOMAIN Now \subseteq WsIds /\ ListFits(Now, nextWs, nextSess)
          /\ nextSess \in Nat
      BY <2>1, NowIs DEF StoreShape
    <3>2. 0 \notin WsIds
      BY ShellBoundsAssumption DEF WsIds, MaxWs
    <3> QED
      BY <1>1, <2>2, <3>1, <3>2 DEF ListFits, ToSet
  <2>12. c = r.ws
    BY <2>9, <2>11
  <2>13. /\ v \in DOMAIN store /\ v # 0 /\ l = store[v]
         /\ r.ws \in DOMAIN l /\ r.sess \in ToSet(l[r.ws].session_ids)
    <3>1. PICK len \in Nat : len = Len(store) /\ len > 0 /\ DOMAIN store = 1..len
      BY <2>1 DEF StoreShape
    <3>2. /\ v \in 1..len
          /\ \A x \in v..len : On(store[x], r.ws, r.sess) => On(store[v], r.ws, r.sess)
      BY <1>1, <2>2, <2>5, <3>1 DEF OpFits
    <3>3. len \in v..len
      BY <3>1, <3>2
    <3>4. On(store[len], r.ws, r.sess)
      BY <1>1, <2>1, <2>2, <3>1, NowIs DEF On
    <3>5. v # 0 /\ v \in DOMAIN store /\ On(store[v], r.ws, r.sess)
      BY <3>1, <3>2, <3>3, <3>4
    <3> QED
      BY <2>6, <2>8, <3>5 DEF On
  <2>14. list' = l
    BY <2>8, <2>10, <2>13 DEF list
  <2>15. by[r.ws] = r.sess /\ DOMAIN by = WsIds
    BY <2>1, <2>4, <2>11 DEF ScreenShape
  <2>16. activeSession(l, r.ws, by) = r.sess
    BY <2>11, <2>13, <2>15 DEF activeSession
  <2>17. activeBy' = [by EXCEPT ![r.ws] = r.sess]
    BY <2>10, <2>11, <2>12, <2>16
  <2>18. PICK b : b = activeBy'
    OBVIOUS
  <2>19. b[r.ws] = r.sess
    BY <2>11, <2>15, <2>17, <2>18
  <2>20. activeSession(l, r.ws, b) = r.sess
    BY <2>11, <2>13, <2>19 DEF activeSession
  <2> QED
    BY <1>1, <2>2, <2>10, <2>12, <2>13, <2>14, <2>18, <2>20
<1>2. IInv /\ [ShellNext]_vars =>
        [\A i \in DOMAIN ops :
           LET o == ops[i]
           IN /\ o.mine /\ o.kind \in Creates
              /\ o.at = "refreshed" /\ Over(ops'[i]) /\ missed' = missed
              /\ o.ws \in DOMAIN Now /\ o.sess \in ToSet(Now[o.ws].session_ids)
              => /\ activeWs' = o.ws /\ o.ws \in DOMAIN list'
                 /\ activeSession(list', activeWs', activeBy') = o.sess
                 /\ o.sess \in ToSet(list'[o.ws].session_ids)]_vars
  BY <1>1, Zenon
<1> QED
  BY <1>2, ShellInvariant, PTL DEF ShellSpec, CreatedWorkspaceOpens
==============================================================================
