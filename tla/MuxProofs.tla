------------------------------- MODULE MuxProofs -------------------------------
(***************************************************************************)
(* The safety properties of MuxClient for any sessions, messages and       *)
(* requests: every one but those that only hold in the end.                *)
(*                                                                         *)
(* The argument: an event never takes anything from a slot (ReduceStep),   *)
(* and neither does laying a history under it, because the filter keeps    *)
(* what the history does not cover (HistoryJoins).  What the tab has seen  *)
(* is a prefix of a log in which a completed message is never streamed     *)
(* again and a request is made once (ServerShape), so whole messages stay  *)
(* whole (FinalShape) and the card of the newest request is only taken     *)
(* away by an answer that finds it answered (NewestShape, ReplyShape).     *)
(*                                                                         *)
(* What filter() and a replay compute is proved by induction on their      *)
(* length, in the form of a least counterexample (LeastNat).               *)
(***************************************************************************)
EXTENDS MuxClient, SequenceTheorems, NaturalsInduction, WellFoundedInduction, TLAPS

(* ------------------------- the inductive invariant ------------------------- *)

\* What each event carries.
Carries(e) ==
  /\ e.ev = "user_message" => e.x \in Text
  /\ e.ev \in {"message_delta", "message_complete"} => e.x \in 1..MaxTurn
  /\ e.ev = "tool_result" => e.x \in Ask
  /\ e.ev = "permission_request" => e.x \in Call
  /\ e.ev = "ask_user_question" => e.x \in Question

EventSet == [ev : EventName, s : Sid, x : Text \cup Ask \cup (0..MaxTurn)]
TypedEvent == {e \in EventSet : Carries(e)}

Lasting == {"user_message", "message_complete", "tool_result"}
PastEvent == {e \in TypedEvent : e.ev \in Lasting}

Requests == {"permission_request", "ask_user_question"}

PostSet ==
  [kind : {"send", "reply", "history"}, s : Sid,
   x : Text \cup {None} \cup (Ask \X (1..MaxPost)),
   st : {"sent", "ok", "conflict"}, past : Seq(PastEvent)]

TypeShape ==
  /\ srv \in [Sid -> Server]
  /\ log \in Seq(TypedEvent)
  /\ cursor \in 0..Len(log)
  /\ tab \in [Sid -> SessionState \cup {None}]
  /\ posts \subseteq PostSet
  /\ asked \subseteq Sid
  /\ losses \in 0..MaxLoss

\* The server numbers turns and asks each request once; a message it has
\* completed is never streamed again.
ServerShape ==
  /\ \A s \in Sid : /\ srv[s].open \subseteq srv[s].asked
                    /\ srv[s].pc # "idle" => srv[s].turn > 0
                    /\ srv[s].turn + srv[s].queued <= MaxTurn
  /\ \A k \in DOMAIN log :
       /\ log[k].ev \in Requests => log[k].x \in srv[log[k].s].asked
       /\ log[k].ev = "message_complete" => log[k].x <= srv[log[k].s].turn
  /\ \A k, l \in DOMAIN log :
       /\ k < l /\ log[k].s = log[l].s
       /\ log[k].ev = "message_complete" /\ log[l].ev = "message_delta"
       => log[k].x < log[l].x

\* A message that is being sent has its turn.
SendShape ==
  \A p \in posts : p.kind = "send" =>
    /\ p.x \in Text
    /\ p.st = "sent" => srv[p.s].turn + srv[p.s].queued < MaxTurn
    /\ \A q \in posts : q.kind = "send" => q = p

\* A reply is about a request, which its answer finds answered.
ReplyShape ==
  \A p \in posts : p.kind = "reply" =>
    /\ tab[p.s] # None
    /\ p.x \in Ask \X (1..MaxPost)
    /\ p.x[1] \in srv[p.s].asked
    /\ p.st # "sent" => p.x[1] \notin srv[p.s].open

CardShape ==
  \A s \in Sid : tab[s] # None =>
    {tab[s].perm, tab[s].ques} \subseteq srv[s].asked \cup {None}

\* The newest request of kind ev that session s has been seen to make.
Newest(k, s, ev) ==
  /\ k \in 1..cursor /\ log[k].s = s /\ log[k].ev = ev
  /\ \A l \in (k + 1)..cursor : log[l].s = s => log[l].ev # ev

NewestShape ==
  \A s \in Sid, k \in 1..cursor : log[k].x \in srv[s].open =>
    /\ Newest(k, s, "permission_request") => tab[s].perm = log[k].x
    /\ Newest(k, s, "ask_user_question") => tab[s].ques = log[k].x

SeenShape == \A k \in 1..cursor : tab[log[k].s] # None

IsAssistant(m, i) == m.kind = "assistant" /\ m.id = i

\* An assistant message is there once.
Single(ms) ==
  \A i \in 1..MaxTurn, k, l \in DOMAIN ms :
    IsAssistant(ms[k], i) /\ IsAssistant(ms[l], i) => k = l

Final(i) == Assistant(i, <<"final">>, FALSE)
HasFinal(ms, i) == Final(i) \in Elements(ms)

FinalShape ==
  /\ \A s \in Sid : tab[s] # None => Single(tab[s].messages)
  /\ \A k \in 1..cursor : log[k].ev = "message_complete" =>
       HasFinal(tab[log[k].s].messages, log[k].x)

IInv ==
  /\ TypeShape /\ ServerShape
  /\ SendShape /\ ReplyShape /\ CardShape
  /\ SeenShape /\ NewestShape /\ FinalShape

-----------------------------------------------------------------------------
(* What filter() returns. *)

\* A set of numbers that is not empty has a least one.
LEMMA LeastNat ==
  ASSUME NEW S \in SUBSET Nat, S # {}
  PROVE  \E n \in S : \A m \in S : n <= m
<1>1. PICK n \in S : \A m \in S : ~ (<<m, n>> \in OpToRel(<, Nat))
  BY NatLessThanWellFounded, WFMin
<1>2. \A m \in S : ~ (m < n)
  BY <1>1 DEF OpToRel
<1> QED
  BY <1>2

KeptUpTo(s, K, n, f) ==
  f = [m \in 0..n |->
        IF m = 0 THEN <<>>
        ELSE IF s[m] \in K THEN Append(f[m - 1], s[m]) ELSE f[m - 1]]

\* The recursion of filter() has a solution.
LEMMA KeptExists ==
  ASSUME NEW s, NEW K, NEW n \in Nat
  PROVE  \E f : KeptUpTo(s, K, n, f)
<1> DEFINE Bad == {i \in Nat : ~ \E f : KeptUpTo(s, K, i, f)}
<1> SUFFICES ASSUME Bad # {} PROVE FALSE
  OBVIOUS
<1>1. PICK i \in Bad : \A j \in Bad : i <= j
  BY LeastNat
<1>2. CASE i = 0
  <2> DEFINE f == [m \in 0..0 |-> <<>>]
  <2>1. KeptUpTo(s, K, 0, f)
    BY DEF KeptUpTo
  <2> QED
    BY <1>1, <1>2, <2>1
<1>3. CASE i # 0
  <2>1. i - 1 \in Nat /\ i - 1 \notin Bad
    BY <1>1, <1>3
  <2>2. PICK f : KeptUpTo(s, K, i - 1, f)
    BY <2>1
  <2> DEFINE last == IF s[i] \in K THEN Append(f[i - 1], s[i]) ELSE f[i - 1]
             g == [m \in 0..i |-> IF m = i THEN last ELSE f[m]]
  <2>3. KeptUpTo(s, K, i, g)
    <3>1. ASSUME NEW m \in 0..i
          PROVE  g[m] = IF m = 0 THEN <<>>
                        ELSE IF s[m] \in K THEN Append(g[m - 1], s[m]) ELSE g[m - 1]
      <4>1. CASE m = i
        <5>1. g[m] = last /\ i - 1 \in 0..i /\ i - 1 # i /\ g[i - 1] = f[i - 1]
          BY <4>1, <2>1
        <5> QED
          BY <5>1, <4>1, <1>3
      <4>2. CASE m = 0
        <5>1. g[0] = f[0] /\ 0 \in 0..(i - 1)
          BY <4>2, <1>3, <2>1
        <5>2. f[0] = <<>>
          BY <5>1, <2>2 DEF KeptUpTo
        <5> QED
          BY <5>1, <5>2, <4>2
      <4>3. CASE m # i /\ m # 0
        <5>1. m \in 0..(i - 1) /\ m - 1 \in 0..i /\ m - 1 # i
          BY <4>3
        <5>2. g[m] = f[m] /\ g[m - 1] = f[m - 1]
          BY <5>1, <4>3
        <5>3. f[m] = IF m = 0 THEN <<>>
                     ELSE IF s[m] \in K THEN Append(f[m - 1], s[m]) ELSE f[m - 1]
          BY <5>1, <2>2 DEF KeptUpTo
        <5> QED
          BY <5>2, <5>3
      <4> QED
        BY <4>1, <4>2, <4>3
    <3> HIDE DEF last
    <3>2. g = [m \in 0..i |-> g[m]]
      OBVIOUS
    <3> HIDE DEF g
    <3> QED
      BY <3>1, <3>2 DEF KeptUpTo
  <2> QED
    BY <1>1, <2>3
<1> QED
  BY <1>2, <1>3

\* Kept is what its recursion says.
LEMMA KeptIs ==
  ASSUME NEW T, NEW s \in Seq(T), NEW K
  PROVE  \E f : KeptUpTo(s, K, Len(s), f) /\ Kept(s, K) = f[Len(s)]
<1> DEFINE F == CHOOSE f : KeptUpTo(s, K, Len(s), f)
<1>1. KeptUpTo(s, K, Len(s), F)
  BY KeptExists, Len(s) \in Nat, Zenon
<1>2. Kept(s, K) = F[Len(s)]
  BY DEF Kept, KeptUpTo
<1> QED
  BY <1>1, <1>2

\* t lists the elements of K among the first n of s; g says where they are.
Lists(t, s, K, n, g) ==
  /\ g \in [DOMAIN t -> 1..n]
  /\ \A k \in DOMAIN t : t[k] = s[g[k]] /\ t[k] \in K
  /\ \A k, l \in DOMAIN t : k < l => g[k] < g[l]
  /\ \A j \in 1..n : s[j] \in K => \E k \in DOMAIN t : g[k] = j

\* Kept lists the elements of K, in their order.
LEMMA KeptLists ==
  ASSUME NEW T, NEW s \in Seq(T), NEW K
  PROVE  Kept(s, K) \in Seq(T) /\ \E g : Lists(Kept(s, K), s, K, Len(s), g)
<1>1. PICK f : KeptUpTo(s, K, Len(s), f) /\ Kept(s, K) = f[Len(s)]
  BY KeptIs
<1>a. Len(s) \in Nat /\ \A m \in 1..Len(s) : s[m] \in T
  OBVIOUS
<1>2. \A m \in 0..Len(s) :
        f[m] = IF m = 0 THEN <<>>
               ELSE IF s[m] \in K THEN Append(f[m - 1], s[m]) ELSE f[m - 1]
  BY <1>1 DEF KeptUpTo
<1> DEFINE Good(n) == f[n] \in Seq(T) /\ \E g : Lists(f[n], s, K, n, g)
           Bad == {n \in 0..Len(s) : ~Good(n)}
<1>3. SUFFICES ASSUME Bad # {} PROVE FALSE
  BY <1>1, <1>a
<1>4. PICK n \in Bad : \A m \in Bad : n <= m
  <2>1. Bad \in SUBSET Nat
    BY <1>a
  <2> QED
    BY LeastNat, <1>3, <2>1, Zenon
<1>5. CASE n = 0
  <2>1. f[0] = <<>>
    BY <1>2, <1>a
  <2>2. Lists(<<>>, s, K, 0, <<>>)
    BY DEF Lists
  <2>3. Good(0)
    BY <2>1, <2>2
  <2> QED
    BY <1>4, <1>5, <2>3
<1>6. CASE n # 0
  <2>1. n - 1 \in 0..Len(s) /\ n - 1 \notin Bad /\ n \in 1..Len(s) /\ n \in Nat
    BY <1>4, <1>6, <1>a, SMTT(20)
  <2>2. PICK g : f[n - 1] \in Seq(T) /\ Lists(f[n - 1], s, K, n - 1, g)
    BY <2>1
  <2> DEFINE t == f[n - 1]
  <2>3. CASE s[n] \in K
    <3>1. f[n] = Append(t, s[n])
      BY <1>2, <1>6, <2>1, <2>3
    <3> DEFINE u == Append(t, s[n])
               h == [k \in DOMAIN u |-> IF k = Len(u) THEN n ELSE g[k]]
    <3>2. /\ t \in Seq(T) /\ u \in Seq(T) /\ Len(u) = Len(t) + 1 /\ u[Len(u)] = s[n]
          /\ DOMAIN u = 1..Len(u) /\ DOMAIN t = 1..Len(t) /\ Len(t) \in Nat
          /\ \A k \in 1..Len(t) : u[k] = t[k]
      BY <2>1, <2>2, <1>a
    <3> HIDE DEF u, t
    <3>g. \A k \in 1..Len(t) : g[k] \in 1..(n - 1)
      BY <3>2, <2>2 DEF Lists, t
    <3>h. /\ \A k \in 1..Len(t) : h[k] = g[k]
          /\ h[Len(u)] = n
      BY <3>2
    <3>3. /\ \A k \in 1..Len(t) : h[k] = g[k] /\ g[k] \in 1..(n - 1)
          /\ h[Len(u)] = n
      BY <3>g, <3>h
    <3>5. \A k \in DOMAIN u : k = Len(u) \/ k \in 1..Len(t)
      BY <3>2
    <3>j. h = [k \in DOMAIN u |-> h[k]]
      OBVIOUS
    <3> HIDE DEF h
    <3>i. \A k \in DOMAIN u : h[k] \in 1..n
      BY <3>3, <3>5, <2>1
    <3>4. h \in [DOMAIN u -> 1..n]
      BY <3>i, <3>j, Zenon
    <3>6. \A k \in DOMAIN u : u[k] = s[h[k]] /\ u[k] \in K
      BY <3>2, <3>3, <3>5, <2>2, <2>3 DEF Lists, t
    <3>7. \A k, l \in DOMAIN u : k < l => h[k] < h[l]
      <4> TAKE k, l \in DOMAIN u
      <4> HAVE k < l
      <4>1. k \in 1..Len(t)
        BY <3>2
      <4>2. CASE l = Len(u)
        BY <4>1, <4>2, <3>3, <2>1
      <4>3. CASE l \in 1..Len(t)
        BY <4>1, <4>3, <3>3, <3>2, <2>2 DEF Lists, t
      <4> QED
        BY <4>2, <4>3, <3>5
    <3>8. \A j \in 1..n : s[j] \in K => \E k \in DOMAIN u : h[k] = j
      <4> TAKE j \in 1..n
      <4> HAVE s[j] \in K
      <4>1. CASE j = n
        BY <4>1, <3>2, <3>3
      <4>2. CASE j # n
        <5>1. j \in 1..(n - 1)
          BY <4>2, <2>1
        <5>2. PICK k \in DOMAIN t : g[k] = j
          BY <5>1, <2>2 DEF Lists, t
        <5> QED
          BY <5>2, <3>2, <3>3, SMTT(20)
      <4> QED
        BY <4>1, <4>2
    <3>9. Lists(u, s, K, n, h)
      BY <3>4, <3>6, <3>7, <3>8 DEF Lists
    <3> QED
      BY <3>1, <3>2, <3>9, <1>4 DEF u, t
  <2>4. CASE s[n] \notin K
    <3>1. f[n] = t
      BY <1>2, <1>6, <2>1, <2>4
    <3>2. Lists(t, s, K, n, g)
      <4>1. g \in [DOMAIN t -> 1..n]
        <5>1. g \in [DOMAIN t -> 1..(n - 1)] /\ 1..(n - 1) \subseteq 1..n
          BY <2>1, <2>2 DEF Lists
        <5> QED
          BY <5>1
      <4>2. \A j \in 1..n : s[j] \in K => j \in 1..(n - 1)
        BY <2>1, <2>4
      <4> QED
        BY <4>1, <4>2, <2>2 DEF Lists
    <3> QED
      BY <3>1, <3>2, <2>2, <1>4
  <2> QED
    BY <2>3, <2>4
<1> QED
  BY <1>5, <1>6

\* What filter() returns: the elements of s that are in K, none twice that is
\* not twice in s.
LEMMA KeptElements ==
  ASSUME NEW T, NEW s \in Seq(T), NEW K
  PROVE  /\ Kept(s, K) \in Seq(T)
         /\ Elements(Kept(s, K)) = Elements(s) \cap K
         /\ \A k, l \in DOMAIN Kept(s, K) : k # l =>
              \E i, j \in DOMAIN s : i # j /\ s[i] = Kept(s, K)[k] /\ s[j] = Kept(s, K)[l]
<1> DEFINE t == Kept(s, K)
<1>1. t \in Seq(T)
  BY KeptLists
<1>2. PICK g : Lists(t, s, K, Len(s), g)
  BY KeptLists
<1> HIDE DEF t
<1>3. DOMAIN t = 1..Len(t) /\ DOMAIN s = 1..Len(s) /\ Len(t) \in Nat /\ Len(s) \in Nat
  BY <1>1
<1>4. Elements(t) = Elements(s) \cap K
  BY <1>2, <1>3 DEF Lists, Elements
<1>5. ASSUME NEW k \in DOMAIN t, NEW l \in DOMAIN t, k # l
      PROVE  g[k] \in DOMAIN s /\ g[l] \in DOMAIN s /\ g[k] # g[l]
             /\ s[g[k]] = t[k] /\ s[g[l]] = t[l]
  <2>1. g[k] \in DOMAIN s /\ g[l] \in DOMAIN s /\ s[g[k]] = t[k] /\ s[g[l]] = t[l]
    BY <1>2, <1>3 DEF Lists
  <2>2. k < l \/ l < k
    BY <1>3, <1>5
  <2>3. g[k] < g[l] \/ g[l] < g[k]
    BY <1>2, <2>2 DEF Lists
  <2> QED
    BY <2>1, <2>3, <1>3
<1> QED
  BY <1>1, <1>4, <1>5, Zenon DEF t

-----------------------------------------------------------------------------
(* Slots and events. *)

Keys(ms) == {<<m.kind, m.id>> : m \in Elements(ms)}

\* Every assistant message is whole.
Finals(ms) == \A m \in Elements(ms) : m.kind = "assistant" => m = Final(m.id)

\* The kinds of messages.
LEMMA MessageForm ==
  /\ \A t \in Text : UserMsg(t) \in Message /\ UserMsg(t).kind = "user"
  /\ \A i \in 1..MaxTurn, c \in Seq(Piece), st \in BOOLEAN :
       Assistant(i, c, st) \in Message /\ IsAssistant(Assistant(i, c, st), i)
  /\ \A c \in Ask : [kind |-> "tool_result", id |-> c] \in Message
  /\ \A i \in 1..MaxTurn : Final(i) \in Message /\ IsAssistant(Final(i), i)
<1>1. \A t \in Text : UserMsg(t) \in Message /\ UserMsg(t).kind = "user"
  BY DEF UserMsg, Message
<1>2. \A i \in 1..MaxTurn, c \in Seq(Piece), st \in BOOLEAN :
       Assistant(i, c, st) \in Message /\ IsAssistant(Assistant(i, c, st), i)
  BY DEF Assistant, Message, IsAssistant
<1>3. \A c \in Ask : [kind |-> "tool_result", id |-> c] \in Message
  BY DEF Message
<1>4. <<"final">> \in Seq(Piece) /\ FALSE \in BOOLEAN
  BY DEF Piece
<1>5. \A i \in 1..MaxTurn : Final(i) \in Message /\ IsAssistant(Final(i), i)
  BY <1>2, <1>4, Zenon DEF Final
<1> QED
  BY <1>1, <1>2, <1>3, <1>5

\* The content of an assistant message.
LEMMA ContentOf ==
  \A m \in Message : m.kind = "assistant" => m.content \in Seq(Piece)
  BY DEF Message

\* IndexOf finds the assistant message there is.
LEMMA IndexOfIs ==
  ASSUME NEW s, s.messages \in Seq(Message), NEW i
  PROVE  \/ IndexOf(s, i) = 0 /\ \A k \in DOMAIN s.messages : ~IsAssistant(s.messages[k], i)
         \/ /\ IndexOf(s, i) \in DOMAIN s.messages
            /\ IndexOf(s, i) # 0
            /\ IsAssistant(s.messages[IndexOf(s, i)], i)
<1> DEFINE at == {k \in DOMAIN s.messages : /\ s.messages[k].kind = "assistant"
                                            /\ s.messages[k].id = i}
<1>1. at \in SUBSET Nat /\ 0 \notin at
  OBVIOUS
<1>2. CASE at = {}
  BY <1>2 DEF IndexOf, IsAssistant
<1>3. CASE at # {}
  <2>1. \E k \in at : \A l \in at : k <= l
    BY <1>1, <1>3, LeastNat, Zenon
  <2>2. IndexOf(s, i) = CHOOSE k \in at : \A l \in at : k <= l
    BY <1>3 DEF IndexOf
  <2>3. IndexOf(s, i) \in at
    BY <2>1, <2>2
  <2> QED
    BY <2>3, <1>1 DEF IsAssistant
<1> QED
  BY <1>2, <1>3

\* What a sequence of messages may become without taking anything back.
Grows(ms, ns) ==
  /\ ns \in Seq(Message)
  /\ Keys(ms) \subseteq Keys(ns)
  /\ Single(ms) => Single(ns)

\* A message whose id is new may be added.
LEMMA AppendGrows ==
  ASSUME NEW ms \in Seq(Message), NEW m \in Message,
         \A i : IsAssistant(m, i) => \A k \in DOMAIN ms : ~IsAssistant(ms[k], i)
  PROVE  Grows(ms, Append(ms, m)) /\ Elements(Append(ms, m)) = Elements(ms) \cup {m}
<1> DEFINE ns == Append(ms, m)
<1>1. /\ ns \in Seq(Message) /\ Len(ns) = Len(ms) + 1 /\ ns[Len(ns)] = m
      /\ DOMAIN ns = 1..Len(ns) /\ DOMAIN ms = 1..Len(ms) /\ Len(ms) \in Nat
      /\ \A k \in DOMAIN ms : k \in DOMAIN ns /\ ns[k] = ms[k]
      /\ \A k \in DOMAIN ns : k = Len(ns) \/ k \in DOMAIN ms
  OBVIOUS
<1> HIDE DEF ns
<1>2. Elements(ns) = Elements(ms) \cup {m}
  BY <1>1 DEF Elements
<1>3. Keys(ms) \subseteq Keys(ns)
  BY <1>2 DEF Keys
<1>4. ASSUME Single(ms), NEW i \in 1..MaxTurn, NEW k \in DOMAIN ns, NEW l \in DOMAIN ns,
             IsAssistant(ns[k], i), IsAssistant(ns[l], i)
      PROVE  k = l
  <2>1. CASE k \in DOMAIN ms /\ l \in DOMAIN ms
    BY <1>1, <1>4, <2>1 DEF Single
  <2>2. CASE k = Len(ns) /\ l \in DOMAIN ms
    BY <1>1, <1>4, <2>2
  <2>3. CASE k \in DOMAIN ms /\ l = Len(ns)
    BY <1>1, <1>4, <2>3
  <2> QED
    BY <1>1, <2>1, <2>2, <2>3
<1>5. Single(ms) => Single(ns)
  BY <1>4 DEF Single
<1> QED
  BY <1>1, <1>2, <1>3, <1>5 DEF Grows, ns

\* An assistant message may take the place of the one with its id.
LEMMA ReplaceGrows ==
  ASSUME NEW ms \in Seq(Message), NEW m \in Message, NEW j \in DOMAIN ms, NEW i,
         IsAssistant(ms[j], i), IsAssistant(m, i)
  PROVE  /\ Grows(ms, [ms EXCEPT ![j] = m])
         /\ m \in Elements([ms EXCEPT ![j] = m])
         /\ Elements(ms) \subseteq Elements([ms EXCEPT ![j] = m]) \cup {ms[j]}
         /\ Elements([ms EXCEPT ![j] = m]) \subseteq Elements(ms) \cup {m}
<1> DEFINE ns == [ms EXCEPT ![j] = m]
<1>1. /\ ns \in Seq(Message) /\ DOMAIN ns = DOMAIN ms /\ ns[j] = m
      /\ \A k \in DOMAIN ms : k # j => ns[k] = ms[k]
  OBVIOUS
<1> HIDE DEF ns
<1>2. /\ m \in Elements(ns) /\ Elements(ms) \subseteq Elements(ns) \cup {ms[j]}
      /\ Elements(ns) \subseteq Elements(ms) \cup {m}
  BY <1>1 DEF Elements
<1>3. m.kind = ms[j].kind /\ m.id = ms[j].id
  BY DEF IsAssistant
<1>4. Keys(ms) \subseteq Keys(ns)
  BY <1>2, <1>3 DEF Keys
<1>5. \A k \in DOMAIN ms : ns[k].kind = ms[k].kind /\ ns[k].id = ms[k].id
  BY <1>1, <1>3
<1>6. Single(ms) => Single(ns)
  BY <1>1, <1>5 DEF Single, IsAssistant
<1> QED
  BY <1>1, <1>2, <1>4, <1>6 DEF Grows, ns

\* What an event does to a slot.
Reduces(a, e, b) ==
  /\ b \in SessionState
  /\ Grows(a.messages, b.messages)
  /\ \A i \in 1..MaxTurn :
       HasFinal(a.messages, i) /\ ~(e.ev = "message_delta" /\ e.x = i) => HasFinal(b.messages, i)
  /\ e.ev = "message_complete" => HasFinal(b.messages, e.x)
  /\ b.perm = IF e.ev = "permission_request" THEN e.x ELSE a.perm
  /\ b.ques = IF e.ev = "ask_user_question" THEN e.x ELSE a.ques
  /\ e.ev \in Lasting /\ Finals(a.messages) => Finals(b.messages)

\* Nothing is taken back when nothing changes.
LEMMA GrowsItself ==
  ASSUME NEW ms \in Seq(Message)
  PROVE  Grows(ms, ms)
  BY DEF Grows

\* The fields of a slot.
LEMMA SlotFields ==
  ASSUME NEW a \in SessionState
  PROVE  /\ a.messages \in Seq(Message) /\ a.status \in Status /\ a.perm \in Call \cup {None}
         /\ a.ques \in Question \cup {None} /\ a.lastError \in BOOLEAN /\ a.notice \in BOOLEAN
  BY DEF SessionState

\* b is a with other messages, perhaps in another status.
Same(a, b) ==
  /\ b \in SessionState /\ b.perm = a.perm /\ b.ques = a.ques

\* A slot with other messages.
LEMMA WithMessages ==
  ASSUME NEW a \in SessionState, NEW ms \in Seq(Message)
  PROVE  Same(a, [a EXCEPT !.messages = ms]) /\ [a EXCEPT !.messages = ms].messages = ms
<1>1. PICK M : M = Seq(Message)
  OBVIOUS
<1> QED
  BY <1>1 DEF SessionState, Same

\* A slot in another status.
LEMMA WithStatus ==
  ASSUME NEW a \in SessionState, NEW st \in Status
  PROVE  Same(a, [a EXCEPT !.status = st]) /\ [a EXCEPT !.status = st].messages = a.messages
<1>1. PICK M : M = Seq(Message)
  OBVIOUS
<1> QED
  BY <1>1 DEF SessionState, Same

\* A message that is no assistant's.
LEMMA AddOther ==
  ASSUME NEW a \in SessionState, NEW m \in Message, m.kind # "assistant"
  PROVE  /\ AddMessage(a, m) \in SessionState
         /\ Grows(a.messages, AddMessage(a, m).messages)
         /\ Elements(AddMessage(a, m).messages) = Elements(a.messages) \cup {m}
         /\ AddMessage(a, m).perm = a.perm /\ AddMessage(a, m).ques = a.ques
<1>1. a.messages \in Seq(Message)
  BY SlotFields
<1>2. PICK ms \in Seq(Message) : ms = Append(a.messages, m)
  <2>1. Append(a.messages, m) \in Seq(Message)
    BY <1>1
  <2> QED
    BY <2>1
<1>3. Grows(a.messages, ms) /\ Elements(ms) = Elements(a.messages) \cup {m}
  BY <1>1, <1>2, AppendGrows DEF IsAssistant
<1>4. AddMessage(a, m) = [a EXCEPT !.messages = ms]
  BY <1>2 DEF AddMessage
<1>5. Same(a, AddMessage(a, m)) /\ AddMessage(a, m).messages = ms
  BY <1>4, WithMessages
<1> QED
  BY <1>3, <1>5 DEF Same

\* Such a message leaves those of the assistant alone.
LEMMA OtherKeeps ==
  ASSUME NEW a, NEW b, NEW m, m.kind # "assistant",
         Elements(b.messages) = Elements(a.messages) \cup {m}
  PROVE  /\ \A i \in 1..MaxTurn : HasFinal(a.messages, i) => HasFinal(b.messages, i)
         /\ Finals(a.messages) => Finals(b.messages)
  BY DEF HasFinal, Finals

\* Reducing user_message.
LEMMA ReduceUser ==
  ASSUME NEW a \in SessionState, NEW e \in TypedEvent, e.ev = "user_message"
  PROVE  Reduces(a, e, ReduceUserMessage(a, e.x))
<1>1. UserMsg(e.x) \in Message /\ UserMsg(e.x).kind # "assistant"
  BY MessageForm DEF TypedEvent, Carries
<1>2. CASE ReduceUserMessage(a, e.x) = a
  BY <1>2, GrowsItself, SlotFields DEF Reduces
<1>3. CASE ReduceUserMessage(a, e.x) = AddMessage(a, UserMsg(e.x))
  <2>1. PICK b : b = AddMessage(a, UserMsg(e.x))
    OBVIOUS
  <2>2. /\ b \in SessionState /\ Grows(a.messages, b.messages)
        /\ Elements(b.messages) = Elements(a.messages) \cup {UserMsg(e.x)}
        /\ b.perm = a.perm /\ b.ques = a.ques
    BY <1>1, <2>1, AddOther, Zenon
  <2>3. /\ \A i \in 1..MaxTurn : HasFinal(a.messages, i) => HasFinal(b.messages, i)
        /\ Finals(a.messages) => Finals(b.messages)
    BY <1>1, <2>2, OtherKeeps, Zenon
  <2>4. /\ e.ev # "message_complete" /\ e.ev # "permission_request"
        /\ e.ev # "ask_user_question" /\ e.ev # "message_delta"
    OBVIOUS
  <2>5. Reduces(a, e, b)
    BY <2>2, <2>3, <2>4, Zenon DEF Reduces
  <2> QED
    BY <1>3, <2>1, <2>5, Zenon
<1> QED
  BY <1>2, <1>3 DEF ReduceUserMessage

\* Reducing tool_result.
LEMMA ReduceOutcome ==
  ASSUME NEW a \in SessionState, NEW e \in TypedEvent, e.ev = "tool_result"
  PROVE  Reduces(a, e, AddMessage(a, [kind |-> "tool_result", id |-> e.x]))
<1>1. PICK m \in Message : m = [kind |-> "tool_result", id |-> e.x] /\ m.kind # "assistant"
  BY MessageForm DEF TypedEvent, Carries
<1>2. PICK b : b = AddMessage(a, m)
  OBVIOUS
<1>3. /\ b \in SessionState /\ Grows(a.messages, b.messages)
      /\ Elements(b.messages) = Elements(a.messages) \cup {m}
      /\ b.perm = a.perm /\ b.ques = a.ques
  BY <1>1, <1>2, AddOther
<1>4. /\ \A i \in 1..MaxTurn : HasFinal(a.messages, i) => HasFinal(b.messages, i)
      /\ Finals(a.messages) => Finals(b.messages)
  BY <1>1, <1>3, OtherKeeps
<1> QED
  BY <1>1, <1>2, <1>3, <1>4 DEF Reduces

\* A whole or partial assistant message takes the place of the one there is, or
\* is added.
Puts(a, i, m, ns) ==
  IF IndexOf(a, i) = 0 THEN ns = Append(a.messages, m)
                       ELSE ns = [a.messages EXCEPT ![IndexOf(a, i)] = m]

\* What putting an assistant message does to the others.
LEMMA PutAssistant ==
  ASSUME NEW a \in SessionState, NEW i \in 1..MaxTurn, NEW m \in Message, IsAssistant(m, i),
         NEW ns, Puts(a, i, m, ns)
  PROVE  /\ Grows(a.messages, ns)
         /\ m \in Elements(ns)
         /\ \A j \in 1..MaxTurn : j # i /\ HasFinal(a.messages, j) => HasFinal(ns, j)
         /\ Elements(ns) \subseteq Elements(a.messages) \cup {m}
<1> DEFINE ms == a.messages
<1>1. ms \in Seq(Message)
  BY SlotFields
<1>2. CASE IndexOf(a, i) = 0
  <2>1. \A k \in DOMAIN ms : ~IsAssistant(ms[k], i)
    BY <1>1, <1>2, IndexOfIs
  <2>2. \A j : IsAssistant(m, j) => \A k \in DOMAIN ms : ~IsAssistant(ms[k], j)
    BY <2>1 DEF IsAssistant
  <2>3. Grows(ms, Append(ms, m)) /\ Elements(Append(ms, m)) = Elements(ms) \cup {m}
    BY <1>1, <2>2, AppendGrows
  <2> QED
    BY <1>2, <2>3 DEF Puts, HasFinal
<1>3. CASE IndexOf(a, i) # 0
  <2>1. PICK k \in DOMAIN ms : k = IndexOf(a, i) /\ IsAssistant(ms[k], i)
    BY <1>1, <1>3, IndexOfIs
  <2>2. ns = [ms EXCEPT ![k] = m]
    BY <1>3, <2>1 DEF Puts
  <2>3. /\ Grows(ms, ns) /\ m \in Elements(ns)
        /\ Elements(ms) \subseteq Elements(ns) \cup {ms[k]}
        /\ Elements(ns) \subseteq Elements(ms) \cup {m}
    BY <1>1, <2>1, <2>2, ReplaceGrows
  <2>4. \A j \in 1..MaxTurn : j # i => Final(j) # ms[k]
    BY <2>1, MessageForm DEF IsAssistant
  <2> QED
    BY <2>3, <2>4 DEF HasFinal
<1> QED
  BY <1>2, <1>3

\* Reducing message_complete.
LEMMA ReduceCompletion ==
  ASSUME NEW a \in SessionState, NEW e \in TypedEvent, e.ev = "message_complete"
  PROVE  Reduces(a, e, ReduceComplete(a, e.x))
<1>1. PICK i \in 1..MaxTurn : i = e.x
  BY DEF TypedEvent, Carries
<1>2. PICK m \in Message : m = Final(i) /\ IsAssistant(m, i)
  BY MessageForm
<1>3. PICK ns : Puts(a, i, m, ns) /\ ReduceComplete(a, i) = [a EXCEPT !.messages = ns]
  BY <1>2 DEF Puts, ReduceComplete, AddMessage, Final
<1>4. /\ Grows(a.messages, ns) /\ m \in Elements(ns)
      /\ \A j \in 1..MaxTurn : j # i /\ HasFinal(a.messages, j) => HasFinal(ns, j)
      /\ Elements(ns) \subseteq Elements(a.messages) \cup {m}
  BY <1>2, <1>3, PutAssistant
<1>5. ns \in Seq(Message)
  BY <1>4 DEF Grows
<1>6. PICK b \in SessionState : /\ b = ReduceComplete(a, i) /\ b.messages = ns
                                /\ b.perm = a.perm /\ b.ques = a.ques
  BY <1>3, <1>5, WithMessages DEF Same
<1>7. HasFinal(ns, i)
  BY <1>2, <1>4 DEF HasFinal
<1>8. Finals(a.messages) => Finals(ns)
  BY <1>2, <1>4 DEF Finals, IsAssistant
<1> QED
  BY <1>1, <1>4, <1>6, <1>7, <1>8 DEF Reduces

\* Reducing message_delta.
LEMMA ReducePiece ==
  ASSUME NEW a \in SessionState, NEW e \in TypedEvent, e.ev = "message_delta"
  PROVE  Reduces(a, e, ReduceDelta(a, e.x))
<1>1. PICK i \in 1..MaxTurn : i = e.x
  BY DEF TypedEvent, Carries
<1> DEFINE k == IndexOf(a, i)
           old == IF k = 0 THEN <<>> ELSE a.messages[k].content
<1>2. old \in Seq(Piece)
  <2>1. CASE k = 0
    BY <2>1
  <2>2. CASE k # 0
    <3>1. k \in DOMAIN a.messages /\ a.messages[k].kind = "assistant"
      BY <2>2, IndexOfIs, SlotFields DEF IsAssistant
    <3>2. a.messages[k] \in Message
      BY <3>1, SlotFields
    <3> QED
      BY <2>2, <3>1, <3>2, ContentOf
  <2> QED
    BY <2>1, <2>2
<1>3. appendDelta(old) \in Seq(Piece) /\ TRUE \in BOOLEAN
  BY <1>2 DEF appendDelta, Piece
<1>4. PICK m \in Message : m = Assistant(i, appendDelta(old), TRUE) /\ IsAssistant(m, i)
  BY <1>3, MessageForm, Zenon
<1>5. PICK ns : /\ Puts(a, i, m, ns)
                /\ ReduceDelta(a, i) = [[a EXCEPT !.messages = ns] EXCEPT !.status = "streaming"]
  <2>1. CASE k = 0
    BY <1>4, <2>1 DEF Puts, ReduceDelta, AddMessage
  <2>2. CASE k # 0
    <3>1. ReduceDelta(a, i) = [a EXCEPT !.messages[k] = m, !.status = "streaming"]
      BY <1>4, <2>2 DEF ReduceDelta
    <3> QED
      BY <3>1, <2>2 DEF Puts
  <2> QED
    BY <2>1, <2>2
<1> HIDE DEF k, old
<1>a. IsAssistant(m, i) /\ Puts(a, i, m, ns)
  BY <1>4, <1>5
<1>6. /\ Grows(a.messages, ns)
      /\ \A j \in 1..MaxTurn : j # i /\ HasFinal(a.messages, j) => HasFinal(ns, j)
  BY <1>a, PutAssistant
<1>7. ns \in Seq(Message) /\ "streaming" \in Status
  BY <1>6 DEF Grows, Status
<1>8. PICK c \in SessionState : /\ c = [a EXCEPT !.messages = ns] /\ c.messages = ns
                                /\ c.perm = a.perm /\ c.ques = a.ques
  BY <1>7, WithMessages DEF Same
<1>9. PICK b \in SessionState : /\ b = ReduceDelta(a, i) /\ b.messages = ns
                                /\ b.perm = a.perm /\ b.ques = a.ques
  <2>1. /\ Same(c, [c EXCEPT !.status = "streaming"])
        /\ [c EXCEPT !.status = "streaming"].messages = c.messages
    BY <1>7, WithStatus
  <2>2. ReduceDelta(a, i) = [c EXCEPT !.status = "streaming"]
    BY <1>5, <1>8, Zenon
  <2> QED
    BY <1>8, <2>1, <2>2 DEF Same
<1> QED
  BY <1>1, <1>6, <1>9 DEF Reduces, Lasting

\* Reducing what brings no message.
LEMMA ReduceOther ==
  ASSUME NEW a \in SessionState, NEW e \in TypedEvent,
         e.ev \in {"permission_request", "ask_user_question", "result", "error", "done"}
  PROVE  Reduces(a, e, reduceSession(a, e))
<1>1. PICK b : b = reduceSession(a, e)
  OBVIOUS
<1>2. b \in SessionState /\ b.messages = a.messages
  BY <1>1 DEF reduceSession, TypedEvent, Carries, SessionState, Status, ReducePermission, ReduceQuestion
<1>3. /\ b.perm = IF e.ev = "permission_request" THEN e.x ELSE a.perm
      /\ b.ques = IF e.ev = "ask_user_question" THEN e.x ELSE a.ques
  BY <1>1 DEF reduceSession, SessionState, ReducePermission, ReduceQuestion
<1> QED
  BY <1>1, <1>2, <1>3, GrowsItself, SlotFields DEF Reduces

\* Whatever the event, reducing it does to a slot what Reduces says.
LEMMA ReduceStep ==
  ASSUME NEW a \in SessionState, NEW e \in TypedEvent
  PROVE  Reduces(a, e, reduceSession(a, e))
<1>1. e.ev \in EventName
  BY DEF TypedEvent, EventSet
<1>2. CASE e.ev = "user_message"
  BY <1>2, ReduceUser DEF reduceSession
<1>3. CASE e.ev = "message_delta"
  BY <1>3, ReducePiece DEF reduceSession
<1>4. CASE e.ev = "message_complete"
  BY <1>4, ReduceCompletion DEF reduceSession
<1>5. CASE e.ev = "tool_result"
  BY <1>5, ReduceOutcome DEF reduceSession
<1> QED
  BY <1>1, <1>2, <1>3, <1>4, <1>5, ReduceOther DEF EventName

-----------------------------------------------------------------------------
(* History. *)

ReplaysUpTo(events, n, h) ==
  h = [m \in 0..n |->
        IF m = 0 THEN initialSessionState ELSE reduceSession(h[m - 1], events[m])]

\* The recursion of a replay has a solution.
LEMMA ReplayExists ==
  ASSUME NEW events, NEW n \in Nat
  PROVE  \E h : ReplaysUpTo(events, n, h)
<1> DEFINE Bad == {i \in Nat : ~ \E h : ReplaysUpTo(events, i, h)}
<1> SUFFICES ASSUME Bad # {} PROVE FALSE
  OBVIOUS
<1>1. PICK i \in Bad : \A j \in Bad : i <= j
  BY LeastNat
<1>2. CASE i = 0
  <2> DEFINE h == [m \in 0..0 |-> initialSessionState]
  <2>1. ReplaysUpTo(events, 0, h)
    BY DEF ReplaysUpTo
  <2> QED
    BY <1>1, <1>2, <2>1
<1>3. CASE i # 0
  <2>1. i - 1 \in Nat /\ i - 1 \notin Bad
    BY <1>1, <1>3
  <2>2. PICK h : ReplaysUpTo(events, i - 1, h)
    BY <2>1
  <2> DEFINE last == reduceSession(h[i - 1], events[i])
             g == [m \in 0..i |-> IF m = i THEN last ELSE h[m]]
  <2>3. ReplaysUpTo(events, i, g)
    <3>1. ASSUME NEW m \in 0..i
          PROVE  g[m] = IF m = 0 THEN initialSessionState
                        ELSE reduceSession(g[m - 1], events[m])
      <4>1. CASE m = i
        <5>1. g[m] = last /\ i - 1 \in 0..i /\ i - 1 # i /\ g[i - 1] = h[i - 1]
          BY <4>1, <2>1
        <5> QED
          BY <5>1, <4>1, <1>3
      <4>2. CASE m = 0
        <5>1. g[0] = h[0] /\ 0 \in 0..(i - 1)
          BY <4>2, <1>3, <2>1
        <5>2. h[0] = initialSessionState
          BY <5>1, <2>2 DEF ReplaysUpTo
        <5> QED
          BY <5>1, <5>2, <4>2
      <4>3. CASE m # i /\ m # 0
        <5>1. m \in 0..(i - 1) /\ m - 1 \in 0..i /\ m - 1 # i
          BY <4>3
        <5>2. g[m] = h[m] /\ g[m - 1] = h[m - 1]
          BY <5>1, <4>3
        <5>3. h[m] = IF m = 0 THEN initialSessionState
                     ELSE reduceSession(h[m - 1], events[m])
          BY <5>1, <2>2 DEF ReplaysUpTo
        <5> QED
          BY <5>2, <5>3
      <4> QED
        BY <4>1, <4>2, <4>3
    <3>2. g = [m \in 0..i |-> g[m]]
      OBVIOUS
    <3> HIDE DEF last, g
    <3> QED
      BY <3>1, <3>2 DEF ReplaysUpTo
  <2> QED
    BY <1>1, <2>3
<1> QED
  BY <1>2, <1>3

\* The slot of a session the tab has heard nothing of.
LEMMA InitialSlot ==
  /\ initialSessionState \in SessionState
  /\ initialSessionState.messages = <<>>
  /\ initialSessionState.perm = None /\ initialSessionState.ques = None
  BY DEF initialSessionState, SessionState, Status

\* What replaying a history gives: a slot whose assistant messages are whole, and
\* there once.
LEMMA ReplayIs ==
  ASSUME NEW events \in Seq(PastEvent)
  PROVE  /\ Replay(events) \in SessionState
         /\ Single(Replay(events).messages) /\ Finals(Replay(events).messages)
<1>1. Len(events) \in Nat /\ \A m \in 1..Len(events) : events[m] \in PastEvent
  OBVIOUS
<1> DEFINE H == CHOOSE h : ReplaysUpTo(events, Len(events), h)
<1>2. ReplaysUpTo(events, Len(events), H)
  BY ReplayExists, <1>1, Zenon
<1>3. Replay(events) = H[Len(events)]
  BY DEF Replay, ReplaysUpTo
<1> HIDE DEF H
<1>4. \A m \in 0..Len(events) :
        H[m] = IF m = 0 THEN initialSessionState ELSE reduceSession(H[m - 1], events[m])
  BY <1>2 DEF ReplaysUpTo
<1> DEFINE Good(n) == H[n] \in SessionState /\ Single(H[n].messages) /\ Finals(H[n].messages)
           Bad == {n \in 0..Len(events) : ~Good(n)}
<1>5. SUFFICES ASSUME Bad # {} PROVE FALSE
  BY <1>1, <1>3
<1>6. PICK n \in Bad : \A m \in Bad : n <= m
  <2>1. Bad \in SUBSET Nat
    BY <1>1
  <2> QED
    BY LeastNat, <1>5, <2>1, Zenon
<1>7. CASE n = 0
  <2>1. H[0] = initialSessionState
    BY <1>1, <1>4
  <2>2. Single(<<>>) /\ Finals(<<>>)
    BY DEF Single, Finals, Elements
  <2> QED
    BY <1>6, <1>7, <2>1, <2>2, InitialSlot
<1>8. CASE n # 0
  <2>1. n - 1 \in 0..Len(events) /\ n - 1 \notin Bad /\ n \in 1..Len(events)
    BY <1>1, <1>6, <1>8
  <2>2. Good(n - 1)
    BY <2>1
  <2>3. PICK e \in TypedEvent : e = events[n] /\ e.ev \in Lasting
    BY <1>1, <2>1 DEF PastEvent
  <2>4. H[n] = reduceSession(H[n - 1], e)
    BY <1>4, <1>8, <2>1, <2>3
  <2>5. Reduces(H[n - 1], e, H[n])
    BY <2>2, <2>4, ReduceStep
  <2>6. Good(n)
    BY <2>2, <2>3, <2>5 DEF Reduces, Grows
  <2> QED
    BY <1>6, <2>6
<1> QED
  BY <1>7, <1>8

\* What a slot becomes when something is laid over it that leaves its cards alone.
Joins(a, b) ==
  /\ b \in SessionState
  /\ Grows(a.messages, b.messages)
  /\ \A i \in 1..MaxTurn : HasFinal(a.messages, i) => HasFinal(b.messages, i)
  /\ b.perm = a.perm /\ b.ques = a.ques

\* The elements of a concatenation.
LEMMA ConcatElements ==
  ASSUME NEW T, NEW s \in Seq(T), NEW t \in Seq(T)
  PROVE  s \o t \in Seq(T) /\ Elements(s \o t) = Elements(s) \cup Elements(t)
<1>1. /\ s \o t \in Seq(T) /\ Len(s \o t) = Len(s) + Len(t)
      /\ DOMAIN s = 1..Len(s) /\ DOMAIN t = 1..Len(t) /\ DOMAIN (s \o t) = 1..Len(s \o t)
      /\ Len(s) \in Nat /\ Len(t) \in Nat
  OBVIOUS
<1>2. \A k \in DOMAIN s : k \in DOMAIN (s \o t) /\ (s \o t)[k] = s[k]
  OBVIOUS
<1>3. \A k \in DOMAIN t : Len(s) + k \in DOMAIN (s \o t) /\ (s \o t)[Len(s) + k] = t[k]
  OBVIOUS
<1>4. \A k \in DOMAIN (s \o t) : k \in DOMAIN s \/ (k - Len(s) \in DOMAIN t /\ k = Len(s) + (k - Len(s)))
  BY <1>1
<1>5. PICK u : u = s \o t
  OBVIOUS
<1>6. Elements(u) = Elements(s) \cup Elements(t)
  <2>1. Elements(s) \subseteq Elements(u)
    BY <1>2, <1>5 DEF Elements
  <2>2. Elements(t) \subseteq Elements(u)
    BY <1>3, <1>5 DEF Elements
  <2>3. ASSUME NEW k \in DOMAIN u
        PROVE  u[k] \in Elements(s) \cup Elements(t)
    <3>1. CASE k \in DOMAIN s
      BY <1>2, <1>5, <3>1 DEF Elements
    <3>2. CASE k - Len(s) \in DOMAIN t /\ k = Len(s) + (k - Len(s))
      BY <1>3, <1>5, <3>2 DEF Elements
    <3> QED
      BY <1>4, <1>5, <2>3, <3>1, <3>2
  <2> QED
    BY <2>1, <2>2, <2>3 DEF Elements
<1> QED
  BY <1>1, <1>5, <1>6

\* History, and then what of the live messages it does not cover.
LEMMA HistoryJoins ==
  ASSUME NEW a \in SessionState, NEW events \in Seq(PastEvent)
  PROVE  Joins(a, HistoryLoaded(a, events))
<1>1. PICK h \in SessionState : h = Replay(events) /\ Single(h.messages) /\ Finals(h.messages)
  BY ReplayIs
<1>2. PICK past \in Seq(Message) : past = h.messages
  BY SlotFields
<1>3. PICK live \in Seq(Message) : live = a.messages
  BY SlotFields
<1> DEFINE K == {m \in Elements(live) : <<m.kind, m.id>> \notin Keys(past)}
<1>4. PICK rest \in Seq(Message) :
        /\ rest = liveExtras(live, past)
        /\ Elements(rest) = K
        /\ \A k, l \in DOMAIN rest : k # l =>
             \E i, j \in DOMAIN live : i # j /\ live[i] = rest[k] /\ live[j] = rest[l]
  <2>1. liveExtras(live, past) = Kept(live, K)
    BY DEF liveExtras, Keys
  <2>2. K \subseteq Elements(live)
    OBVIOUS
  <2> HIDE DEF K
  <2>3. /\ Kept(live, K) \in Seq(Message)
        /\ Elements(Kept(live, K)) = Elements(live) \cap K
        /\ \A k, l \in DOMAIN Kept(live, K) : k # l =>
             \E i, j \in DOMAIN live :
               i # j /\ live[i] = Kept(live, K)[k] /\ live[j] = Kept(live, K)[l]
    BY KeptElements
  <2> QED
    BY <2>1, <2>2, <2>3
<1>5. PICK ns \in Seq(Message) : ns = past \o rest /\ Elements(ns) = Elements(past) \cup K
  <2>1. /\ past \o rest \in Seq(Message)
        /\ Elements(past \o rest) = Elements(past) \cup Elements(rest)
    BY <1>2, <1>4, ConcatElements
  <2> QED
    BY <1>4, <2>1, Zenon
<1>6. Keys(live) \subseteq Keys(ns)
  <2>1. SUFFICES ASSUME NEW m \in Elements(live)
                 PROVE  <<m.kind, m.id>> \in Keys(ns)
    BY DEF Keys
  <2>2. CASE m \in K
    BY <2>2, <1>5 DEF Keys
  <2>3. CASE m \notin K
    <3>1. <<m.kind, m.id>> \in Keys(past)
      BY <2>1, <2>3
    <3> QED
      BY <3>1, <1>5 DEF Keys
  <2> QED
    BY <2>2, <2>3
<1>7. Single(live) => Single(ns)
  <2>1. SUFFICES ASSUME Single(live), NEW i \in 1..MaxTurn, NEW k \in DOMAIN ns,
                        NEW l \in DOMAIN ns, IsAssistant(ns[k], i), IsAssistant(ns[l], i)
                 PROVE  k = l
    BY DEF Single
  <2> DEFINE p == Len(past)
  <2>2. /\ p \in Nat /\ DOMAIN past = 1..p /\ DOMAIN rest = 1..Len(rest) /\ Len(rest) \in Nat
        /\ \A n \in 1..p : ns[n] = past[n]
        /\ \A n \in DOMAIN ns : n \in 1..p \/ (n - p \in 1..Len(rest) /\ ns[n] = rest[n - p])
        /\ DOMAIN ns \subseteq Int
    BY <1>5
  <2> HIDE DEF p
  <2>3. \A m \in DOMAIN past, n \in DOMAIN rest : IsAssistant(past[m], i) => ~IsAssistant(rest[n], i)
    <3>1. TAKE m \in DOMAIN past, n \in DOMAIN rest
    <3>2. rest[n] \in K /\ past[m] \in Elements(past)
      BY <1>4, <3>1 DEF Elements
    <3>3. <<rest[n].kind, rest[n].id>> # <<past[m].kind, past[m].id>>
      BY <3>2 DEF Keys
    <3> QED
      BY <3>3 DEF IsAssistant
  <2>4. \A m, n \in DOMAIN rest :
          IsAssistant(rest[m], i) /\ IsAssistant(rest[n], i) => m = n
    <3>1. SUFFICES ASSUME NEW m \in DOMAIN rest, NEW n \in DOMAIN rest, m # n,
                          IsAssistant(rest[m], i), IsAssistant(rest[n], i)
                   PROVE  FALSE
      OBVIOUS
    <3>2. PICK x, y \in DOMAIN live : x # y /\ live[x] = rest[m] /\ live[y] = rest[n]
      BY <1>4, <3>1
    <3> QED
      BY <2>1, <3>1, <3>2 DEF Single
  <2>5. \A m, n \in DOMAIN past :
          IsAssistant(past[m], i) /\ IsAssistant(past[n], i) => m = n
    BY <1>1, <1>2, <2>1 DEF Single
  <2>6. CASE k \in 1..p /\ l \in 1..p
    BY <2>1, <2>2, <2>5, <2>6
  <2>7. CASE k \notin 1..p /\ l \notin 1..p
    <3>1. k - p = l - p
      BY <2>1, <2>2, <2>4, <2>7
    <3> QED
      BY <3>1, <2>1, <2>2
  <2>8. CASE k \in 1..p /\ l \notin 1..p
    BY <2>1, <2>2, <2>3, <2>8
  <2>9. CASE k \notin 1..p /\ l \in 1..p
    BY <2>1, <2>2, <2>3, <2>9
  <2> QED
    BY <2>6, <2>7, <2>8, <2>9
<1>8. \A i \in 1..MaxTurn : HasFinal(live, i) => HasFinal(ns, i)
  <2>1. SUFFICES ASSUME NEW i \in 1..MaxTurn, Final(i) \in Elements(live)
                 PROVE  Final(i) \in Elements(ns)
    BY DEF HasFinal
  <2>2. CASE Final(i) \in K
    BY <2>2, <1>5
  <2>3. CASE Final(i) \notin K
    <3>1. PICK m \in Elements(past) : m.kind = Final(i).kind /\ m.id = Final(i).id
      BY <2>1, <2>3 DEF Keys
    <3>2. m = Final(i)
      BY <1>1, <1>2, <3>1, MessageForm DEF Finals, IsAssistant
    <3> QED
      BY <3>1, <3>2, <1>5
  <2> QED
    BY <2>2, <2>3
<1>9. Grows(live, ns)
  BY <1>6, <1>7 DEF Grows
<1>10. PICK st \in Status :
         HistoryLoaded(a, events) = [[a EXCEPT !.messages = ns] EXCEPT !.status = st]
  <2>1. (IF a.status = "streaming" THEN a.status ELSE "idle") \in Status
    BY DEF Status
  <2>2. HistoryLoaded(a, events)
        = [[a EXCEPT !.messages = ns] EXCEPT !.status =
             IF a.status = "streaming" THEN a.status ELSE "idle"]
    BY <1>1, <1>2, <1>3, <1>4, <1>5 DEF HistoryLoaded, SessionState
  <2> QED
    BY <2>1, <2>2
<1>11. PICK c \in SessionState : /\ c = [a EXCEPT !.messages = ns] /\ c.messages = ns
                                 /\ c.perm = a.perm /\ c.ques = a.ques
  BY WithMessages DEF Same
<1>12. Same(c, HistoryLoaded(a, events)) /\ HistoryLoaded(a, events).messages = ns
  BY <1>10, <1>11, WithStatus
<1> QED
  BY <1>3, <1>8, <1>9, <1>11, <1>12 DEF Joins, Same

\* A transcript has durable events alone.
LEMMA TranscriptsLast ==
  ASSUME log \in Seq(TypedEvent), NEW s, NEW h \in Transcripts(s)
  PROVE  h \in Seq(PastEvent)
<1> DEFINE durable == {e \in Elements(log) : e.s = s /\ e.ev \in Lasting}
<1>1. PICK k \in 0..Len(log) : h = Kept(SubSeq(log, 1, k), durable)
  BY DEF Transcripts, Lasting
<1>2. PICK t \in Seq(TypedEvent) : t = SubSeq(log, 1, k)
  <2>1. k \in Int /\ 1 \in Int /\ \A i \in 1..k : log[i] \in TypedEvent
    BY <1>1
  <2>2. SubSeq(log, 1, k) \in Seq(TypedEvent)
    BY <2>1, SubSeqProperties, Zenon
  <2> QED
    BY <2>2
<1>3. durable \subseteq PastEvent
  BY DEF PastEvent, Elements
<1> HIDE DEF durable
<1>4. h \in Seq(TypedEvent) /\ Elements(h) \subseteq PastEvent
  <2>1. h = Kept(t, durable)
    BY <1>1, <1>2
  <2>2. Kept(t, durable) \in Seq(TypedEvent)
        /\ Elements(Kept(t, durable)) = Elements(t) \cap durable
    BY KeptElements
  <2> QED
    BY <1>3, <2>1, <2>2
<1>5. \A n \in 1..Len(h) : h[n] \in PastEvent
  BY <1>4 DEF Elements
<1> QED
  BY <1>4, <1>5

-----------------------------------------------------------------------------
(* ------------------------- the server's side moves ------------------------- *)

\* The log goes on from where it was; no request is asked, or opened, again.
ServerMoves ==
  /\ srv' \in [Sid -> Server]
  /\ log' \in Seq(TypedEvent)
  /\ Len(log) <= Len(log') /\ \A k \in 1..Len(log) : log'[k] = log[k]
  /\ \A s \in Sid :
       /\ srv[s].asked \subseteq srv'[s].asked
       /\ srv'[s].open \cap srv[s].asked \subseteq srv[s].open
  /\ UNCHANGED <<cursor, tab, asked>>

\* The facts about what the tab has seen do not depend on what is still to come.
LEMMA SeenStays ==
  ASSUME IInv, ServerMoves
  PROVE  CardShape' /\ SeenShape' /\ NewestShape' /\ FinalShape'
<1>1. /\ cursor' = cursor /\ tab' = tab /\ cursor \in Nat
      /\ \A k \in 1..cursor : k \in 1..Len(log) /\ log'[k] = log[k]
  BY DEF IInv, TypeShape, ServerMoves
<1>2. CardShape'
  BY <1>1 DEF IInv, CardShape, ServerMoves
<1>3. SeenShape'
  BY <1>1 DEF IInv, SeenShape
<1>4. ASSUME NEW s \in Sid, NEW k \in 1..cursor, NEW ev
      PROVE  Newest(k, s, ev)' => Newest(k, s, ev)
  <2>1. \A l \in (k + 1)..cursor : l \in 1..cursor
    BY <1>1
  <2> QED
    BY <1>1, <2>1 DEF Newest
<1>5. NewestShape'
  <2>1. SUFFICES ASSUME NEW s \in Sid, NEW k \in 1..cursor, log[k].x \in srv'[s].open
                 PROVE  /\ Newest(k, s, "permission_request")' => tab[s].perm = log[k].x
                        /\ Newest(k, s, "ask_user_question")' => tab[s].ques = log[k].x
    BY <1>1 DEF NewestShape
  <2>2. ASSUME log[k].s = s, log[k].ev \in Requests
        PROVE  log[k].x \in srv[s].open
    <3>1. log[k].x \in srv[s].asked
      BY <1>1, <2>2 DEF IInv, ServerShape, TypeShape
    <3> QED
      BY <2>1, <3>1 DEF ServerMoves
  <2>3. ASSUME NEW ev \in Requests, Newest(k, s, ev)'
        PROVE  Newest(k, s, ev) /\ log[k].x \in srv[s].open
    <3>1. Newest(k, s, ev)
      BY <1>4, <2>3
    <3> QED
      BY <3>1, <2>2, <2>3 DEF Newest
  <2>4. "permission_request" \in Requests /\ "ask_user_question" \in Requests
    BY DEF Requests
  <2> QED
    BY <2>3, <2>4 DEF IInv, NewestShape
<1>6. FinalShape'
  BY <1>1 DEF IInv, FinalShape
<1> QED
  BY <1>2, <1>3, <1>5, <1>6

\* What may be put on the log.
Fits(e) ==
  /\ e \in TypedEvent
  /\ e.ev \in Requests => e.x \in srv'[e.s].asked
  /\ e.ev = "message_complete" => e.x <= srv'[e.s].turn
  /\ e.ev = "message_delta" => srv[e.s].turn < e.x

\* The log may go on with what fits.
LEMMA EmitKeeps ==
  ASSUME IInv, srv' \in [Sid -> Server],
         \A s \in Sid :
           /\ srv[s].asked \subseteq srv'[s].asked
           /\ srv[s].turn <= srv'[s].turn
           /\ srv'[s].open \subseteq srv'[s].asked
           /\ srv'[s].pc # "idle" => srv'[s].turn > 0
           /\ srv'[s].turn + srv'[s].queued <= MaxTurn,
         log' = log \/ \E e : Fits(e) /\ log' = Append(log, e)
  PROVE  /\ ServerShape' /\ log' \in Seq(TypedEvent)
         /\ Len(log) <= Len(log') /\ \A k \in 1..Len(log) : log'[k] = log[k]
<1>1. log \in Seq(TypedEvent) /\ srv \in [Sid -> Server]
  BY DEF IInv, TypeShape
<1>a. \A k \in DOMAIN log : log[k] \in TypedEvent /\ log[k].s \in Sid /\ log[k].ev \in EventName
  BY <1>1 DEF TypedEvent, EventSet
<1>b. \A k \in DOMAIN log : log[k].ev = "message_complete" => log[k].x \in Int
  BY <1>a DEF TypedEvent, Carries
<1>c. \A s \in Sid : srv[s].turn \in Nat /\ srv'[s].turn \in Nat
  BY <1>1, MuxBoundsAssumption DEF Server
<1>2. CASE log' = log
  <2>1. \A k \in DOMAIN log :
       /\ log[k].ev \in Requests => log[k].x \in srv'[log[k].s].asked
       /\ log[k].ev = "message_complete" => log[k].x <= srv'[log[k].s].turn
    BY <1>a, <1>b, <1>c DEF IInv, ServerShape
  <2> QED
    BY <1>1, <1>2, <2>1 DEF ServerShape, IInv
<1>3. CASE \E e : Fits(e) /\ log' = Append(log, e)
  <2>1. PICK e : Fits(e) /\ log' = Append(log, e)
    BY <1>3
  <2>2. /\ log' \in Seq(TypedEvent) /\ Len(log') = Len(log) + 1 /\ Len(log) \in Nat
        /\ DOMAIN log = 1..Len(log) /\ DOMAIN log' = 1..Len(log')
        /\ log'[Len(log')] = e /\ \A k \in DOMAIN log : log'[k] = log[k]
        /\ \A k \in DOMAIN log' : k = Len(log') \/ k \in DOMAIN log
    BY <1>1, <2>1 DEF Fits
  <2>3. \A k \in DOMAIN log' :
       /\ log'[k].ev \in Requests => log'[k].x \in srv'[log'[k].s].asked
       /\ log'[k].ev = "message_complete" => log'[k].x <= srv'[log'[k].s].turn
    <3>1. \A k \in DOMAIN log :
       /\ log[k].ev \in Requests => log[k].x \in srv'[log[k].s].asked
       /\ log[k].ev = "message_complete" => log[k].x <= srv'[log[k].s].turn
      BY <1>a, <1>b, <1>c DEF IInv, ServerShape
    <3>2. CASE e.ev \in Requests => e.x \in srv'[e.s].asked
      <4>1. ASSUME NEW k \in DOMAIN log, log'[k] = log[k]
            PROVE  /\ log'[k].ev \in Requests => log'[k].x \in srv'[log'[k].s].asked
                   /\ log'[k].ev = "message_complete" => log'[k].x <= srv'[log'[k].s].turn
        BY <3>1, <4>1
      <4>2. /\ log'[Len(log')].ev \in Requests => log'[Len(log')].x \in srv'[log'[Len(log')].s].asked
            /\ log'[Len(log')].ev = "message_complete" => log'[Len(log')].x <= srv'[log'[Len(log')].s].turn
        BY <2>1, <2>2, Zenon DEF Fits
      <4> QED
        BY <2>2, <4>1, <4>2, Zenon
    <3> QED
      BY <2>1, <3>2 DEF Fits
  <2>4. ASSUME NEW k \in DOMAIN log', NEW l \in DOMAIN log', k < l, log'[k].s = log'[l].s,
               log'[k].ev = "message_complete", log'[l].ev = "message_delta"
        PROVE  log'[k].x < log'[l].x
    <3>1. k \in DOMAIN log
      BY <2>2, <2>4
    <3>2. CASE l \in DOMAIN log
      BY <2>2, <2>4, <3>1, <3>2 DEF IInv, ServerShape
    <3>3. CASE l = Len(log')
      <4>1. log[k].x <= srv[e.s].turn /\ srv[e.s].turn < e.x
        BY <2>1, <2>2, <2>4, <3>1, <3>3 DEF Fits, IInv, ServerShape
      <4>2. log[k].x \in Int /\ e.x \in Int /\ srv[e.s].turn \in Int
        <5>1. e \in TypedEvent /\ e.s \in Sid /\ e.ev = "message_delta"
          BY <2>1, <2>2, <2>4, <3>3 DEF Fits, TypedEvent, EventSet
        <5>2. e.x \in Int
          BY <5>1 DEF TypedEvent, Carries
        <5>3. log[k].x \in Int
          BY <1>b, <2>2, <2>4, <3>1
        <5> QED
          BY <5>1, <5>2, <5>3, <1>c
      <4> QED
        BY <4>1, <4>2, <2>2, <3>1, <3>3
    <3> QED
      BY <2>2, <3>2, <3>3
  <2> QED
    BY <2>2, <2>3, <2>4 DEF ServerShape
<1> QED
  BY <1>2, <1>3

\* The fields of an event.
LEMMA EventIs ==
  \A e, s, x : /\ Event(e, s, x).ev = e /\ Event(e, s, x).s = s /\ Event(e, s, x).x = x
               /\ e \in EventName /\ s \in Sid /\ x \in Text \cup Ask \cup (0..MaxTurn)
                    => Event(e, s, x) \in EventSet
  BY DEF Event, EventSet

\* A step of one session.
LEMMA RecordMoves ==
  ASSUME IInv, NEW s \in Sid, NEW r \in Server, srv' = [srv EXCEPT ![s] = r],
         srv[s].asked \subseteq r.asked,
         r.open \cap srv[s].asked \subseteq srv[s].open,
         r.open \subseteq r.asked,
         srv[s].turn <= r.turn,
         r.turn + r.queued <= MaxTurn,
         r.pc # "idle" => r.turn > 0,
         log' = log \/ \E e : Fits(e) /\ log' = Append(log, e),
         UNCHANGED <<cursor, tab, asked>>
  PROVE  ServerMoves /\ ServerShape'
<1>1. srv \in [Sid -> Server]
  BY DEF IInv, TypeShape
<1>2. /\ srv' \in [Sid -> Server] /\ srv'[s] = r
      /\ \A t \in Sid : t # s => srv'[t] = srv[t]
  BY <1>1
<1>3. \A t \in Sid : srv[t].turn \in Int
  BY <1>1, MuxBoundsAssumption DEF Server
<1>4. \A t \in Sid :
           /\ srv[t].asked \subseteq srv'[t].asked
           /\ srv[t].turn <= srv'[t].turn
           /\ srv'[t].open \subseteq srv'[t].asked
           /\ srv'[t].open \cap srv[t].asked \subseteq srv[t].open
           /\ srv'[t].pc # "idle" => srv'[t].turn > 0
           /\ srv'[t].turn + srv'[t].queued <= MaxTurn
  <2> TAKE t \in Sid
  <2>1. CASE t = s
    BY <1>2, <2>1
  <2>2. CASE t # s
    BY <1>2, <1>3, <2>2 DEF IInv, ServerShape
  <2> QED
    BY <2>1, <2>2
<1>5. /\ ServerShape' /\ log' \in Seq(TypedEvent)
      /\ Len(log) <= Len(log') /\ \A k \in 1..Len(log) : log'[k] = log[k]
  BY <1>2, <1>4, EmitKeeps
<1> QED
  BY <1>2, <1>4, <1>5 DEF ServerMoves

\* The record the server keeps of a session.
LEMMA ServerFields ==
  ASSUME IInv, NEW s \in Sid
  PROVE  /\ srv[s] \in Server
         /\ srv[s].turn \in 0..MaxTurn /\ srv[s].queued \in 0..MaxTurn /\ MaxTurn \in Nat
         /\ srv[s].pc \in {"idle", "reply", "tools"}
         /\ srv[s].asked \subseteq Ask /\ srv[s].open \subseteq srv[s].asked
         /\ srv[s].pc # "idle" => srv[s].turn > 0
         /\ srv[s].turn + srv[s].queued <= MaxTurn
<1>1. srv[s] \in Server
  BY DEF IInv, TypeShape
<1> QED
  BY <1>1, MuxBoundsAssumption DEF Server, IInv, ServerShape

SumsStay == \A s \in Sid : srv'[s].turn + srv'[s].queued = srv[s].turn + srv[s].queued

\* Answering a request, in whichever tab.
LEMMA SettleMoves ==
  ASSUME IInv, NEW s \in Sid, NEW c \in Ask, Settle(s, c), UNCHANGED <<cursor, tab, asked>>
  PROVE  ServerMoves /\ ServerShape' /\ SumsStay /\ c \notin srv'[s].open
<1>1. PICK e : e = Event("tool_result", s, c) /\ log' = Append(log, e)
  BY DEF Settle, Emit
<1>2. Fits(e)
  BY <1>1, EventIs DEF Fits, TypedEvent, Carries, EventName, Requests
<1>3. PICK r : r = [srv[s] EXCEPT !.open = @ \ {c}]
  OBVIOUS
<1>4. /\ r \in Server /\ r.asked = srv[s].asked /\ r.turn = srv[s].turn /\ r.pc = srv[s].pc
      /\ r.queued = srv[s].queued /\ r.open = srv[s].open \ {c}
  BY <1>3, ServerFields DEF Server
<1>5. srv' = [srv EXCEPT ![s] = r]
  BY <1>3 DEF Settle
<1>6. ServerMoves /\ ServerShape'
  <2>1. /\ srv[s].asked \subseteq r.asked
        /\ r.open \cap srv[s].asked \subseteq srv[s].open
        /\ r.open \subseteq r.asked
        /\ srv[s].turn <= r.turn
        /\ r.turn + r.queued <= MaxTurn
        /\ (r.pc # "idle" => r.turn > 0)
    BY <1>4, ServerFields
  <2>2. log' = log \/ \E x : Fits(x) /\ log' = Append(log, x)
    BY <1>1, <1>2
  <2>3. r \in Server
    BY <1>4
  <2> QED
    BY <1>5, <2>1, <2>2, <2>3, RecordMoves, Zenon
<1>7. srv \in [Sid -> Server]
  BY DEF IInv, TypeShape
<1>8. SumsStay /\ c \notin srv'[s].open
  BY <1>4, <1>5, <1>7 DEF SumsStay
<1> QED
  BY <1>6, <1>8

\* The steps of a turn.
LEMMA TurnMoves ==
  ASSUME IInv, NEW s \in Sid, ServerTurn(s)
  PROVE  ServerMoves /\ ServerShape' /\ SumsStay
<1>1. /\ srv[s] \in Server
      /\ srv[s].turn \in 0..MaxTurn /\ srv[s].queued \in 0..MaxTurn /\ MaxTurn \in Nat
      /\ srv[s].asked \subseteq Ask /\ srv[s].open \subseteq srv[s].asked
      /\ srv[s].pc # "idle" => srv[s].turn > 0
      /\ srv[s].turn + srv[s].queued <= MaxTurn
      /\ srv \in [Sid -> Server]
  BY ServerFields DEF IInv, TypeShape
<1>2. UNCHANGED <<cursor, tab, asked>>
  BY DEF ServerTurn
\* It is enough to look at the record of s and at the event.
<1>3. ASSUME NEW r \in Server, srv' = [srv EXCEPT ![s] = r],
             srv[s].asked \subseteq r.asked,
             r.open \cap srv[s].asked \subseteq srv[s].open,
             r.open \subseteq r.asked,
             srv[s].turn <= r.turn,
             srv[s].turn + srv[s].queued = r.turn + r.queued,
             r.pc # "idle" => r.turn > 0,
             log' = log \/ \E e : Fits(e) /\ log' = Append(log, e)
      PROVE  ServerMoves /\ ServerShape' /\ SumsStay
  <2>1. r.turn + r.queued <= MaxTurn
    BY <1>1, <1>3
  <2>2. SumsStay
    BY <1>1, <1>3 DEF SumsStay
  <2> QED
    BY <1>2, <1>3, <2>1, <2>2, RecordMoves
<1>4. CASE /\ srv[s].pc = "idle" /\ srv[s].queued > 0
           /\ srv' = [srv EXCEPT ![s].pc = "reply", ![s].turn = @ + 1, ![s].queued = @ - 1]
           /\ \/ Emit("message_delta", s, srv'[s].turn)
              \/ UNCHANGED log
  <2>1. PICK r : r = [srv[s] EXCEPT !.pc = "reply", !.turn = @ + 1, !.queued = @ - 1]
    OBVIOUS
  <2>2. srv[s].turn + 1 \in 0..MaxTurn /\ srv[s].queued - 1 \in 0..MaxTurn
    BY <1>1, <1>4
  <2>3. /\ r \in Server /\ r.asked = srv[s].asked /\ r.open = srv[s].open
        /\ r.turn = srv[s].turn + 1 /\ r.queued = srv[s].queued - 1
    BY <1>1, <2>1, <2>2 DEF Server
  <2>4. srv' = [srv EXCEPT ![s] = r]
    BY <1>1, <1>4, <2>1
  <2>5. srv'[s].turn = r.turn
    BY <1>1, <2>4
  <2>6. ASSUME log' # log
        PROVE  \E e : Fits(e) /\ log' = Append(log, e)
    <3>1. PICK e : e = Event("message_delta", s, r.turn) /\ log' = Append(log, e)
      BY <1>4, <2>5, <2>6 DEF Emit
    <3>2. r.turn \in 1..MaxTurn /\ srv[s].turn < r.turn
      BY <1>1, <2>2, <2>3
    <3>3. Fits(e)
      BY <3>1, <3>2, EventIs DEF Fits, TypedEvent, Carries, EventName, Requests
    <3> QED
      BY <3>1, <3>3
  <2>7. /\ srv[s].turn <= r.turn
        /\ srv[s].turn + srv[s].queued = r.turn + r.queued /\ r.turn > 0
    BY <1>1, <2>3
  <2> QED
    BY <1>1, <1>3, <2>3, <2>4, <2>6, <2>7
<1>5. CASE /\ srv[s].pc = "reply"
           /\ Emit("message_complete", s, srv[s].turn)
           /\ srv' = [srv EXCEPT ![s].pc = "tools"]
  <2>1. PICK r : r = [srv[s] EXCEPT !.pc = "tools"]
    OBVIOUS
  <2>2. /\ r \in Server /\ r.asked = srv[s].asked /\ r.open = srv[s].open
        /\ r.turn = srv[s].turn /\ r.queued = srv[s].queued
    BY <1>1, <2>1 DEF Server
  <2>3. srv' = [srv EXCEPT ![s] = r]
    BY <1>1, <1>5, <2>1
  <2>4. PICK e : e = Event("message_complete", s, srv[s].turn) /\ log' = Append(log, e)
    BY <1>5 DEF Emit
  <2>5. srv'[s].turn = srv[s].turn /\ srv[s].turn \in 1..MaxTurn
    BY <1>1, <1>5, <2>2, <2>3
  <2>6. Fits(e)
    BY <2>4, <2>5, EventIs DEF Fits, TypedEvent, Carries, EventName, Requests
  <2>a. /\ srv[s].asked \subseteq r.asked
        /\ r.open \cap srv[s].asked \subseteq srv[s].open
        /\ r.open \subseteq r.asked
        /\ srv[s].turn <= r.turn
        /\ srv[s].turn + srv[s].queued = r.turn + r.queued
        /\ (r.pc # "idle" => r.turn > 0)
    BY <1>1, <1>5, <2>2, <2>5
  <2>b. log' = log \/ \E x : Fits(x) /\ log' = Append(log, x)
    BY <2>4, <2>6
  <2>c. r \in Server
    BY <2>2
  <2> QED
    BY <1>3, <2>3, <2>a, <2>b, <2>c, Zenon
<1>6. ASSUME NEW c \in Ask \ srv[s].asked,
             Emit(IF c \in Call THEN "permission_request" ELSE "ask_user_question", s, c),
             srv' = [srv EXCEPT ![s].asked = @ \cup {c}, ![s].open = @ \cup {c}],
             srv[s].pc = "tools"
      PROVE  ServerMoves /\ ServerShape' /\ SumsStay
  <2>1. PICK r : r = [srv[s] EXCEPT !.asked = @ \cup {c}, !.open = @ \cup {c}]
    OBVIOUS
  <2>2. /\ r \in Server /\ r.asked = srv[s].asked \cup {c} /\ r.open = srv[s].open \cup {c}
        /\ r.turn = srv[s].turn /\ r.queued = srv[s].queued /\ r.pc = srv[s].pc
    <3>1. srv[s].asked \cup {c} \in SUBSET Ask /\ srv[s].open \cup {c} \in SUBSET Ask
      BY <1>1, <1>6
    <3> QED
      BY <1>1, <2>1, <3>1 DEF Server
  <2>3. srv' = [srv EXCEPT ![s] = r]
    BY <1>1, <1>6, <2>1
  <2>4. PICK ev \in Requests : /\ log' = Append(log, Event(ev, s, c))
                               /\ ev = IF c \in Call THEN "permission_request" ELSE "ask_user_question"
    BY <1>6 DEF Emit, Requests
  <2>5. srv'[s].asked = srv[s].asked \cup {c}
    BY <1>1, <2>2, <2>3
  <2>6. Fits(Event(ev, s, c))
    <3>1. PICK e : e = Event(ev, s, c)
      OBVIOUS
    <3>2. e \in EventSet /\ e.ev = ev /\ e.s = s /\ e.x = c
      BY <1>6, <2>4, <3>1, EventIs DEF Requests, EventName
    <3>3. Carries(e)
      BY <1>6, <2>4, <3>2 DEF Carries, Ask
    <3>4. ev \notin {"message_complete", "message_delta"}
      BY <2>4
    <3> QED
      BY <2>5, <3>1, <3>2, <3>3, <3>4 DEF Fits, TypedEvent
  <2>a. /\ srv[s].asked \subseteq r.asked
        /\ r.open \cap srv[s].asked \subseteq srv[s].open
        /\ r.open \subseteq r.asked
        /\ srv[s].turn <= r.turn
        /\ srv[s].turn + srv[s].queued = r.turn + r.queued
        /\ (r.pc # "idle" => r.turn > 0)
    BY <1>1, <1>6, <2>2
  <2>b. log' = log \/ \E x : Fits(x) /\ log' = Append(log, x)
    BY <2>4, <2>6
  <2>c. r \in Server
    BY <2>2
  <2> QED
    BY <1>3, <2>3, <2>a, <2>b, <2>c, Zenon
<1>7. CASE /\ srv[s].pc = "tools" /\ srv[s].open = {}
           /\ \/ Emit("result", s, srv[s].turn)
              \/ Emit("error", s, srv[s].turn)
           /\ srv' = [srv EXCEPT ![s].pc = "idle"]
  <2>1. PICK r : r = [srv[s] EXCEPT !.pc = "idle"]
    OBVIOUS
  <2>2. /\ r \in Server /\ r.asked = srv[s].asked /\ r.open = srv[s].open
        /\ r.turn = srv[s].turn /\ r.queued = srv[s].queued /\ r.pc = "idle"
    BY <1>1, <2>1 DEF Server
  <2>3. srv' = [srv EXCEPT ![s] = r]
    BY <1>1, <1>7, <2>1
  <2>4. PICK ev \in {"result", "error"} : log' = Append(log, Event(ev, s, srv[s].turn))
    BY <1>7 DEF Emit
  <2>5. Fits(Event(ev, s, srv[s].turn))
    <3>1. PICK e : e = Event(ev, s, srv[s].turn)
      OBVIOUS
    <3>2. e \in EventSet /\ e.ev = ev
      BY <1>1, <2>4, <3>1, EventIs DEF EventName
    <3> QED
      BY <2>4, <3>1, <3>2 DEF Fits, TypedEvent, Carries, Requests
  <2>a. /\ srv[s].asked \subseteq r.asked
        /\ r.open \cap srv[s].asked \subseteq srv[s].open
        /\ r.open \subseteq r.asked
        /\ srv[s].turn <= r.turn
        /\ srv[s].turn + srv[s].queued = r.turn + r.queued
        /\ (r.pc # "idle" => r.turn > 0)
    BY <1>1, <2>2
  <2>b. log' = log \/ \E x : Fits(x) /\ log' = Append(log, x)
    BY <2>4, <2>5
  <2>c. r \in Server
    BY <2>2
  <2> QED
    BY <1>3, <2>3, <2>a, <2>b, <2>c, Zenon
<1> QED
  BY <1>4, <1>5, <1>6, <1>7 DEF ServerTurn

-----------------------------------------------------------------------------
(* ------------------------- the tab moves ------------------------- *)

\* The slot of s becomes b: nothing is taken back, and a card goes only when
\* its request is answered.
Lays(s, b) ==
  LET a == getOrInit(s)
  IN /\ tab' = [tab EXCEPT ![s] = b]
     /\ b \in SessionState
     /\ Grows(a.messages, b.messages)
     /\ \A i \in 1..MaxTurn : HasFinal(a.messages, i) => HasFinal(b.messages, i)
     /\ b.perm = a.perm \/ (b.perm = None /\ a.perm \notin srv[s].open)
     /\ b.ques = a.ques \/ (b.ques = None /\ a.ques \notin srv[s].open)

\* The slot an action starts from.
LEMMA SlotIs ==
  ASSUME IInv, NEW s \in Sid
  PROVE  /\ getOrInit(s) \in SessionState
         /\ Single(getOrInit(s).messages)
         /\ tab[s] # None => getOrInit(s) = tab[s] /\ tab[s] \in SessionState
         /\ {getOrInit(s).perm, getOrInit(s).ques} \subseteq srv[s].asked \cup {None}
<1>1. CASE tab[s] = None
  <2>1. Single(<<>>)
    BY DEF Single
  <2> QED
    BY <1>1, <2>1, InitialSlot DEF getOrInit
<1>2. CASE tab[s] # None
  <2>1. getOrInit(s) = tab[s] /\ tab[s] \in SessionState
    BY <1>2 DEF getOrInit, IInv, TypeShape
  <2> QED
    BY <1>2, <2>1 DEF IInv, FinalShape, CardShape
<1> QED
  BY <1>1, <1>2

\* Setting the slot of one session.
LEMMA SlotSet ==
  ASSUME IInv, NEW s \in Sid, NEW b \in SessionState, tab' = [tab EXCEPT ![s] = b]
  PROVE  /\ tab' \in [Sid -> SessionState \cup {None}]
         /\ tab'[s] = b /\ b # None
         /\ \A t \in Sid : t # s => tab'[t] = tab[t]
  BY NoneAssumption DEF IInv, TypeShape

TabStays == \A s \in Sid : tab[s] # None => tab'[s] # None

\* The step part of NothingDisappears and of OnlyAnsweredCardsClear.
Kindly ==
  \A s \in Sid : tab[s] # None /\ tab'[s] # None =>
    /\ Shown(tab[s]) \subseteq Shown(tab'[s])
    /\ tab[s].perm # None /\ tab'[s].perm = None => tab[s].perm \notin srv[s].open
    /\ tab[s].ques # None /\ tab'[s].ques = None => tab[s].ques \notin srv[s].open

\* What is shown depends on the messages.
LEMMA ShownIs == \A slot : Shown(slot) = Keys(slot.messages)
  BY DEF Shown, Keys

\* A step of the tab that takes nothing back keeps the invariant of the tab.
LEMMA LaysKeeps ==
  ASSUME IInv, NEW s \in Sid, NEW b, Lays(s, b), UNCHANGED <<srv, log, cursor>>
  PROVE  /\ tab' \in [Sid -> SessionState \cup {None}]
         /\ CardShape' /\ SeenShape' /\ NewestShape' /\ FinalShape'
         /\ TabStays /\ Kindly
<1> DEFINE a == getOrInit(s)
<1>1. /\ a \in SessionState /\ Single(a.messages)
      /\ tab[s] # None => a = tab[s]
      /\ {a.perm, a.ques} \subseteq srv[s].asked \cup {None}
  BY SlotIs
<1>2. /\ tab' = [tab EXCEPT ![s] = b] /\ b \in SessionState
      /\ Grows(a.messages, b.messages)
      /\ \A i \in 1..MaxTurn : HasFinal(a.messages, i) => HasFinal(b.messages, i)
      /\ b.perm = a.perm \/ (b.perm = None /\ a.perm \notin srv[s].open)
      /\ b.ques = a.ques \/ (b.ques = None /\ a.ques \notin srv[s].open)
  BY DEF Lays
<1> HIDE DEF a
<1>3. /\ tab' \in [Sid -> SessionState \cup {None}]
      /\ tab'[s] = b /\ b # None
      /\ \A t \in Sid : t # s => tab'[t] = tab[t]
  BY <1>2, SlotSet
<1>4. TabStays
  BY <1>3 DEF TabStays
<1>5. CardShape'
  BY <1>1, <1>2, <1>3 DEF CardShape, IInv
<1>6. cursor \in Nat /\ \A k \in 1..cursor : k \in DOMAIN log /\ log[k].s \in Sid
                                             /\ log[k] \in TypedEvent
  BY DEF IInv, TypeShape, TypedEvent, EventSet
<1>7. SeenShape'
  BY <1>3, <1>4, <1>6 DEF SeenShape, IInv, TabStays
<1>8. NewestShape'
  <2>1. SUFFICES ASSUME NEW t \in Sid, NEW k \in 1..cursor, log[k].x \in srv[t].open
                 PROVE  /\ Newest(k, t, "permission_request") => tab'[t].perm = log[k].x
                        /\ Newest(k, t, "ask_user_question") => tab'[t].ques = log[k].x
    BY DEF NewestShape, Newest
  <2>2. CASE t # s
    BY <2>1, <2>2, <1>3 DEF IInv, NewestShape
  <2>3. CASE t = s
    <3>1. Newest(k, s, "permission_request") => a.perm = log[k].x
      BY <2>1, <2>3, <1>1, <1>6 DEF IInv, NewestShape, SeenShape, Newest
    <3>2. Newest(k, s, "ask_user_question") => a.ques = log[k].x
      BY <2>1, <2>3, <1>1, <1>6 DEF IInv, NewestShape, SeenShape, Newest
    <3> QED
      BY <2>1, <2>3, <3>1, <3>2, <1>2, <1>3
  <2> QED
    BY <2>2, <2>3
<1>9. FinalShape'
  <2>1. \A t \in Sid : tab'[t] # None => Single(tab'[t].messages)
    BY <1>1, <1>2, <1>3 DEF IInv, FinalShape, Grows
  <2>2. ASSUME NEW k \in 1..cursor, log[k].ev = "message_complete"
        PROVE  HasFinal(tab'[log[k].s].messages, log[k].x)
    <3>1. /\ HasFinal(tab[log[k].s].messages, log[k].x) /\ tab[log[k].s] # None
          /\ log[k].x \in 1..MaxTurn
      BY <2>2, <1>6 DEF IInv, FinalShape, SeenShape, TypedEvent, Carries
    <3> QED
      BY <3>1, <1>1, <1>2, <1>3, <1>6, <2>2
  <2> QED
    BY <2>1, <2>2 DEF FinalShape
<1>10. Kindly
  <2>1. SUFFICES ASSUME NEW t \in Sid, tab[t] # None, tab'[t] # None
                 PROVE  /\ Shown(tab[t]) \subseteq Shown(tab'[t])
                        /\ tab[t].perm # None /\ tab'[t].perm = None => tab[t].perm \notin srv[t].open
                        /\ tab[t].ques # None /\ tab'[t].ques = None => tab[t].ques \notin srv[t].open
    BY DEF Kindly
  <2>2. CASE t # s
    BY <1>3, <2>2
  <2>3. CASE t = s
    BY <1>1, <1>2, <1>3, <2>1, <2>3, ShownIs DEF Grows
  <2> QED
    BY <2>2, <2>3
<1> QED
  BY <1>3, <1>4, <1>5, <1>7, <1>8, <1>9, <1>10

\* A slot that keeps its cards takes nothing back.
LEMMA JoinsLays ==
  ASSUME IInv, NEW s \in Sid, NEW b, Joins(getOrInit(s), b), Set(s, b)
  PROVE  Lays(s, b)
  BY DEF Joins, Lays, Set

\* The status and the notice are not what a card or a message is.
LEMMA WithNotice ==
  ASSUME NEW a \in SessionState, NEW n \in BOOLEAN
  PROVE  Same(a, [a EXCEPT !.notice = n]) /\ [a EXCEPT !.notice = n].messages = a.messages
<1>1. PICK M : M = Seq(Message)
  OBVIOUS
<1> QED
  BY <1>1 DEF SessionState, Same

\* The message shown before it is sent.
LEMMA SendLays ==
  ASSUME IInv, NEW s \in Sid, NEW t \in Text, Send(s, t)
  PROVE  \E b : Lays(s, b)
<1> DEFINE a == getOrInit(s)
<1>1. a \in SessionState
  BY SlotIs
<1>2. PICK m \in Message : m = UserMsg(t) /\ m.kind # "assistant"
  BY MessageForm
<1>3. PICK c \in SessionState :
        /\ c = AddMessage(a, m) /\ Grows(a.messages, c.messages)
        /\ Elements(c.messages) = Elements(a.messages) \cup {m}
        /\ c.perm = a.perm /\ c.ques = a.ques
  BY <1>1, <1>2, AddOther
<1>4. PICK b \in SessionState :
        /\ b = [c EXCEPT !.status = "streaming"] /\ b.messages = c.messages
        /\ b.perm = c.perm /\ b.ques = c.ques
  BY WithStatus DEF Same, Status
<1>5. Set(s, b)
  BY <1>2, <1>3, <1>4 DEF Send
<1>6. \A i \in 1..MaxTurn : HasFinal(a.messages, i) => HasFinal(c.messages, i)
  BY <1>2, <1>3, OtherKeeps
<1>7. Joins(a, b)
  BY <1>3, <1>4, <1>6 DEF Joins
<1> QED
  BY <1>5, <1>7, JoinsLays

\* Clearing a notice.
LEMMA ClearLays ==
  ASSUME IInv, NEW s \in Sid, clearNotice(s)
  PROVE  \E b : Lays(s, b)
<1>1. tab[s] \in SessionState /\ getOrInit(s) = tab[s]
  BY SlotIs DEF clearNotice
<1>2. PICK b \in SessionState :
        /\ b = [tab[s] EXCEPT !.notice = FALSE] /\ b.messages = tab[s].messages
        /\ b.perm = tab[s].perm /\ b.ques = tab[s].ques
  BY <1>1, WithNotice DEF Same
<1>3. Set(s, b)
  BY <1>2 DEF clearNotice
<1>4. Joins(tab[s], b)
  BY <1>1, <1>2, SlotFields, GrowsItself DEF Joins
<1> QED
  BY <1>1, <1>3, <1>4, JoinsLays

\* A history that arrives.
LEMMA HistoryLays ==
  ASSUME IInv, NEW p \in posts, p.kind = "history", Return(p)
  PROVE  p.s \in Sid /\ \E b : Lays(p.s, b)
<1>1. p.s \in Sid /\ p.past \in Seq(PastEvent)
  BY DEF IInv, TypeShape, PostSet
<1>2. Set(p.s, HistoryLoaded(getOrInit(p.s), p.past))
  BY DEF Return
<1>3. Joins(getOrInit(p.s), HistoryLoaded(getOrInit(p.s), p.past))
  BY <1>1, SlotIs, HistoryJoins
<1> QED
  BY <1>1, <1>2, <1>3, JoinsLays

\* The answer to a reply, which clears no card but that of its request.
LEMMA ReplyLays ==
  ASSUME IInv, NEW p \in posts, p.kind = "reply", Return(p)
  PROVE  p.s \in Sid /\ \E b : Lays(p.s, b)
<1>1. /\ p.s \in Sid /\ tab[p.s] # None /\ p.st # "sent"
      /\ p.x[1] \in Ask /\ p.x[1] \notin srv[p.s].open
  BY DEF IInv, TypeShape, PostSet, ReplyShape, Return
<1> DEFINE s == p.s
           c == p.x[1]
           a == tab[s]
<1>2. a \in SessionState /\ getOrInit(s) = a
  BY <1>1, SlotIs
<1>3. PICK d \in SessionState :
        /\ d = (IF p.st = "conflict" THEN setNotice(a) ELSE a)
        /\ d.messages = a.messages /\ d.perm = a.perm /\ d.ques = a.ques
  <2>1. Same(a, setNotice(a)) /\ setNotice(a).messages = a.messages
    BY <1>2, WithNotice DEF setNotice
  <2> QED
    BY <1>2, <2>1 DEF Same
<1>4. PICK b : Set(s, b) /\ b = (IF c \in Call THEN permissionResolved(d, c)
                                              ELSE questionResolved(d, c))
  BY <1>3 DEF Return
<1>5. /\ b \in SessionState /\ b.messages = d.messages
      /\ b.perm = d.perm \/ (b.perm = None /\ d.perm = c)
      /\ b.ques = d.ques \/ (b.ques = None /\ d.ques = c)
  <2>1. PICK M : M = Seq(Message)
    OBVIOUS
  <2> QED
    BY <1>4, <2>1 DEF permissionResolved, questionResolved, SessionState, Status
<1>6. Grows(a.messages, b.messages)
  BY <1>2, <1>3, <1>5, SlotFields, GrowsItself
<1>7. b.messages = a.messages /\ d.perm = a.perm /\ d.ques = a.ques
  BY <1>3, <1>5, Zenon
<1>8. /\ b.perm = a.perm \/ (b.perm = None /\ a.perm \notin srv[s].open)
      /\ b.ques = a.ques \/ (b.ques = None /\ a.ques \notin srv[s].open)
  BY <1>1, <1>5, <1>7, Zenon
<1>9. \A i \in 1..MaxTurn : HasFinal(a.messages, i) => HasFinal(b.messages, i)
  BY <1>7, Zenon
<1>10. tab' = [tab EXCEPT ![s] = b]
  BY <1>4, Zenon DEF Set
<1>11. Lays(s, b)
  BY <1>2, <1>5, <1>6, <1>8, <1>9, <1>10, Zenon DEF Lays
<1> QED
  BY <1>1, <1>11, Zenon

\* The next event of the stream.
LEMMA DeliverKeeps ==
  ASSUME IInv, Deliver
  PROVE  /\ tab' \in [Sid -> SessionState \cup {None}] /\ cursor' \in 0..Len(log')
         /\ CardShape' /\ SeenShape' /\ NewestShape' /\ FinalShape'
         /\ TabStays /\ Kindly
<1>1. PICK n : n = cursor + 1
  OBVIOUS
<1>2. /\ cursor \in Nat /\ Len(log) \in Nat /\ cursor < Len(log) /\ cursor' = n /\ n \in Nat
      /\ log' = log /\ srv' = srv /\ n \in DOMAIN log
      /\ \A k \in 1..n : k = n \/ k \in 1..cursor
      /\ \A k \in 1..cursor : k \in 1..n /\ k # n /\ k < n
      /\ DOMAIN log = 1..Len(log)
  BY <1>1 DEF Deliver, IInv, TypeShape
<1>3. \A k \in DOMAIN log : log[k] \in TypedEvent /\ log[k].s \in Sid
  BY DEF IInv, TypeShape, TypedEvent, EventSet
<1>4. PICK e \in TypedEvent : e = log[n] /\ e.s \in Sid
  BY <1>2, <1>3
<1> DEFINE s == e.s
           a == getOrInit(s)
           b == reduceSession(a, e)
<1>5. tab' = [tab EXCEPT ![s] = b]
  BY <1>1, <1>4 DEF Deliver, Set
<1>6. /\ a \in SessionState /\ Single(a.messages)
      /\ tab[s] # None => a = tab[s]
      /\ {a.perm, a.ques} \subseteq srv[s].asked \cup {None}
  BY <1>4, SlotIs
<1>7. Reduces(a, e, b)
  BY <1>6, ReduceStep
<1> HIDE DEF a, b
<1>8. /\ b \in SessionState /\ Grows(a.messages, b.messages)
      /\ \A i \in 1..MaxTurn :
           HasFinal(a.messages, i) /\ ~(e.ev = "message_delta" /\ e.x = i) => HasFinal(b.messages, i)
      /\ e.ev = "message_complete" => HasFinal(b.messages, e.x)
      /\ b.perm = IF e.ev = "permission_request" THEN e.x ELSE a.perm
      /\ b.ques = IF e.ev = "ask_user_question" THEN e.x ELSE a.ques
  BY <1>7 DEF Reduces
<1>9. /\ tab' \in [Sid -> SessionState \cup {None}]
      /\ tab'[s] = b /\ b # None
      /\ \A t \in Sid : t # s => tab'[t] = tab[t]
  BY <1>4, <1>5, <1>8, SlotSet
<1>10. TabStays
  BY <1>9 DEF TabStays
<1>11. cursor' \in 0..Len(log')
  BY <1>2
<1>12. CardShape'
  <2>1. e.ev \in Requests => e.x \in srv[s].asked
    BY <1>2, <1>4 DEF IInv, ServerShape
  <2>2. {b.perm, b.ques} \subseteq srv[s].asked \cup {None}
    BY <1>6, <1>8, <2>1 DEF Requests
  <2> QED
    BY <1>2, <1>9, <2>2 DEF CardShape, IInv
<1>13. SeenShape'
  BY <1>2, <1>3, <1>4, <1>9, <1>10 DEF SeenShape, IInv, TabStays
<1>14. NewestShape'
  <2>1. SUFFICES ASSUME NEW t \in Sid, NEW k \in 1..n, log[k].x \in srv[t].open
                 PROVE  /\ Newest(k, t, "permission_request")' => tab'[t].perm = log[k].x
                        /\ Newest(k, t, "ask_user_question")' => tab'[t].ques = log[k].x
    BY <1>2 DEF NewestShape
  <2>2. ASSUME k # n, NEW ev, Newest(k, t, ev)'
        PROVE  Newest(k, t, ev) /\ (e.s = t => e.ev # ev)
    <3>1. k \in 1..cursor
      BY <1>2, <2>2
    <3>2. \A l \in (k + 1)..cursor : l \in (k + 1)..n
      BY <1>2
    <3>3. n \in (k + 1)..n
      BY <1>2, <3>1
    <3>4. /\ log[k].s = t /\ log[k].ev = ev
          /\ \A l \in (k + 1)..n : log[l].s = t => log[l].ev # ev
      BY <1>2, <2>2 DEF Newest
    <3> QED
      BY <1>4, <3>1, <3>2, <3>3, <3>4 DEF Newest
  <2>3. ASSUME k # n, NEW ev, Newest(k, t, ev)
        PROVE  k \in 1..cursor /\ tab[t] # None /\ (t = s => a = tab[t])
    BY <1>2, <1>3, <1>6, <2>3 DEF Newest, IInv, SeenShape
  <2>4. CASE k # n
    <3>1. Newest(k, t, "permission_request")' => tab'[t].perm = log[k].x
      <4>1. SUFFICES ASSUME Newest(k, t, "permission_request")'
                     PROVE  tab'[t].perm = log[k].x
        OBVIOUS
      <4>2. /\ Newest(k, t, "permission_request") /\ (e.s = t => e.ev # "permission_request")
            /\ k \in 1..cursor /\ tab[t] # None /\ (t = s => a = tab[t])
        BY <2>2, <2>3, <2>4, <4>1
      <4>3. tab[t].perm = log[k].x
        BY <2>1, <4>2 DEF IInv, NewestShape
      <4> QED
        BY <1>8, <1>9, <4>2, <4>3
    <3>2. Newest(k, t, "ask_user_question")' => tab'[t].ques = log[k].x
      <4>1. SUFFICES ASSUME Newest(k, t, "ask_user_question")'
                     PROVE  tab'[t].ques = log[k].x
        OBVIOUS
      <4>2. /\ Newest(k, t, "ask_user_question") /\ (e.s = t => e.ev # "ask_user_question")
            /\ k \in 1..cursor /\ tab[t] # None /\ (t = s => a = tab[t])
        BY <2>2, <2>3, <2>4, <4>1
      <4>3. tab[t].ques = log[k].x
        BY <2>1, <4>2 DEF IInv, NewestShape
      <4> QED
        BY <1>8, <1>9, <4>2, <4>3
    <3> QED
      BY <3>1, <3>2
  <2>5. CASE k = n
    BY <1>2, <1>4, <1>8, <1>9, <2>5 DEF Newest
  <2> QED
    BY <2>4, <2>5
<1>15. FinalShape'
  <2>1. \A t \in Sid : tab'[t] # None => Single(tab'[t].messages)
    BY <1>6, <1>8, <1>9 DEF IInv, FinalShape, Grows
  <2>2. ASSUME NEW k \in 1..n, log[k].ev = "message_complete"
        PROVE  HasFinal(tab'[log[k].s].messages, log[k].x)
    <3>1. CASE k = n
      BY <1>4, <1>8, <1>9, <2>2, <3>1
    <3>2. CASE k # n
      <4>1. k \in 1..cursor /\ k < n /\ k \in DOMAIN log
        BY <1>2, <3>2
      <4>2. /\ HasFinal(tab[log[k].s].messages, log[k].x) /\ tab[log[k].s] # None
            /\ log[k].x \in 1..MaxTurn /\ log[k].s \in Sid
        BY <2>2, <1>3, <4>1 DEF IInv, FinalShape, SeenShape, TypedEvent, Carries
      <4>3. e.s = log[k].s /\ e.ev = "message_delta" => e.x # log[k].x
        <5>1. e.s = log[k].s /\ e.ev = "message_delta" => log[k].x < e.x
          BY <1>2, <1>4, <2>2, <4>1 DEF IInv, ServerShape
        <5> QED
          BY <5>1, <4>2
      <4>4. CASE log[k].s = s
        BY <1>6, <1>8, <1>9, <4>2, <4>3, <4>4
      <4>5. CASE log[k].s # s
        BY <1>9, <4>2, <4>5
      <4> QED
        BY <4>4, <4>5
    <3> QED
      BY <3>1, <3>2
  <2> QED
    BY <1>2, <2>1, <2>2 DEF FinalShape
<1>16. Kindly
  <2>1. SUFFICES ASSUME NEW t \in Sid, tab[t] # None, tab'[t] # None
                 PROVE  /\ Shown(tab[t]) \subseteq Shown(tab'[t])
                        /\ tab[t].perm # None /\ tab'[t].perm = None => tab[t].perm \notin srv[t].open
                        /\ tab[t].ques # None /\ tab'[t].ques = None => tab[t].ques \notin srv[t].open
    BY DEF Kindly
  <2>2. CASE t # s
    BY <1>9, <2>2
  <2>3. CASE t = s
    <3>1. e.ev = "permission_request" => e.x # None
      BY NoneAssumption DEF TypedEvent, Carries, Ask
    <3>2. e.ev = "ask_user_question" => e.x # None
      BY NoneAssumption DEF TypedEvent, Carries, Ask
    <3> QED
      BY <1>6, <1>8, <1>9, <2>1, <2>3, <3>1, <3>2, ShownIs DEF Grows
  <2> QED
    BY <2>2, <2>3
<1> QED
  BY <1>9, <1>10, <1>11, <1>12, <1>13, <1>14, <1>15, <1>16

-----------------------------------------------------------------------------
(* ------------------------- requests in flight ------------------------- *)

\* Nothing is asked, or opened, again.
SrvQuiet ==
  \A s \in Sid : srv[s].asked \subseteq srv'[s].asked
                 /\ srv'[s].open \cap srv[s].asked \subseteq srv[s].open

PostsOK == posts' \subseteq PostSet /\ SendShape' /\ ReplyShape'

\* Types of the requests in flight.
LEMMA PostIs ==
  ASSUME IInv, NEW p \in posts
  PROVE  p \in PostSet /\ p.s \in Sid
  BY DEF IInv, TypeShape, PostSet

\* A request of this tab that was there stays what it is.
LEMMA OldPost ==
  ASSUME IInv, SrvQuiet, TabStays, NEW p \in posts
  PROVE  /\ p \in PostSet
         /\ p.kind = "reply" =>
              /\ tab'[p.s] # None
              /\ p.x \in Ask \X (1..MaxPost)
              /\ p.x[1] \in srv'[p.s].asked
              /\ p.st # "sent" => p.x[1] \notin srv'[p.s].open
         /\ p.kind = "send" => p.x \in Text /\ \A q \in posts : q.kind = "send" => q = p
  BY PostIs DEF IInv, SrvQuiet, TabStays, SendShape, ReplyShape

\* Requests may disappear.
LEMMA PostsStay ==
  ASSUME IInv, SrvQuiet, TabStays, SumsStay, posts' \subseteq posts
  PROVE  PostsOK
<1>1. \A p \in posts' : p \in PostSet
  BY PostIs
<1>2. ReplyShape'
  BY OldPost DEF ReplyShape
<1>3. SendShape'
  BY OldPost, PostIs DEF SendShape, SumsStay, IInv
<1> QED
  BY <1>1, <1>2, <1>3 DEF PostsOK

\* A request that has come back from the server.
LEMMA PostBack ==
  ASSUME IInv, SrvQuiet, TabStays, NEW p \in posts, p.kind # "send" => SumsStay,
         NEW q \in PostSet, q.kind = p.kind, q.s = p.s, q.x = p.x, q.st # "sent",
         posts' = (posts \ {p}) \cup {q},
         p.kind = "reply" => p.x[1] \notin srv'[p.s].open
  PROVE  PostsOK
<1>1. \A r \in posts' : r \in PostSet
  BY PostIs
<1>2. ReplyShape'
  <2>1. SUFFICES ASSUME NEW r \in posts', r.kind = "reply"
                 PROVE  /\ tab'[r.s] # None
                        /\ r.x \in Ask \X (1..MaxPost)
                        /\ r.x[1] \in srv'[r.s].asked
                        /\ r.st # "sent" => r.x[1] \notin srv'[r.s].open
    BY DEF ReplyShape
  <2>2. CASE r = q
    BY <2>1, <2>2, OldPost
  <2>3. CASE r \in posts
    BY <2>1, <2>3, OldPost
  <2> QED
    BY <2>1, <2>2, <2>3
<1>3. SendShape'
  <2>1. SUFFICES ASSUME NEW r \in posts', r.kind = "send"
                 PROVE  /\ r.x \in Text
                        /\ r.st = "sent" => srv'[r.s].turn + srv'[r.s].queued < MaxTurn
                        /\ \A z \in posts' : z.kind = "send" => z = r
    BY DEF SendShape
  <2>2. CASE p.kind = "send"
    <3>1. r = q /\ \A z \in posts' : z.kind = "send" => z = q
      BY <2>1, <2>2, OldPost
    <3> QED
      BY <2>2, <3>1, OldPost
  <2>3. CASE p.kind # "send"
    <3>1. r \in posts /\ \A z \in posts' : z.kind = "send" => z \in posts
      BY <2>1, <2>3
    <3>2. r.st = "sent" => srv'[r.s].turn + srv'[r.s].queued < MaxTurn
      BY <2>1, <2>3, <3>1, PostIs DEF IInv, SendShape, SumsStay
    <3> QED
      BY <2>1, <3>1, <3>2, OldPost
  <2> QED
    BY <2>2, <2>3
<1> QED
  BY <1>1, <1>2, <1>3 DEF PostsOK

\* A request the tab makes.
LEMMA PostNew ==
  ASSUME IInv, srv' = srv, TabStays, NEW q \in PostSet, q.st = "sent",
         posts' = posts \cup {q},
         q.kind = "reply" => /\ tab[q.s] # None /\ q.x \in Ask \X (1..MaxPost)
                             /\ q.x[1] \in srv[q.s].asked,
         q.kind = "send" => /\ q.x \in Text /\ srv[q.s].turn + srv[q.s].queued < MaxTurn
                            /\ \A p \in posts : p.kind # "send"
  PROVE  PostsOK
<1>1. SrvQuiet /\ q.s \in Sid
  BY DEF SrvQuiet, PostSet
<1>2. \A r \in posts' : r \in PostSet
  BY PostIs
<1>3. ReplyShape'
  BY <1>1, OldPost DEF ReplyShape, TabStays
<1>4. SendShape'
  BY <1>1, PostIs DEF IInv, SendShape
<1> QED
  BY <1>2, <1>3, <1>4 DEF PostsOK

(* ------------------------- one step ------------------------- *)

\* The invariant after a step of the server.
LEMMA FromServer ==
  ASSUME IInv, ServerMoves, ServerShape', PostsOK, losses' = losses
  PROVE  IInv' /\ Kindly
<1>1. TypeShape'
  BY DEF IInv, TypeShape, ServerMoves, PostsOK
<1>2. Kindly
  BY DEF Kindly, ServerMoves
<1> QED
  BY <1>1, <1>2, SeenStays DEF IInv, PostsOK

\* A step of the server asks nothing again and leaves the tab alone.
LEMMA ServerQuiet ==
  ASSUME ServerMoves
  PROVE  SrvQuiet /\ TabStays
  BY DEF ServerMoves, SrvQuiet, TabStays

\* The invariant after a step of the tab.
LEMMA FromTab ==
  ASSUME IInv, UNCHANGED <<srv, log>>,
         tab' \in [Sid -> SessionState \cup {None}], cursor' \in 0..Len(log'),
         CardShape', SeenShape', NewestShape', FinalShape', PostsOK,
         asked' \subseteq Sid, losses' \in 0..MaxLoss
  PROVE  IInv'
<1>1. TypeShape'
  BY DEF IInv, TypeShape, PostsOK
<1>2. ServerShape'
  BY DEF IInv, ServerShape
<1> QED
  BY <1>1, <1>2 DEF IInv, PostsOK

\* A step that leaves the slots as they are.
LEMMA TabSame ==
  ASSUME IInv, UNCHANGED <<srv, log, cursor, tab>>
  PROVE  /\ tab' \in [Sid -> SessionState \cup {None}] /\ cursor' \in 0..Len(log')
         /\ CardShape' /\ SeenShape' /\ NewestShape' /\ FinalShape'
         /\ TabStays /\ Kindly /\ SrvQuiet /\ SumsStay
<1>1. tab' \in [Sid -> SessionState \cup {None}] /\ cursor' \in 0..Len(log')
  BY DEF IInv, TypeShape
<1>2. CardShape' /\ SeenShape' /\ FinalShape'
  BY DEF IInv, CardShape, SeenShape, FinalShape
<1>3. NewestShape'
  BY DEF IInv, NewestShape, Newest
<1> QED
  BY <1>1, <1>2, <1>3 DEF TabStays, Kindly, SrvQuiet, SumsStay

\* Nothing moves on the server.
LEMMA SrvSame ==
  ASSUME srv' = srv
  PROVE  SrvQuiet /\ SumsStay
  BY DEF SrvQuiet, SumsStay

\* Types that only some steps need.
LEMMA Bounds ==
  ASSUME IInv
  PROVE  /\ asked \subseteq Sid /\ losses \in 0..MaxLoss /\ MaxLoss \in Nat
         /\ cursor \in 0..Len(log)
  BY MuxBoundsAssumption DEF IInv, TypeShape

\* Steps of the server, and of another tab.
LEMMA ServerSideStep ==
  ASSUME IInv, ServerSide
  PROVE  IInv' /\ Kindly
<1>1. ASSUME NEW s \in Sid, ServerTurn(s)
      PROVE  IInv' /\ Kindly
  <2>1. ServerMoves /\ ServerShape' /\ SumsStay
    BY <1>1, TurnMoves
  <2>2. PostsOK /\ losses' = losses
    BY <1>1, <2>1, ServerQuiet, PostsStay DEF ServerTurn
  <2> QED
    BY <2>1, <2>2, FromServer
<1>2. ASSUME NEW s \in Sid, NEW c \in Ask, OtherTabReplies(s, c)
      PROVE  IInv' /\ Kindly
  <2>1. ServerMoves /\ ServerShape' /\ SumsStay
    BY <1>2, SettleMoves DEF OtherTabReplies
  <2>2. PostsOK /\ losses' = losses
    BY <1>2, <2>1, ServerQuiet, PostsStay DEF OtherTabReplies
  <2> QED
    BY <2>1, <2>2, FromServer
<1> QED
  BY <1>1, <1>2 DEF ServerSide

\* The user sends a message.
LEMMA SendStep ==
  ASSUME IInv, NEW s \in Sid, NEW t \in Text, Send(s, t)
  PROVE  IInv' /\ Kindly
<1>1. UNCHANGED <<srv, log, cursor, asked, losses>>
  BY DEF Send
<1>2. PICK b : Lays(s, b)
  BY SendLays
<1>3. /\ tab' \in [Sid -> SessionState \cup {None}]
      /\ CardShape' /\ SeenShape' /\ NewestShape' /\ FinalShape'
      /\ TabStays /\ Kindly
  BY <1>1, <1>2, LaysKeeps
<1>4. PICK q : q = Post("send", s, t) /\ posts' = posts \cup {q}
  BY DEF Send, Issue
<1>5. q \in PostSet /\ q.st = "sent" /\ q.kind = "send" /\ q.s = s /\ q.x = t
  BY <1>4 DEF Post, PostSet
<1>6. srv[s].turn + srv[s].queued < MaxTurn /\ \A p \in posts : p.kind # "send"
  BY DEF Send
<1>7. PostsOK
  BY <1>1, <1>3, <1>4, <1>5, <1>6, PostNew
<1> QED
  BY <1>1, <1>3, <1>7, Bounds, FromTab

\* The user answers a card.
LEMMA ClickStep ==
  ASSUME IInv, NEW s \in Sid, NEW c \in Ask, Click(s, c)
  PROVE  IInv' /\ Kindly
<1>1. UNCHANGED <<srv, log, cursor, tab, asked, losses>>
  BY DEF Click
<1>2. PICK n \in 1..MaxPost : posts' = posts \cup {Post("reply", s, <<c, n>>)}
  BY DEF Click, Issue
<1>3. PICK q \in PostSet : /\ q = Post("reply", s, <<c, n>>) /\ q.st = "sent"
                           /\ q.kind = "reply" /\ q.s = s /\ q.x = <<c, n>>
  <2>1. PICK q : q = Post("reply", s, <<c, n>>)
    OBVIOUS
  <2>2. q \in PostSet /\ q.st = "sent" /\ q.kind = "reply" /\ q.s = s /\ q.x = <<c, n>>
    BY <1>2, <2>1 DEF Post, PostSet
  <2> QED
    BY <2>1, <2>2
<1>4. tab[s] # None /\ c \in {tab[s].perm, tab[s].ques} /\ c # None
  BY DEF Click
<1>5. c \in srv[s].asked
  BY <1>4 DEF IInv, CardShape
<1>6. PostsOK
  <2>1. TabStays
    BY <1>1, TabSame
  <2>2. q.x \in Ask \X (1..MaxPost) /\ q.x[1] = c
    BY <1>2, <1>3
  <2> QED
    BY <1>1, <1>2, <1>3, <1>4, <1>5, <2>1, <2>2, PostNew
<1> QED
  BY <1>1, <1>6, TabSame, Bounds, FromTab

\* The tab asks for a history.
LEMMA LoadStep ==
  ASSUME IInv, NEW s \in Sid, loadHistory(s)
  PROVE  IInv' /\ Kindly
<1>1. UNCHANGED <<srv, log, cursor, tab, losses>> /\ asked' = asked \cup {s}
  BY DEF loadHistory
<1>2. PICK q : q = Post("history", s, None) /\ posts' = posts \cup {q}
  BY DEF loadHistory, Issue
<1>3. q \in PostSet /\ q.st = "sent" /\ q.kind = "history"
  BY <1>2 DEF Post, PostSet
<1>4. PostsOK
  <2>1. TabStays
    BY <1>1, TabSame
  <2> QED
    BY <1>1, <1>2, <1>3, <2>1, PostNew
<1> QED
  BY <1>1, <1>4, TabSame, Bounds, FromTab

\* The user clears a notice.
LEMMA ClearStep ==
  ASSUME IInv, NEW s \in Sid, clearNotice(s)
  PROVE  IInv' /\ Kindly
<1>1. UNCHANGED <<srv, log, cursor, posts, asked, losses>>
  BY DEF clearNotice
<1>2. PICK b : Lays(s, b)
  BY ClearLays
<1>3. /\ tab' \in [Sid -> SessionState \cup {None}]
      /\ CardShape' /\ SeenShape' /\ NewestShape' /\ FinalShape'
      /\ TabStays /\ Kindly
  BY <1>1, <1>2, LaysKeeps
<1>4. PostsOK
  BY <1>1, <1>3, SrvSame, PostsStay
<1> QED
  BY <1>1, <1>3, <1>4, Bounds, FromTab

\* The tab reduces an event.
LEMMA DeliverStep ==
  ASSUME IInv, Deliver
  PROVE  IInv' /\ Kindly
<1>1. UNCHANGED <<srv, log, posts, asked, losses>>
  BY DEF Deliver
<1>2. /\ tab' \in [Sid -> SessionState \cup {None}] /\ cursor' \in 0..Len(log')
      /\ CardShape' /\ SeenShape' /\ NewestShape' /\ FinalShape'
      /\ TabStays /\ Kindly
  BY DeliverKeeps
<1>3. PostsOK
  BY <1>1, <1>2, SrvSame, PostsStay
<1> QED
  BY <1>1, <1>2, <1>3, Bounds, FromTab

\* The network loses a request.
LEMMA LoseStep ==
  ASSUME IInv, NEW p \in posts, Lose(p)
  PROVE  IInv' /\ Kindly
<1>1. UNCHANGED <<srv, log, cursor, tab, asked>> /\ posts' = posts \ {p}
  BY DEF Lose
<1>2. losses' \in 0..MaxLoss
  BY Bounds DEF Lose
<1>3. PostsOK
  BY <1>1, TabSame, PostsStay
<1> QED
  BY <1>1, <1>2, <1>3, TabSame, Bounds, FromTab

\* A request comes back.
LEMMA ReturnStep ==
  ASSUME IInv, NEW p \in posts, Return(p)
  PROVE  IInv' /\ Kindly
<1>1. UNCHANGED <<srv, log, cursor, asked, losses>> /\ posts' = posts \ {p}
  BY DEF Return
<1>2. p.kind \in {"send", "reply", "history"}
  BY PostIs DEF PostSet
<1>3. CASE p.kind = "send"
  <2>1. tab' = tab
    BY <1>3 DEF Return
  <2>2. PostsOK
    BY <1>1, <2>1, TabSame, PostsStay
  <2> QED
    BY <1>1, <2>1, <2>2, TabSame, Bounds, FromTab
<1>4. CASE p.kind # "send"
  <2>1. PICK s \in Sid : \E b : Lays(s, b)
    BY <1>2, <1>4, HistoryLays, ReplyLays
  <2>2. /\ tab' \in [Sid -> SessionState \cup {None}]
        /\ CardShape' /\ SeenShape' /\ NewestShape' /\ FinalShape'
        /\ TabStays /\ Kindly
    BY <1>1, <2>1, LaysKeeps
  <2>3. PostsOK
    BY <1>1, <2>2, SrvSame, PostsStay
  <2> QED
    BY <1>1, <2>2, <2>3, Bounds, FromTab
<1> QED
  BY <1>3, <1>4

\* The request with the state of its answer.
LEMMA BackIs ==
  ASSUME NEW p \in PostSet, NEW st \in {"ok", "conflict"}
  PROVE  LET q == [p EXCEPT !.st = st]
         IN q \in PostSet /\ q.kind = p.kind /\ q.s = p.s /\ q.x = p.x /\ q.st = st
<1>1. PICK X : X = Text \cup {None} \cup (Ask \X (1..MaxPost))
  OBVIOUS
<1>2. PICK P : P = Seq(PastEvent)
  OBVIOUS
<1> QED
  BY <1>1, <1>2 DEF PostSet

\* The server takes a message.
LEMMA ServeSend ==
  ASSUME IInv, NEW p \in posts, Serve(p), p.kind = "send"
  PROVE  IInv' /\ Kindly
<1> DEFINE s == p.s
<1>1. /\ srv' = [srv EXCEPT ![s].queued = @ + 1] /\ Emit("user_message", s, p.x)
      /\ Back(p, "ok") /\ UNCHANGED <<cursor, tab, asked, losses>>
  BY DEF Serve
<1>2. p \in PostSet /\ s \in Sid /\ p.x \in Text /\ p.st = "sent"
      /\ srv[s].turn + srv[s].queued < MaxTurn
  BY PostIs DEF IInv, SendShape, Serve
<1>3. PICK r : r = [srv[s] EXCEPT !.queued = @ + 1]
  OBVIOUS
<1>4. /\ srv[s] \in Server
      /\ srv[s].turn \in 0..MaxTurn /\ srv[s].queued \in 0..MaxTurn /\ MaxTurn \in Nat
      /\ srv[s].open \subseteq srv[s].asked
      /\ srv[s].pc # "idle" => srv[s].turn > 0
  BY <1>2, ServerFields
<1>5. srv[s].queued + 1 \in 0..MaxTurn
  BY <1>2, <1>4
<1>6. /\ r \in Server /\ r.asked = srv[s].asked /\ r.open = srv[s].open /\ r.pc = srv[s].pc
      /\ r.turn = srv[s].turn /\ r.queued = srv[s].queued + 1
  BY <1>3, <1>4, <1>5 DEF Server
<1>7. srv' = [srv EXCEPT ![s] = r]
  BY <1>1, <1>3
<1>8. PICK e : e = Event("user_message", s, p.x) /\ log' = Append(log, e)
  BY <1>1 DEF Emit
<1>9. Fits(e)
  BY <1>2, <1>8, EventIs DEF Fits, TypedEvent, Carries, EventName, Requests
<1>10. ServerMoves /\ ServerShape'
  <2>1. /\ srv[s].asked \subseteq r.asked
        /\ r.open \cap srv[s].asked \subseteq srv[s].open
        /\ r.open \subseteq r.asked
        /\ srv[s].turn <= r.turn
        /\ r.turn + r.queued <= MaxTurn
        /\ (r.pc # "idle" => r.turn > 0)
    BY <1>2, <1>4, <1>6
  <2>2. log' = log \/ \E x : Fits(x) /\ log' = Append(log, x)
    BY <1>8, <1>9
  <2>3. r \in Server /\ UNCHANGED <<cursor, tab, asked>>
    BY <1>1, <1>6
  <2> QED
    BY <1>2, <1>7, <2>1, <2>2, <2>3, RecordMoves, Zenon
<1>11. PICK q \in PostSet : /\ q = [p EXCEPT !.st = "ok"] /\ q.kind = p.kind /\ q.s = p.s
                            /\ q.x = p.x /\ q.st = "ok"
  BY <1>2, BackIs
<1>12. posts' = (posts \ {p}) \cup {q}
  BY <1>1, <1>11 DEF Back
<1>13. PostsOK
  BY <1>10, <1>11, <1>12, ServerQuiet, PostBack
<1> QED
  BY <1>1, <1>10, <1>13, FromServer

\* The server takes a reply, or finds the request answered.
LEMMA ServeReply ==
  ASSUME IInv, NEW p \in posts, Serve(p), p.kind = "reply"
  PROVE  IInv' /\ Kindly
<1> DEFINE s == p.s
           c == p.x[1]
<1>1. p \in PostSet /\ s \in Sid /\ c \in Ask
  BY PostIs DEF IInv, ReplyShape
<1>2. UNCHANGED <<cursor, tab, asked, losses>>
  BY DEF Serve
<1>3. CASE c \in srv[s].open
  <2>1. Settle(s, c) /\ Back(p, "ok")
    BY <1>3 DEF Serve
  <2>2. ServerMoves /\ ServerShape' /\ SumsStay /\ c \notin srv'[s].open
    BY <1>1, <1>2, <2>1, SettleMoves
  <2>3. PICK q \in PostSet : /\ q = [p EXCEPT !.st = "ok"] /\ q.kind = p.kind /\ q.s = p.s
                             /\ q.x = p.x /\ q.st = "ok"
    BY <1>1, BackIs
  <2>4. posts' = (posts \ {p}) \cup {q}
    BY <2>1, <2>3 DEF Back
  <2>5. PostsOK
    BY <2>2, <2>3, <2>4, ServerQuiet, PostBack
  <2> QED
    BY <1>2, <2>2, <2>5, FromServer
<1>4. CASE c \notin srv[s].open
  <2>1. UNCHANGED <<srv, log>> /\ Back(p, "conflict")
    BY <1>4 DEF Serve
  <2>2. PICK q \in PostSet : /\ q = [p EXCEPT !.st = "conflict"] /\ q.kind = p.kind /\ q.s = p.s
                             /\ q.x = p.x /\ q.st = "conflict"
    BY <1>1, BackIs
  <2>3. posts' = (posts \ {p}) \cup {q}
    BY <2>1, <2>2 DEF Back
  <2>4. TabStays /\ SrvQuiet /\ SumsStay
    BY <1>2, <2>1, TabSame
  <2>5. PostsOK
    BY <1>4, <2>1, <2>2, <2>3, <2>4, PostBack
  <2> QED
    BY <1>2, <2>1, <2>5, TabSame, Bounds, FromTab
<1> QED
  BY <1>3, <1>4

\* The server answers a history request.
LEMMA ServeHistory ==
  ASSUME IInv, NEW p \in posts, Serve(p), p.kind = "history"
  PROVE  IInv' /\ Kindly
<1>1. p \in PostSet /\ p.s \in Sid
  BY PostIs
<1>2. UNCHANGED <<srv, log, cursor, tab, asked, losses>>
  BY DEF Serve
<1>3. PICK h \in Transcripts(p.s) : posts' = (posts \ {p}) \cup {[p EXCEPT !.st = "ok", !.past = h]}
  BY DEF Serve
<1>4. h \in Seq(PastEvent)
  BY <1>3, TranscriptsLast DEF IInv, TypeShape
<1>5. PICK q \in PostSet : /\ q = [p EXCEPT !.st = "ok", !.past = h] /\ q.kind = p.kind
                           /\ q.s = p.s /\ q.x = p.x /\ q.st = "ok"
  <2>1. PICK r \in PostSet : /\ r = [p EXCEPT !.st = "ok"] /\ r.kind = p.kind
                             /\ r.s = p.s /\ r.x = p.x /\ r.st = "ok"
    BY <1>1, BackIs
  <2>2. PICK X : X = Text \cup {None} \cup (Ask \X (1..MaxPost))
    OBVIOUS
  <2>3. PICK P : P = Seq(PastEvent)
    OBVIOUS
  <2>4. /\ [r EXCEPT !.past = h] \in PostSet /\ [r EXCEPT !.past = h].kind = r.kind
        /\ [r EXCEPT !.past = h].s = r.s /\ [r EXCEPT !.past = h].x = r.x
        /\ [r EXCEPT !.past = h].st = r.st
    BY <1>4, <2>2, <2>3 DEF PostSet
  <2>5. [p EXCEPT !.st = "ok", !.past = h] = [r EXCEPT !.past = h]
    BY <2>1, Zenon
  <2> QED
    BY <2>1, <2>4, <2>5
<1>6. TabStays /\ SrvQuiet /\ SumsStay
  BY <1>2, TabSame
<1>7. PostsOK
  BY <1>3, <1>5, <1>6, PostBack
<1> QED
  BY <1>2, <1>7, TabSame, Bounds, FromTab

\* Every step keeps the invariant, takes no message back and clears no open card.
LEMMA MuxStep ==
  ASSUME IInv, [Next]_vars
  PROVE  IInv' /\ Kindly
<1>1. CASE Next
  <2>1. CASE ServerSide
    BY <2>1, ServerSideStep
  <2>2. CASE User
    BY <2>2, SendStep, ClickStep, LoadStep, ClearStep DEF User
  <2>3. ASSUME NEW p \in posts, Serve(p)
        PROVE  IInv' /\ Kindly
    <3>1. p.kind \in {"send", "reply", "history"}
      BY PostIs DEF PostSet
    <3> QED
      BY <2>3, <3>1, ServeSend, ServeReply, ServeHistory
  <2>4. CASE Network
    BY <2>3, <2>4, LoseStep, ReturnStep DEF Network
  <2> QED
    BY <1>1, <2>1, <2>2, <2>4, DeliverStep DEF Next
<1>2. CASE UNCHANGED vars
  <2>1. UNCHANGED <<srv, log, cursor, tab, posts, asked, losses>>
    BY <1>2 DEF vars
  <2>2. PostsOK
    BY <2>1, TabSame, PostsStay
  <2> QED
    BY <2>1, <2>2, TabSame, Bounds, FromTab
<1> QED
  BY <1>1, <1>2

\* The invariant holds when the tab is opened.
LEMMA MuxInit ==
  Init => IInv
<1>1. SUFFICES ASSUME NEW s0 \in Sid, NEW t \in Text,
                      log = PastTurn(s0, t),
                      srv = [s \in Sid |-> [queued |-> 0, pc |-> "idle",
                                            turn |-> IF s = s0 THEN 1 ELSE 0,
                                            asked |-> {}, open |-> {}]],
                      cursor = 0, tab = [s \in Sid |-> None], posts = {}, asked = {}, losses = 0
               PROVE  IInv
  BY DEF Init
<1>2. \A s \in Sid : /\ srv[s] \in Server /\ srv[s].open \subseteq srv[s].asked /\ srv[s].pc = "idle"
                     /\ srv[s].turn + srv[s].queued <= MaxTurn /\ srv[s].asked = {}
  BY <1>1, MuxBoundsAssumption DEF Server
<1>3. PICK e1, e2, e3 : /\ log = <<e1, e2, e3>> /\ e1 = Event("user_message", s0, t)
                        /\ e2 = Event("message_complete", s0, 1) /\ e3 = Event("result", s0, 1)
  BY <1>1 DEF PastTurn
<1>4. 1 \in 1..MaxTurn /\ 1 \in 0..MaxTurn
  BY MuxBoundsAssumption
<1>5. e1 \in TypedEvent /\ e2 \in TypedEvent /\ e3 \in TypedEvent
      /\ e1.ev = "user_message" /\ e2.ev = "message_complete" /\ e3.ev = "result"
      /\ e2.s = s0 /\ e2.x = 1
  BY <1>1, <1>3, <1>4, EventIs DEF TypedEvent, Carries, EventName
<1>6. /\ log \in Seq(TypedEvent) /\ DOMAIN log = 1..3
      /\ log[1] = e1 /\ log[2] = e2 /\ log[3] = e3
  BY <1>3, <1>5
<1>7. TypeShape
  <2>1. srv \in [Sid -> Server]
    BY <1>1, <1>2
  <2>2. Len(log) \in Nat
    BY <1>6
  <2> QED
    BY <1>1, <1>6, <2>1, <2>2, MuxBoundsAssumption DEF TypeShape
<1>8. ServerShape
  <2>1. srv[s0].turn = 1
    BY <1>1
  <2>2. \A k \in DOMAIN log : k = 1 \/ k = 2 \/ k = 3
    BY <1>6
  <2>3. \A k \in DOMAIN log : log[k].ev \notin Requests /\ log[k].ev # "message_delta"
    BY <1>5, <1>6, <2>2 DEF Requests
  <2>4. \A k \in DOMAIN log : log[k].ev = "message_complete" => log[k].x <= srv[log[k].s].turn
    BY <1>5, <1>6, <2>1, <2>2
  <2> QED
    BY <1>2, <2>3, <2>4 DEF ServerShape
<1>9. SendShape /\ ReplyShape /\ CardShape
  BY <1>1 DEF SendShape, ReplyShape, CardShape
<1>10. SeenShape /\ NewestShape /\ FinalShape
  BY <1>1 DEF SeenShape, NewestShape, FinalShape
<1> QED
  BY <1>7, <1>8, <1>9, <1>10 DEF IInv

-----------------------------------------------------------------------------
(* The theorems. *)

\* The invariant the other theorems rest on holds whatever the stream, the answers,
\* the histories and the other tab do, and in whichever order.
THEOREM MuxInvariant == Spec => []IInv
<1>1. IInv /\ [Next]_vars => IInv'
  BY MuxStep
<1> QED
  BY <1>1, MuxInit, PTL DEF Spec

\* Types of the reducer's slots, of the log and of the requests in flight: every
\* event reduced to a slot, every history laid under it gives a slot again.
THEOREM MuxTypesHold == Spec => []MuxTypeOK
<1>1. IInv => MuxTypeOK
  <2>1. SUFFICES ASSUME IInv PROVE MuxTypeOK
    OBVIOUS
  <2>2. TypedEvent \subseteq ServerEvent
    BY DEF TypedEvent, EventSet, ServerEvent, Event
  <2>3. log \in Seq(ServerEvent)
    BY <2>1, <2>2 DEF IInv, TypeShape
  <2>4. \A s \in Sid : tab[s] # None => tab[s] \in SessionState
    BY <2>1 DEF IInv, TypeShape
  <2>5. \A p \in posts : PostShape(p)
    BY <2>1, PostIs DEF PostSet, PostShape
  <2> QED
    BY <2>1, <2>3, <2>4, <2>5 DEF MuxTypeOK, IInv, TypeShape
<1> QED
  BY <1>1, MuxInvariant, PTL

\* However history and stream interleave (reducer.ts), a tab that has reduced the
\* whole log shows every completed message once, with its final text.
THEOREM MessagesEndFinal == Spec => []CaughtUpIsFinal
<1>1. IInv => CaughtUpIsFinal
  <2>1. SUFFICES ASSUME IInv, CaughtUp, NEW s \in Slots, NEW i \in 1..MaxTurn,
                        Event("message_complete", s, i) \in {log[k] : k \in 1..cursor}
                 PROVE  LET ms == tab[s].messages
                            at == {k \in DOMAIN ms : ms[k].kind = "assistant" /\ ms[k].id = i}
                        IN \E k \in at : at = {k} /\ ms[k] = Final(i)
    BY DEF CaughtUpIsFinal, Final
  <2>2. PICK k \in 1..cursor : log[k].ev = "message_complete" /\ log[k].s = s /\ log[k].x = i
    BY <2>1, EventIs
  <2>3. s \in Sid /\ tab[s] # None
    BY <2>1 DEF Slots
  <2> DEFINE ms == tab[s].messages
             at == {l \in DOMAIN ms : ms[l].kind = "assistant" /\ ms[l].id = i}
  <2>4. HasFinal(ms, i) /\ Single(ms)
    BY <2>1, <2>2, <2>3 DEF IInv, FinalShape
  <2>5. PICK l \in DOMAIN ms : ms[l] = Final(i)
    BY <2>4 DEF HasFinal, Elements
  <2>6. l \in at
    BY <2>5, MessageForm DEF IsAssistant
  <2>7. at = {l}
    BY <2>4, <2>6 DEF Single, IsAssistant
  <2> QED
    BY <2>5, <2>6, <2>7
<1> QED
  BY <1>1, MuxInvariant, PTL

\* No answer, history or other tab makes the card of the newest open request go
\* away, so that the turn can be got going again.
THEOREM NewestCardIsShown == Spec => []NewestRequestIsShown
<1>1. IInv => NewestRequestIsShown
  <2>1. SUFFICES ASSUME IInv, CaughtUp, NEW s \in Slots, NEW k \in 1..Len(log),
                        log[k].s = s, log[k].ev \in Requests,
                        \A l \in (k + 1)..Len(log) : log[l].s = s => log[l].ev # log[k].ev,
                        log[k].x \in srv[s].open
                 PROVE  log[k].x \in {tab[s].perm, tab[s].ques}
    BY DEF NewestRequestIsShown, Requests
  <2>2. cursor = Len(log) /\ s \in Sid
    BY <2>1 DEF CaughtUp, Slots
  <2>3. Newest(k, s, log[k].ev)
    BY <2>1, <2>2 DEF Newest
  <2> QED
    BY <2>1, <2>2, <2>3 DEF IInv, NewestShape, Requests
<1> QED
  BY <1>1, MuxInvariant, PTL

\* No step of the reducer takes back what the user has been shown.
THEOREM NothingIsTakenBack == Spec => NothingDisappears
<1>1. IInv /\ [Next]_vars =>
        [\A s \in Sid : tab[s] # None /\ tab'[s] # None => Shown(tab[s]) \subseteq Shown(tab'[s])]_vars
  BY MuxStep DEF Kindly
<1> QED
  BY <1>1, MuxInvariant, PTL DEF Spec, NothingDisappears

\* A card goes away only when the server has an answer to its request: a late
\* answer to an earlier request does not clear it.
THEOREM CardsGoWhenAnswered == Spec => OnlyAnsweredCardsClear
<1>1. IInv /\ [Next]_vars =>
        [\A s \in Sid : tab[s] # None /\ tab'[s] # None =>
           /\ tab[s].perm # None /\ tab'[s].perm = None => tab[s].perm \notin srv[s].open
           /\ tab[s].ques # None /\ tab'[s].ques = None => tab[s].ques \notin srv[s].open]_vars
  BY MuxStep DEF Kindly
<1> QED
  BY <1>1, MuxInvariant, PTL DEF Spec, OnlyAnsweredCardsClear
=============================================================================
