---------------------------- MODULE RegistryProofs ----------------------------
(***************************************************************************)
(* The safety properties of Registry for all sets of ids, modes and        *)
(* requests and every bound.                                               *)
(*                                                                         *)
(* The argument: an object leaves _sessions in the step in which it begins *)
(* to close (Popped), so whoever closes one, a request (ClosingShape) or   *)
(* the reaper (ReapingShape), holds an object that is not live, and what   *)
(* it does to it later does not touch a registered one.  A live object     *)
(* that is not registered can then only be one whose entry a later         *)
(* resumption has taken.                                                   *)
(***************************************************************************)
EXTENDS Registry, SequenceTheorems, TLAPS

ClosingShape ==
  \A o \in Op :
    /\ op[o].at \in {"closing", "purge"} => op[o].do = "delete"
    /\ op[o].at = "closing" =>
         op[o].of \in DOMAIN inst /\ inst[op[o].of].life # "live"

ReapingShape ==
  reaping # 0 => reaping \in DOMAIN inst /\ inst[reaping].life # "live"

RegisteredShape ==
  \A s \in Sid : mem[s] # 0 =>
    mem[s] \in DOMAIN inst /\ inst[mem[s]].life = "live" /\ inst[mem[s]].sid = s

IInv ==
  TypeOK /\ ClosingShape /\ ReapingShape /\ RegisteredShape /\ OrphansAreDisplaced

-----------------------------------------------------------------------------
(* Type correctness. *)

OpRec ==
  [at : {"idle", "load", "build", "act", "modeload", "saving", "closing", "purge", "done"},
   do : {"create", "use", "mode", "delete"}, sid : Sid, of : 0..MaxInst,
   seen : Rec, mode : Mode]

LEMMA InitInv == Init => IInv
<1> SUFFICES ASSUME Init PROVE IInv
  OBVIOUS
<1>1. TypeOK
  <2>1. inst \in Seq(Instance) /\ Len(inst) <= MaxInst
    BY BoundsAssumption DEF Init
  <2>2. DOMAIN store = {}
    BY DEF Init
  <2>4. op \in [Op -> OpRec]
    <3>1. NoRec \in Rec /\ NoRec.mode \in Mode
      BY NonEmptyAssumption, BoundsAssumption DEF NoRec, Rec, Conversation
    <3>2. (CHOOSE s \in Sid : TRUE) \in Sid
      BY NonEmptyAssumption
    <3>3. IdleOp \in OpRec
      BY <3>1, <3>2, BoundsAssumption DEF IdleOp, OpRec
    <3> QED
      BY <3>3 DEF Init
  <2>5. mem \in [Sid -> 0..MaxInst] /\ landed \in [Sid -> SUBSET Conversation]
    BY BoundsAssumption DEF Init
  <2>6. writes = {} /\ stale = {} /\ reaping = 0 /\ restarts = 0
    BY DEF Init
  <2>7. /\ DOMAIN store \subseteq Sid /\ \A s \in DOMAIN store : store[s] \in Rec
        /\ writes \subseteq [sid : Sid, rec : Rec, by : Op \cup (1..MaxInst)]
        /\ stale \subseteq Sid
    BY <2>2, <2>6
  <2>8. reaping \in 0..MaxInst /\ restarts \in 0..MaxRestarts
    BY <2>6, BoundsAssumption
  <2> QED
    BY <2>1, <2>4, <2>5, <2>7, <2>8 DEF TypeOK, OpRec
<1>2. ClosingShape
  <2>1. \A o \in Op : op[o].at = "idle"
    BY DEF Init, IdleOp
  <2> QED
    BY <2>1 DEF ClosingShape
<1>3. ReapingShape /\ RegisteredShape
  BY DEF Init, ReapingShape, RegisteredShape
<1>4. OrphansAreDisplaced
  <2>1. DOMAIN inst = {}
    BY DEF Init
  <2> QED
    BY <2>1 DEF OrphansAreDisplaced
<1> QED
  BY <1>1, <1>2, <1>3, <1>4 DEF IInv

\* A sequence of objects is a function, whose fields may be changed.
LEMMA InstFun ==
  ASSUME NEW q \in Seq(Instance)
  PROVE  /\ Len(q) \in Nat /\ DOMAIN q = 1..Len(q)
         /\ q \in [1..Len(q) -> Instance]
         /\ \A f : f \in [1..Len(q) -> Instance] =>
              f \in Seq(Instance) /\ Len(f) = Len(q)
<1>1. Len(q) \in Nat /\ DOMAIN q = 1..Len(q) /\ q \in [1..Len(q) -> Instance]
  BY LenProperties
<1>2. ASSUME NEW f \in [1..Len(q) -> Instance]
      PROVE  f \in Seq(Instance) /\ Len(f) = Len(q)
  BY <1>1, <1>2
<1> QED
  BY <1>1, <1>2

LEMMA BuildType ==
  ASSUME TypeOK, NEW s \in Sid, NEW rec \in Rec, Build(s, rec)
  PROVE  /\ inst' \in Seq(Instance) /\ Len(inst') <= MaxInst
         /\ mem' \in [Sid -> 0..MaxInst]
         /\ Len(inst) + 1 \in 1..MaxInst
         /\ Len(inst') = Len(inst) + 1
         /\ \A i \in DOMAIN inst : i \in DOMAIN inst' /\ inst'[i] = inst[i]
         /\ inst'[Len(inst) + 1].sid = s /\ inst'[Len(inst) + 1].life = "live"
<1> DEFINE new == [sid |-> s, life |-> "live", mode |-> rec.mode, resume |-> rec.sdk,
                   sdk |-> 0, turn |-> FALSE, idle |-> FALSE]
<1>1. FALSE \in BOOLEAN
  BY Zenon
<1>2. new \in Instance
  BY <1>1, BoundsAssumption DEF Instance, Rec, Conversation
<1>3. inst' = Append(inst, new) /\ Len(inst) < MaxInst /\ inst \in Seq(Instance)
      /\ mem' = [mem EXCEPT ![s] = Len(inst) + 1] /\ mem \in [Sid -> 0..MaxInst]
  BY DEF Build, TypeOK
<1> HIDE DEF new
<1>4. Len(inst) \in Nat /\ DOMAIN inst = 1..Len(inst)
  BY <1>3, InstFun
<1>5. /\ inst' \in Seq(Instance) /\ Len(inst') = Len(inst) + 1
      /\ \A i \in 1..Len(inst) : inst'[i] = inst[i]
      /\ inst'[Len(inst) + 1] = new
  BY <1>2, <1>3, AppendProperties
<1>6. DOMAIN inst' = 1..(Len(inst) + 1)
  BY <1>5, InstFun
<1>7. new.sid = s /\ new.life = "live"
  BY DEF new
<1> QED
  BY <1>3, <1>4, <1>5, <1>6, <1>7, BoundsAssumption

\* An object some of whose fields are changed is an object.
LEMMA FieldType ==
  ASSUME NEW n \in Nat, NEW f \in [1..n -> Instance], NEW i
  PROVE  /\ \A b \in BOOLEAN : [f EXCEPT ![i].turn = b] \in [1..n -> Instance]
         /\ \A b \in BOOLEAN : [f EXCEPT ![i].idle = b] \in [1..n -> Instance]
         /\ \A l \in {"live", "closing", "closed"} :
              [f EXCEPT ![i].life = l] \in [1..n -> Instance]
         /\ \A m \in Mode : [f EXCEPT ![i].mode = m] \in [1..n -> Instance]
         /\ \A d \in Conversation : [f EXCEPT ![i].sdk = d] \in [1..n -> Instance]
<1>1. \A b \in BOOLEAN : [f EXCEPT ![i].turn = b] \in [1..n -> Instance]
  BY DEF Instance
<1>2. \A b \in BOOLEAN : [f EXCEPT ![i].idle = b] \in [1..n -> Instance]
  BY DEF Instance
<1>3. \A l \in {"live", "closing", "closed"} :
        [f EXCEPT ![i].life = l] \in [1..n -> Instance]
  BY DEF Instance
<1>4. \A m \in Mode : [f EXCEPT ![i].mode = m] \in [1..n -> Instance]
  BY DEF Instance
<1>5. \A d \in Conversation : [f EXCEPT ![i].sdk = d] \in [1..n -> Instance]
  BY DEF Instance
<1> QED
  BY <1>1, <1>2, <1>3, <1>4, <1>5

\* An object that is popped stays an object.
LEMMA PoppedType ==
  ASSUME NEW s \in Sid, Popped(s), Len(inst) \in Nat, inst \in [1..Len(inst) -> Instance]
  PROVE  inst' \in [1..Len(inst) -> Instance]
<1> DEFINE mid == [inst EXCEPT ![mem[s]].life = "closing"]
<1>1. mid \in [1..Len(inst) -> Instance]
  BY FieldType
<1>2. inst' = [mid EXCEPT ![mem[s]].turn = FALSE]
  BY DEF Popped
<1>3. FALSE \in BOOLEAN
  BY Zenon
<1> HIDE DEF mid
<1> QED
  BY <1>1, <1>2, <1>3, FieldType

\* A request that moves on stays a request.
LEMMA OpType ==
  ASSUME NEW f \in [Op -> OpRec], NEW o \in Op,
         NEW a \in {"idle", "load", "build", "act", "modeload", "saving", "closing",
                    "purge", "done"}
  PROVE  [f EXCEPT ![o].at = a] \in [Op -> OpRec]
BY DEF OpRec

LEMMA OpPut ==
  ASSUME NEW f \in [Op -> OpRec], NEW o \in Op, NEW r \in OpRec
  PROVE  [f EXCEPT ![o] = r] \in [Op -> OpRec]
OBVIOUS

Do == {"create", "use", "mode", "delete"}

\* And one that is given what it works on.
LEMMA RecPut ==
  ASSUME NEW r \in OpRec,
         NEW a \in {"idle", "load", "build", "act", "modeload", "saving", "closing",
                    "purge", "done"}
  PROVE  /\ \A d \in Do, s \in Sid, i \in 0..MaxInst, m \in Mode :
             [r EXCEPT !.at = a, !.do = d, !.sid = s, !.of = i, !.mode = m] \in OpRec
         /\ \A d \in Do, s \in Sid, m \in Mode :
             [r EXCEPT !.at = a, !.do = d, !.sid = s, !.mode = m] \in OpRec
         /\ \A d \in Do, s \in Sid, i \in 0..MaxInst :
             [r EXCEPT !.at = a, !.do = d, !.sid = s, !.of = i] \in OpRec
         /\ \A d \in Do, s \in Sid : [r EXCEPT !.at = a, !.do = d, !.sid = s] \in OpRec
         /\ \A c \in Rec : [r EXCEPT !.at = a, !.seen = c] \in OpRec
<1>1. [r EXCEPT !.at = a] \in OpRec
  BY DEF OpRec
<1>2. \A q \in OpRec, d \in Do : [q EXCEPT !.do = d] \in OpRec
  BY DEF OpRec, Do
<1>3. \A q \in OpRec, s \in Sid : [q EXCEPT !.sid = s] \in OpRec
  BY DEF OpRec
<1>4. \A q \in OpRec, i \in 0..MaxInst : [q EXCEPT !.of = i] \in OpRec
  BY DEF OpRec
<1>5. \A q \in OpRec, m \in Mode : [q EXCEPT !.mode = m] \in OpRec
  BY DEF OpRec
<1>6. \A c \in Rec : [r EXCEPT !.at = a, !.seen = c] \in OpRec
  BY DEF OpRec
<1>7. \A d \in Do, s \in Sid : [r EXCEPT !.at = a, !.do = d, !.sid = s] \in OpRec
  BY <1>1, <1>2, <1>3, Zenon
<1>8. \A d \in Do, s \in Sid, i \in 0..MaxInst :
          [r EXCEPT !.at = a, !.do = d, !.sid = s, !.of = i] \in OpRec
  BY <1>4, <1>7, Zenon
<1> QED
  BY <1>5, <1>6, <1>7, <1>8, Zenon

LEMMA TypeStep == IInv /\ [Next]_vars => TypeOK'
<1> SUFFICES ASSUME IInv, [Next]_vars PROVE TypeOK'
  OBVIOUS
<1>0. /\ TypeOK
      /\ inst \in Seq(Instance) /\ Len(inst) <= MaxInst /\ op \in [Op -> OpRec]
  BY DEF IInv, TypeOK, OpRec
<1>1. /\ Len(inst) \in Nat /\ DOMAIN inst = 1..Len(inst)
      /\ inst \in [1..Len(inst) -> Instance]
      /\ \A f : f \in [1..Len(inst) -> Instance] =>
           f \in Seq(Instance) /\ Len(f) = Len(inst)
  BY <1>0, InstFun
<1>2. TRUE \in BOOLEAN /\ FALSE \in BOOLEAN
  BY Zenon
<1>3. ASSUME inst' \in [1..Len(inst) -> Instance]
      PROVE  inst' \in Seq(Instance) /\ Len(inst') <= MaxInst
  BY <1>0, <1>1, <1>3
<1>4. \A s \in Sid : \A m \in Mode : [sdk |-> 0, mode |-> m] \in Rec
  BY BoundsAssumption DEF Rec, Conversation
<1>a. ASSUME NEW o \in Op, NEW s \in Sid, NEW m \in Mode, Create(o, s, m) PROVE TypeOK'
  <2> DEFINE rec == [sdk |-> 0, mode |-> m]
  <2>1. rec \in Rec
    BY <1>4
  <2>2. Build(s, rec) /\ Save(s, rec, o)
    BY <1>a DEF Create
  <2> HIDE DEF rec
  <2>3. inst' \in Seq(Instance) /\ Len(inst') <= MaxInst /\ mem' \in [Sid -> 0..MaxInst]
    BY <1>0, <2>1, <2>2, BuildType
  <2>4. op' \in [Op -> OpRec]
    <3> DEFINE r == [op[o] EXCEPT !.at = "saving", !.do = "create", !.sid = s]
    <3>1. op[o] \in OpRec /\ "create" \in Do
      BY <1>0 DEF Do
    <3>2. r \in OpRec
      BY <3>1, RecPut
    <3>3. op' = [op EXCEPT ![o] = r]
      BY <1>a DEF Create
    <3> HIDE DEF r
    <3> QED
      BY <1>0, <3>2, <3>3, OpPut
  <2>5. writes' \subseteq [sid : Sid, rec : Rec, by : Op \cup (1..MaxInst)]
    BY <1>0, <2>1, <2>2 DEF Save, TypeOK
  <2> QED
    BY <1>0, <1>a, <2>3, <2>4, <2>5 DEF Create, TypeOK, OpRec
<1>b. ASSUME NEW o \in Op, NEW s \in Sid, NEW m \in Mode, NEW k \in {"use", "mode"},
             Hit(o, s, k, m)
      PROVE  TypeOK'
  <2>1. inst' \in [1..Len(inst) -> Instance]
    <3>1. inst' = [inst EXCEPT ![mem[s]].idle = FALSE]
      BY <1>b DEF Hit
    <3> QED
      BY <1>1, <1>2, <3>1, FieldType
  <2>2. op' \in [Op -> OpRec]
    <3> DEFINE r == [op[o] EXCEPT !.at = "act", !.do = k, !.sid = s, !.of = mem[s], !.mode = m]
    <3>1. op[o] \in OpRec /\ mem[s] \in 0..MaxInst /\ k \in Do
      BY <1>0 DEF TypeOK, Do
    <3>2. r \in OpRec
      BY <3>1, RecPut
    <3>3. op' = [op EXCEPT ![o] = r]
      BY <1>b DEF Hit
    <3> HIDE DEF r
    <3> QED
      BY <1>0, <3>2, <3>3, OpPut
  <2> QED
    BY <1>0, <1>3, <1>b, <2>1, <2>2 DEF Hit, TypeOK, OpRec
<1>c. ASSUME NEW o \in Op, NEW s \in Sid, NEW m \in Mode, NEW k \in {"use", "mode"},
             Miss(o, s, k, m)
      PROVE  TypeOK'
  <2>1. op' \in [Op -> OpRec]
    <3> DEFINE r == [op[o] EXCEPT !.at = "load", !.do = k, !.sid = s, !.mode = m]
    <3>1. op[o] \in OpRec /\ k \in Do
      BY <1>0 DEF Do
    <3>2. r \in OpRec
      BY <3>1, RecPut
    <3>3. op' = [op EXCEPT ![o] = r]
      BY <1>c DEF Miss
    <3> HIDE DEF r
    <3> QED
      BY <1>0, <3>2, <3>3, OpPut
  <2> QED
    BY <1>0, <1>c, <2>1 DEF Miss, TypeOK, OpRec
<1>d. ASSUME NEW o \in Op, NEW s \in Sid, Delete(o, s) PROVE TypeOK'
  <2>1. inst' \in [1..Len(inst) -> Instance]
    BY <1>1, <1>d, PoppedType DEF Delete
  <2>2. op' \in [Op -> OpRec]
    <3> DEFINE r == [op[o] EXCEPT !.at = "closing", !.do = "delete", !.sid = s, !.of = mem[s]]
    <3>1. op[o] \in OpRec /\ mem[s] \in 0..MaxInst /\ "delete" \in Do
      BY <1>0 DEF TypeOK, Do
    <3>2. r \in OpRec
      BY <3>1, RecPut
    <3>3. op' = [op EXCEPT ![o] = r]
      BY <1>d DEF Delete
    <3> HIDE DEF r
    <3> QED
      BY <1>0, <3>2, <3>3, OpPut
  <2>3. mem' \in [Sid -> 0..MaxInst]
    BY <1>0, <1>d, BoundsAssumption DEF Delete, Popped, TypeOK
  <2> QED
    BY <1>0, <1>3, <1>d, <2>1, <2>2, <2>3 DEF Delete, TypeOK, OpRec
<1>e. ASSUME NEW o \in Op, NEW s \in Sid, DeleteCold(o, s) PROVE TypeOK'
  <2>1. op' \in [Op -> OpRec]
    <3> DEFINE r == [op[o] EXCEPT !.at = "purge", !.do = "delete", !.sid = s]
    <3>1. op[o] \in OpRec /\ "delete" \in Do
      BY <1>0 DEF Do
    <3>2. r \in OpRec
      BY <3>1, RecPut
    <3>3. op' = [op EXCEPT ![o] = r]
      BY <1>e DEF DeleteCold
    <3> HIDE DEF r
    <3> QED
      BY <1>0, <3>2, <3>3, OpPut
  <2> QED
    BY <1>0, <1>e, <2>1 DEF DeleteCold, TypeOK, OpRec
<1>f. ASSUME NEW o \in Op, Load(o) PROVE TypeOK'
  <2>1. CASE op[o].sid \in DOMAIN store /\
             op' = [op EXCEPT ![o] = [@ EXCEPT !.at = "build", !.seen = store[op[o].sid]]]
    <3>1. store[op[o].sid] \in Rec
      BY <1>0, <2>1 DEF TypeOK
    <3> DEFINE r == [op[o] EXCEPT !.at = "build", !.seen = store[op[o].sid]]
    <3>2. op[o] \in OpRec
      BY <1>0
    <3>3. r \in OpRec
      BY <3>1, <3>2, RecPut
    <3>4. op' = [op EXCEPT ![o] = r]
      BY <2>1
    <3> HIDE DEF r
    <3>5. op' \in [Op -> OpRec]
      BY <1>0, <3>3, <3>4, OpPut
    <3> QED
      BY <1>0, <1>f, <3>5 DEF Load, OpRec, TypeOK
  <2>2. CASE op' = [op EXCEPT ![o].at = "done"]
    BY <1>0, <1>f, <2>2, OpType DEF Load, OpRec, TypeOK
  <2> QED
    BY <1>f, <2>1, <2>2 DEF Load
<1>g. ASSUME NEW o \in Op, Resume(o) PROVE TypeOK'
  <2>1. op[o].sid \in Sid /\ op[o].seen \in Rec /\ Build(op[o].sid, op[o].seen)
    BY <1>0, <1>g DEF Resume, OpRec
  <2>2. /\ inst' \in Seq(Instance) /\ Len(inst') <= MaxInst
        /\ mem' \in [Sid -> 0..MaxInst] /\ Len(inst) + 1 \in 1..MaxInst
    BY <1>0, <2>1, BuildType
  <2>3. op' \in [Op -> OpRec]
    <3>1. op' = [op EXCEPT ![o] = [@ EXCEPT !.at = "act", !.of = Len(inst) + 1]]
      BY <1>g DEF Resume
    <3>2. Len(inst) + 1 \in 0..MaxInst
      BY <2>2
    <3> DEFINE r == [op[o] EXCEPT !.at = "act", !.of = Len(inst) + 1]
    <3>3. op[o] \in OpRec /\ r \in OpRec
      BY <1>0, <3>2 DEF OpRec
    <3>4. op' = [op EXCEPT ![o] = r]
      BY <3>1
    <3> HIDE DEF r
    <3> QED
      BY <1>0, <3>3, <3>4, OpPut
  <2> QED
    BY <1>0, <1>g, <2>2, <2>3 DEF Resume, TypeOK, OpRec
<1>h. ASSUME NEW o \in Op, Use(o) PROVE TypeOK'
  <2>1. inst' \in [1..Len(inst) -> Instance]
    <3>1. (inst[op[o].of].life = "live") \in BOOLEAN
      BY Zenon
    <3> QED
      BY <1>1, <1>2, <1>h, <3>1, FieldType DEF Use
  <2>2. op' \in [Op -> OpRec]
    <3>1. op' = [op EXCEPT ![o].at = "done"]
      BY <1>h DEF Use
    <3> QED
      BY <1>0, <3>1, OpType
  <2> QED
    BY <1>0, <1>3, <1>h, <2>1, <2>2 DEF Use, TypeOK, OpRec
<1>i. ASSUME NEW i \in 1..MaxInst, Result(i) PROVE TypeOK'
  <2> DEFINE id == IF inst[i].resume = 0 THEN i ELSE inst[i].resume
  <2>1. id \in Conversation /\ inst[i].sid \in Sid /\ inst[i].mode \in Mode
    BY <1>1, <1>i DEF Result, Instance, Conversation
  <2>2. inst' = [inst EXCEPT ![i].turn = FALSE, ![i].sdk = id]
    BY <1>i DEF Result
  <2>3. writes' \subseteq [sid : Sid, rec : Rec, by : Op \cup (1..MaxInst)]
    BY <1>0, <1>i, <2>1 DEF Result, Save, TypeOK, Rec
  <2>4. inst' \in [1..Len(inst) -> Instance]
    <3> HIDE DEF id
    <3> QED
      BY <1>1, <1>2, <2>1, <2>2, FieldType
  <2> QED
    BY <1>0, <1>3, <1>i, <2>3, <2>4 DEF Result, TypeOK, OpRec
<1>j. ASSUME NEW o \in Op, SetMode(o) PROVE TypeOK'
  <2>1. inst' \in [1..Len(inst) -> Instance]
    <3>1. op[o].mode \in Mode
      BY <1>0 DEF OpRec
    <3>2. inst' = inst \/ inst' = [inst EXCEPT ![op[o].of].mode = op[o].mode]
      BY <1>j DEF SetMode
    <3>3. [inst EXCEPT ![op[o].of].mode = op[o].mode] \in [1..Len(inst) -> Instance]
      BY <1>1, <3>1, FieldType
    <3> QED
      BY <1>1, <3>2, <3>3
  <2>2. op' \in [Op -> OpRec]
    <3>1. op' = [op EXCEPT ![o].at = "modeload"] \/ op' = [op EXCEPT ![o].at = "done"]
      BY <1>j DEF SetMode
    <3>2. CASE op' = [op EXCEPT ![o].at = "modeload"]
      BY <1>0, <3>2, OpType
    <3>3. CASE op' = [op EXCEPT ![o].at = "done"]
      BY <1>0, <3>3, OpType
    <3> QED
      BY <3>1, <3>2, <3>3
  <2> QED
    BY <1>0, <1>3, <1>j, <2>1, <2>2 DEF SetMode, TypeOK, OpRec
<1>k. ASSUME NEW o \in Op, ModeLoad(o) PROVE TypeOK'
  <2>1. op' \in [Op -> OpRec]
    <3>1. op' = [op EXCEPT ![o].at = "saving"] \/ op' = [op EXCEPT ![o].at = "done"]
      BY <1>k DEF ModeLoad
    <3>2. CASE op' = [op EXCEPT ![o].at = "saving"]
      BY <1>0, <3>2, OpType
    <3>3. CASE op' = [op EXCEPT ![o].at = "done"]
      BY <1>0, <3>3, OpType
    <3> QED
      BY <3>1, <3>2, <3>3
  <2>2. writes' \subseteq [sid : Sid, rec : Rec, by : Op \cup (1..MaxInst)]
    <3>1. op[o].sid \in Sid /\ op[o].mode \in Mode
      BY <1>0 DEF OpRec
    <3>2. ASSUME op[o].sid \in DOMAIN store
          PROVE  [store[op[o].sid] EXCEPT !.mode = op[o].mode] \in Rec
      <4>1. store[op[o].sid] \in Rec
        BY <1>0, <3>2 DEF TypeOK
      <4> QED
        BY <3>1, <4>1 DEF Rec
    <3> DEFINE rec == [store[op[o].sid] EXCEPT !.mode = op[o].mode]
    <3>3. \/ writes' = writes
          \/ /\ op[o].sid \in DOMAIN store
             /\ writes' = writes \cup {[sid |-> op[o].sid, rec |-> rec, by |-> o]}
      BY <1>k DEF ModeLoad, Save
    <3> HIDE DEF rec
    <3>4. op[o].sid \in DOMAIN store => rec \in Rec
      BY <3>2 DEF rec
    <3>5. writes \subseteq [sid : Sid, rec : Rec, by : Op \cup (1..MaxInst)]
      BY <1>0 DEF TypeOK
    <3> QED
      BY <3>1, <3>3, <3>4, <3>5
  <2> QED
    BY <1>0, <1>k, <2>1, <2>2 DEF ModeLoad, TypeOK, OpRec
<1>l. ASSUME NEW o \in Op, DeleteClosed(o) PROVE TypeOK'
  <2>1. inst' \in [1..Len(inst) -> Instance]
    <3>1. inst' = [inst EXCEPT ![op[o].of].life = "closed"]
      BY <1>l DEF DeleteClosed, Closed
    <3> QED
      BY <1>1, <3>1, FieldType
  <2>2. op' \in [Op -> OpRec]
    <3>1. op' = [op EXCEPT ![o].at = "purge"]
      BY <1>l DEF DeleteClosed
    <3> QED
      BY <1>0, <3>1, OpType
  <2> QED
    BY <1>0, <1>3, <1>l, <2>1, <2>2 DEF DeleteClosed, TypeOK, OpRec
<1>m. ASSUME NEW o \in Op, Purge(o) PROVE TypeOK'
  <2>1. op' \in [Op -> OpRec]
    <3>1. op' = [op EXCEPT ![o].at = "done"]
      BY <1>m DEF Purge
    <3> QED
      BY <1>0, <3>1, OpType
  <2>2. landed' \in [Sid -> SUBSET Conversation]
    BY <1>0, <1>m DEF Purge, TypeOK
  <2>3. DOMAIN store' \subseteq Sid /\ \A s \in DOMAIN store' : store'[s] \in Rec
    BY <1>0, <1>m DEF Purge, TypeOK
  <2> QED
    BY <1>0, <1>m, <2>1, <2>2, <2>3 DEF Purge, TypeOK, OpRec
<1>n. ASSUME NEW i \in 1..MaxInst, Elapse(i) PROVE TypeOK'
  <2>1. inst' \in [1..Len(inst) -> Instance]
    BY <1>1, <1>2, <1>n DEF Elapse, Instance
  <2> QED
    BY <1>0, <1>3, <1>n, <2>1 DEF Elapse, TypeOK, OpRec
<1>o. ASSUME NEW w \in writes, Land(w) PROVE TypeOK'
  <2>1. w.sid \in Sid /\ w.rec \in Rec /\ w.rec.sdk \in Conversation
    BY <1>0 DEF TypeOK, Rec
  <2>2. op' \in [Op -> OpRec]
    <3>1. \A p \in Op : [op[p] EXCEPT !.at = "done"] \in OpRec /\ op[p] \in OpRec
      BY <1>0 DEF OpRec
    <3> QED
      BY <1>o, <3>1 DEF Land
  <2>3. landed' \in [Sid -> SUBSET Conversation]
    BY <1>0, <1>o, <2>1 DEF Land, TypeOK
  <2>4. DOMAIN store' \subseteq Sid /\ \A s \in DOMAIN store' : store'[s] \in Rec
    BY <1>0, <1>o, <2>1 DEF Land, TypeOK
  <2> QED
    BY <1>0, <1>o, <2>2, <2>3, <2>4 DEF Land, TypeOK, OpRec
<1>p. CASE Reap
  <2>1. PICK s \in Idle : Popped(s) /\ stale' = Idle \ {s} /\ reaping' = mem[s]
    BY <1>p DEF Reap
  <2>2. s \in Sid /\ Idle \subseteq Sid
    BY <2>1 DEF Idle
  <2>3. inst' \in [1..Len(inst) -> Instance]
    BY <1>1, <2>1, <2>2, PoppedType
  <2>4. mem' \in [Sid -> 0..MaxInst] /\ reaping' \in 0..MaxInst /\ stale' \subseteq Sid
    BY <1>0, <2>1, <2>2, BoundsAssumption DEF Popped, TypeOK
  <2> QED
    BY <1>0, <1>3, <1>p, <2>3, <2>4 DEF Reap, TypeOK, OpRec
<1>q. CASE ReapNext
  <2>1. inst' \in [1..Len(inst) -> Instance]
    <3> DEFINE gone == [inst EXCEPT ![reaping].life = "closed"]
    <3>1. gone \in [1..Len(inst) -> Instance]
      BY <1>1, FieldType
    <3>2. \/ inst' = gone
          \/ \E s \in Sid : inst' = [gone EXCEPT ![mem[s]].life = "closing",
                                                 ![mem[s]].turn = FALSE]
      BY <1>0, <1>q DEF ReapNext, TypeOK
    <3> HIDE DEF gone
    <3>3. ASSUME NEW s \in Sid,
                 inst' = [gone EXCEPT ![mem[s]].life = "closing", ![mem[s]].turn = FALSE]
          PROVE  inst' \in [1..Len(inst) -> Instance]
      <4> DEFINE mid == [gone EXCEPT ![mem[s]].life = "closing"]
      <4>1. mid \in [1..Len(inst) -> Instance]
        BY <1>1, <3>1, FieldType
      <4>2. inst' = [mid EXCEPT ![mem[s]].turn = FALSE]
        BY <3>3
      <4> HIDE DEF mid
      <4> QED
        BY <1>1, <1>2, <4>1, <4>2, FieldType
    <3> QED
      BY <3>1, <3>2, <3>3
  <2>2. mem' \in [Sid -> 0..MaxInst] /\ reaping' \in 0..MaxInst /\ stale' \subseteq Sid
    <3>1. 0 \in 0..MaxInst /\ \A s \in Sid : mem[s] \in 0..MaxInst
      BY <1>0, BoundsAssumption DEF TypeOK
    <3>2. CASE mem' = mem /\ stale' = {} /\ reaping' = 0
      BY <1>0, <3>1, <3>2 DEF TypeOK
    <3>3. CASE \E s \in stale : /\ mem' = [mem EXCEPT ![s] = 0]
                                /\ stale' = stale \ {s}
                                /\ reaping' = mem[s]
      BY <1>0, <3>1, <3>3 DEF TypeOK
    <3> QED
      BY <1>q, <3>2, <3>3 DEF ReapNext
  <2> QED
    BY <1>0, <1>3, <1>q, <2>1, <2>2 DEF ReapNext, TypeOK, OpRec
<1>s. CASE Restart
  <2>1. inst' \in [1..Len(inst) -> Instance]
    BY <1>1, <1>2, <1>s DEF Restart, Instance
  <2>2. op' \in [Op -> OpRec]
    <3>1. \A p \in Op : [op[p] EXCEPT !.at = "done"] \in OpRec /\ op[p] \in OpRec
      BY <1>0 DEF OpRec
    <3> QED
      BY <1>s, <3>1 DEF Restart
  <2>0. 0 \in 0..MaxInst
    BY BoundsAssumption
  <2>3. mem' \in [Sid -> 0..MaxInst]
    <3>1. mem' = [s \in Sid |-> 0]
      BY <1>s DEF Restart
    <3> QED
      BY <2>0, <3>1
  <2>5. restarts' \in 0..MaxRestarts /\ reaping' \in 0..MaxInst
    <3>1. restarts < MaxRestarts /\ restarts' = restarts + 1 /\ reaping' = 0
      BY <1>s DEF Restart
    <3>2. restarts \in 0..MaxRestarts
      BY <1>0 DEF TypeOK
    <3> QED
      BY <2>0, <3>1, <3>2, BoundsAssumption
  <2> QED
    BY <1>0, <1>3, <1>s, <2>1, <2>2, <2>3, <2>5 DEF Restart, TypeOK, OpRec
<1>t. CASE UNCHANGED vars
  BY <1>0, <1>t DEF vars, TypeOK
<1> QED
  BY <1>a, <1>b, <1>c, <1>d, <1>e, <1>f, <1>g, <1>h, <1>i, <1>j, <1>k, <1>l, <1>m,
     <1>n, <1>o, <1>p, <1>q, <1>s, <1>t DEF Next, Handler

-----------------------------------------------------------------------------
(* Who is live and who is registered. *)

Shapes == ClosingShape /\ ReapingShape /\ RegisteredShape /\ OrphansAreDisplaced

\* Objects stay, with their ids, and none of them comes back to life.
Settled ==
  \A i \in DOMAIN inst :
    /\ i \in DOMAIN inst' /\ inst'[i].sid = inst[i].sid
    /\ inst'[i].life = "live" => inst[i].life = "live"

SameLife ==
  /\ DOMAIN inst' = DOMAIN inst
  /\ \A i \in DOMAIN inst : inst'[i].sid = inst[i].sid /\ inst'[i].life = inst[i].life

\* No request begins to close an object.
OpsKept ==
  \A o \in Op :
    /\ op'[o].at \in {"closing", "purge"} => op'[o].do = "delete"
    /\ op'[o].at = "closing" => op[o].at = "closing" /\ op'[o].of = op[o].of

LEMMA HoldersKept ==
  ASSUME Shapes, Settled
  PROVE  /\ OpsKept => ClosingShape'
         /\ reaping' = reaping => ReapingShape'
<1>1. OpsKept => ClosingShape'
  BY DEF Shapes, ClosingShape, Settled, OpsKept
<1>2. reaping' = reaping => ReapingShape'
  BY DEF Shapes, ReapingShape, Settled
<1> QED
  BY <1>1, <1>2

\* A step that registers nothing and ends nothing.
LEMMA QuietKeeps ==
  ASSUME Shapes, SameLife, OpsKept, mem' = mem, reaping' = reaping PROVE Shapes'
<1>1. Settled
  BY DEF SameLife, Settled
<1>2. ClosingShape' /\ ReapingShape'
  BY <1>1, HoldersKept
<1>3. RegisteredShape'
  BY DEF Shapes, RegisteredShape, SameLife
<1>4. OrphansAreDisplaced'
  BY DEF Shapes, OrphansAreDisplaced, SameLife
<1> QED
  BY <1>2, <1>3, <1>4 DEF Shapes

\* A new object takes the entry of its id.
LEMMA BuildKeeps ==
  ASSUME TypeOK, Shapes, OpsKept, reaping' = reaping,
         NEW s \in Sid, NEW rec \in Rec, Build(s, rec)
  PROVE  Shapes'
<1> DEFINE new == Len(inst) + 1
<1>1. /\ Len(inst) \in Nat /\ DOMAIN inst = 1..Len(inst)
      /\ DOMAIN inst' = 1..new
      /\ \A i \in DOMAIN inst : inst'[i] = inst[i]
      /\ inst'[new].sid = s /\ inst'[new].life = "live"
  <2>1. inst \in Seq(Instance) /\ inst' \in Seq(Instance) /\ Len(inst') = new
    BY BuildType DEF TypeOK
  <2> QED
    BY <2>1, BuildType, InstFun
<1>2. mem' = [mem EXCEPT ![s] = new] /\ mem \in [Sid -> 0..MaxInst]
  BY DEF Build, TypeOK
<1>3. Settled
  BY <1>1 DEF Settled
<1>4. ClosingShape' /\ ReapingShape'
  BY <1>3, HoldersKept
<1>5. RegisteredShape'
  BY <1>1, <1>2 DEF Shapes, RegisteredShape
<1>6. OrphansAreDisplaced'
  <2> SUFFICES ASSUME NEW i \in DOMAIN inst', inst'[i].life = "live",
                      mem'[inst'[i].sid] # i
               PROVE  \E j \in DOMAIN inst' : j > i /\ inst'[j].sid = inst'[i].sid
    BY DEF OrphansAreDisplaced
  <2>1. i \in DOMAIN inst
    BY <1>1, <1>2
  <2>2. CASE inst[i].sid = s
    BY <1>1, <2>1, <2>2
  <2>3. CASE inst[i].sid # s
    <3>1. mem[inst[i].sid] # i
      BY <1>1, <1>2, <2>1, <2>3
    <3>2. PICK j \in DOMAIN inst : j > i /\ inst[j].sid = inst[i].sid
      BY <1>1, <2>1, <3>1 DEF Shapes, OrphansAreDisplaced
    <3> QED
      BY <1>1, <2>1, <3>2
  <2> QED
    BY <2>2, <2>3
<1> QED
  BY <1>4, <1>5, <1>6 DEF Shapes

\* A registered object leaves the registry and is no longer live; an object
\* that was not live may change its life too.
LEMMA PopKeeps ==
  ASSUME TypeOK, Shapes, NEW s \in Sid, mem[s] # 0,
         mem' = [mem EXCEPT ![s] = 0],
         DOMAIN inst' = DOMAIN inst,
         \A i \in DOMAIN inst : inst'[i].sid = inst[i].sid,
         \A i \in DOMAIN inst : inst'[i].life = "live" <=> inst[i].life = "live" /\ i # mem[s]
  PROVE  /\ Settled /\ RegisteredShape' /\ OrphansAreDisplaced'
         /\ mem[s] \in DOMAIN inst' /\ inst'[mem[s]].life # "live"
<1>1. /\ mem[s] \in DOMAIN inst /\ inst[mem[s]].sid = s
      /\ mem \in [Sid -> 0..MaxInst]
      /\ \A t \in Sid : mem'[t] = IF t = s THEN 0 ELSE mem[t]
  BY DEF Shapes, RegisteredShape, TypeOK
<1>2. \A i \in DOMAIN inst : inst[i].sid \in Sid
  <2>1. inst \in [1..Len(inst) -> Instance] /\ DOMAIN inst = 1..Len(inst)
    BY InstFun DEF TypeOK
  <2> QED
    BY <2>1 DEF Instance
<1>3. Settled
  BY DEF Settled
<1>4. RegisteredShape'
  <2> SUFFICES ASSUME NEW t \in Sid, mem'[t] # 0
               PROVE  /\ mem'[t] \in DOMAIN inst' /\ inst'[mem'[t]].life = "live"
                      /\ inst'[mem'[t]].sid = t
    BY DEF RegisteredShape
  <2>1. t # s /\ mem'[t] = mem[t]
    BY <1>1
  <2>2. mem[t] \in DOMAIN inst /\ inst[mem[t]].life = "live" /\ inst[mem[t]].sid = t
    BY <2>1 DEF Shapes, RegisteredShape
  <2>3. mem[t] # mem[s]
    BY <1>1, <2>1, <2>2
  <2> QED
    BY <2>1, <2>2, <2>3
<1>5. OrphansAreDisplaced'
  <2> SUFFICES ASSUME NEW i \in DOMAIN inst, inst'[i].life = "live",
                      mem'[inst'[i].sid] # i
               PROVE  \E j \in DOMAIN inst : j > i /\ inst'[j].sid = inst'[i].sid
    BY DEF OrphansAreDisplaced
  <2>1. inst[i].life = "live" /\ i # mem[s] /\ inst'[i].sid = inst[i].sid
    OBVIOUS
  <2>2. mem[inst[i].sid] # i
    BY <1>1, <1>2, <2>1
  <2>3. PICK j \in DOMAIN inst : j > i /\ inst[j].sid = inst[i].sid
    BY <2>1, <2>2 DEF Shapes, OrphansAreDisplaced
  <2> QED
    BY <2>1, <2>3
<1> QED
  BY <1>1, <1>3, <1>4, <1>5

\* An object that was not live ends.
LEMMA EndKeeps ==
  ASSUME TypeOK, Shapes, OpsKept, mem' = mem, reaping' \in {reaping, 0},
         NEW n \in DOMAIN inst, inst[n].life # "live",
         inst' = [inst EXCEPT ![n].life = "closed"]
  PROVE  Shapes'
<1>1. DOMAIN inst = 1..Len(inst) /\ inst \in [1..Len(inst) -> Instance]
  BY InstFun DEF TypeOK
<1>2. /\ DOMAIN inst' = DOMAIN inst
      /\ \A i \in DOMAIN inst : inst'[i].sid = inst[i].sid
      /\ \A i \in DOMAIN inst : inst'[i].life = "live" <=> inst[i].life = "live"
  BY <1>1 DEF Instance
<1>3. Settled
  BY <1>2 DEF Settled
<1>4. ClosingShape' /\ ReapingShape'
  BY <1>3, HoldersKept DEF ReapingShape
<1>5. RegisteredShape'
  BY <1>2 DEF Shapes, RegisteredShape
<1>6. OrphansAreDisplaced'
  BY <1>2 DEF Shapes, OrphansAreDisplaced
<1> QED
  BY <1>4, <1>5, <1>6 DEF Shapes

LEMMA ShapeStep == IInv /\ [Next]_vars => Shapes'
<1> SUFFICES ASSUME IInv, [Next]_vars PROVE Shapes'
  OBVIOUS
<1>0. /\ TypeOK /\ Shapes
      /\ op \in [Op -> OpRec] /\ mem \in [Sid -> 0..MaxInst]
      /\ DOMAIN inst = 1..Len(inst) /\ inst \in [1..Len(inst) -> Instance]
  BY InstFun DEF IInv, Shapes, TypeOK, OpRec
<1>1. \A o \in Op : op[o].at \in {"closing", "purge"} => op[o].do = "delete"
  BY <1>0 DEF Shapes, ClosingShape
<1>a. ASSUME NEW o \in Op, NEW s \in Sid, NEW m \in Mode, Create(o, s, m) PROVE Shapes'
  <2> DEFINE rec == [sdk |-> 0, mode |-> m]
  <2>1. rec \in Rec
    BY BoundsAssumption DEF Rec, Conversation
  <2>2. Build(s, rec) /\ reaping' = reaping
    BY <1>a DEF Create
  <2>3. OpsKept
    BY <1>0, <1>1, <1>a DEF Create, OpsKept
  <2> HIDE DEF rec
  <2> QED
    BY <1>0, <2>1, <2>2, <2>3, BuildKeeps
<1>b. ASSUME NEW o \in Op, NEW s \in Sid, NEW m \in Mode, NEW k \in {"use", "mode"},
             Hit(o, s, k, m)
      PROVE  Shapes'
  <2>1. OpsKept
    BY <1>0, <1>1, <1>b DEF Hit, OpsKept
  <2>2. SameLife /\ mem' = mem /\ reaping' = reaping
    BY <1>0, <1>b DEF Hit, SameLife, Instance
  <2> QED
    BY <1>0, <2>1, <2>2, QuietKeeps
<1>c. ASSUME NEW o \in Op, NEW s \in Sid, NEW m \in Mode, NEW k \in {"use", "mode"},
             Miss(o, s, k, m)
      PROVE  Shapes'
  <2>1. OpsKept
    BY <1>0, <1>1, <1>c DEF Miss, OpsKept
  <2>2. SameLife /\ mem' = mem /\ reaping' = reaping
    BY <1>c DEF Miss, SameLife
  <2> QED
    BY <1>0, <2>1, <2>2, QuietKeeps
<1>d. ASSUME NEW o \in Op, NEW s \in Sid, Delete(o, s) PROVE Shapes'
  <2>1. /\ mem[s] # 0 /\ mem' = [mem EXCEPT ![s] = 0] /\ reaping' = reaping
        /\ inst' = [inst EXCEPT ![mem[s]].life = "closing", ![mem[s]].turn = FALSE]
    BY <1>d DEF Delete, Popped
  <2>2. /\ DOMAIN inst' = DOMAIN inst
        /\ \A i \in DOMAIN inst : inst'[i].sid = inst[i].sid
        /\ \A i \in DOMAIN inst :
             inst'[i].life = "live" <=> inst[i].life = "live" /\ i # mem[s]
    BY <1>0, <2>1 DEF Instance
  <2>3. /\ Settled /\ RegisteredShape' /\ OrphansAreDisplaced'
        /\ mem[s] \in DOMAIN inst' /\ inst'[mem[s]].life # "live"
    BY <1>0, <2>1, <2>2, PopKeeps
  <2>4. ClosingShape'
    <3>1. op'[o].do = "delete" /\ op'[o].of = mem[s]
      BY <1>0, <1>d DEF Delete, OpRec
    <3>2. \A p \in Op \ {o} : op'[p] = op[p]
      BY <1>0, <1>d DEF Delete
    <3> QED
      BY <1>0, <2>3, <3>1, <3>2 DEF Shapes, ClosingShape, Settled
  <2>5. ReapingShape'
    BY <1>0, <2>1, <2>3, HoldersKept
  <2> QED
    BY <2>3, <2>4, <2>5 DEF Shapes
<1>e. ASSUME NEW o \in Op, NEW s \in Sid, DeleteCold(o, s) PROVE Shapes'
  <2>1. OpsKept
    BY <1>0, <1>1, <1>e DEF DeleteCold, OpsKept
  <2>2. SameLife /\ mem' = mem /\ reaping' = reaping
    BY <1>e DEF DeleteCold, SameLife
  <2> QED
    BY <1>0, <2>1, <2>2, QuietKeeps
<1>f. ASSUME NEW o \in Op, Load(o) PROVE Shapes'
  <2>1. OpsKept
    <3>1. CASE op' = [op EXCEPT ![o] = [@ EXCEPT !.at = "build", !.seen = store[op[o].sid]]]
      BY <1>0, <1>1, <3>1 DEF OpsKept
    <3>2. CASE op' = [op EXCEPT ![o].at = "done"]
      BY <1>0, <1>1, <3>2 DEF OpsKept
    <3> QED
      BY <1>f, <3>1, <3>2 DEF Load
  <2>2. SameLife /\ mem' = mem /\ reaping' = reaping
    BY <1>f DEF Load, SameLife
  <2> QED
    BY <1>0, <2>1, <2>2, QuietKeeps
<1>g. ASSUME NEW o \in Op, Resume(o) PROVE Shapes'
  <2>1. op[o].sid \in Sid /\ op[o].seen \in Rec
    BY <1>0 DEF OpRec
  <2>2. Build(op[o].sid, op[o].seen) /\ reaping' = reaping
    BY <1>g DEF Resume
  <2>3. OpsKept
    BY <1>0, <1>1, <1>g DEF Resume, OpsKept
  <2> QED
    BY <1>0, <2>1, <2>2, <2>3, BuildKeeps
<1>h. ASSUME NEW o \in Op, Use(o) PROVE Shapes'
  <2>1. OpsKept
    BY <1>0, <1>1, <1>h DEF Use, OpsKept
  <2>2. SameLife /\ mem' = mem /\ reaping' = reaping
    BY <1>0, <1>h DEF Use, SameLife, Instance
  <2> QED
    BY <1>0, <2>1, <2>2, QuietKeeps
<1>i. ASSUME NEW i \in 1..MaxInst, Result(i) PROVE Shapes'
  <2>1. OpsKept
    BY <1>1, <1>i DEF Result, OpsKept
  <2>2. SameLife /\ mem' = mem /\ reaping' = reaping
    BY <1>0, <1>i DEF Result, SameLife, Instance
  <2> QED
    BY <1>0, <2>1, <2>2, QuietKeeps
<1>j. ASSUME NEW o \in Op, SetMode(o) PROVE Shapes'
  <2>1. OpsKept
    <3>1. CASE op' = [op EXCEPT ![o].at = "modeload"]
      BY <1>0, <1>1, <3>1 DEF OpsKept
    <3>2. CASE op' = [op EXCEPT ![o].at = "done"]
      BY <1>0, <1>1, <3>2 DEF OpsKept
    <3> QED
      BY <1>j, <3>1, <3>2 DEF SetMode
  <2>2. SameLife /\ mem' = mem /\ reaping' = reaping
    BY <1>0, <1>j DEF SetMode, SameLife, Instance
  <2> QED
    BY <1>0, <2>1, <2>2, QuietKeeps
<1>k. ASSUME NEW o \in Op, ModeLoad(o) PROVE Shapes'
  <2>1. OpsKept
    <3>1. CASE op' = [op EXCEPT ![o].at = "saving"]
      BY <1>0, <1>1, <3>1 DEF OpsKept
    <3>2. CASE op' = [op EXCEPT ![o].at = "done"]
      BY <1>0, <1>1, <3>2 DEF OpsKept
    <3> QED
      BY <1>k, <3>1, <3>2 DEF ModeLoad
  <2>2. SameLife /\ mem' = mem /\ reaping' = reaping
    BY <1>k DEF ModeLoad, SameLife
  <2> QED
    BY <1>0, <2>1, <2>2, QuietKeeps
<1>l. ASSUME NEW o \in Op, DeleteClosed(o) PROVE Shapes'
  <2>1. op[o].of \in DOMAIN inst /\ inst[op[o].of].life # "live"
    BY <1>0, <1>l DEF DeleteClosed, Shapes, ClosingShape
  <2>2. /\ inst' = [inst EXCEPT ![op[o].of].life = "closed"]
        /\ mem' = mem /\ reaping' = reaping
    BY <1>l DEF DeleteClosed, Closed
  <2>3. OpsKept
    BY <1>0, <1>1, <1>l DEF DeleteClosed, OpsKept
  <2> QED
    BY <1>0, <2>1, <2>2, <2>3, EndKeeps
<1>m. ASSUME NEW o \in Op, Purge(o) PROVE Shapes'
  <2>1. OpsKept
    BY <1>0, <1>1, <1>m DEF Purge, OpsKept
  <2>2. SameLife /\ mem' = mem /\ reaping' = reaping
    BY <1>m DEF Purge, SameLife
  <2> QED
    BY <1>0, <2>1, <2>2, QuietKeeps
<1>n. ASSUME NEW i \in 1..MaxInst, Elapse(i) PROVE Shapes'
  <2>1. OpsKept
    BY <1>1, <1>n DEF Elapse, OpsKept
  <2>2. SameLife /\ mem' = mem /\ reaping' = reaping
    BY <1>0, <1>n DEF Elapse, SameLife, Instance
  <2> QED
    BY <1>0, <2>1, <2>2, QuietKeeps
<1>o. ASSUME NEW w \in writes, Land(w) PROVE Shapes'
  <2>1. OpsKept
    BY <1>0, <1>1, <1>o DEF Land, OpsKept, OpRec
  <2>2. SameLife /\ mem' = mem /\ reaping' = reaping
    BY <1>o DEF Land, SameLife
  <2> QED
    BY <1>0, <2>1, <2>2, QuietKeeps
<1>p. CASE Reap
  <2>1. PICK s \in Idle : Popped(s) /\ reaping' = mem[s]
    BY <1>p DEF Reap
  <2>2. /\ s \in Sid /\ mem[s] # 0 /\ mem' = [mem EXCEPT ![s] = 0]
        /\ inst' = [inst EXCEPT ![mem[s]].life = "closing", ![mem[s]].turn = FALSE]
    BY <2>1 DEF Idle, Popped
  <2>3. /\ DOMAIN inst' = DOMAIN inst
        /\ \A i \in DOMAIN inst : inst'[i].sid = inst[i].sid
        /\ \A i \in DOMAIN inst :
             inst'[i].life = "live" <=> inst[i].life = "live" /\ i # mem[s]
    BY <1>0, <2>2 DEF Instance
  <2>4. /\ Settled /\ RegisteredShape' /\ OrphansAreDisplaced'
        /\ mem[s] \in DOMAIN inst' /\ inst'[mem[s]].life # "live"
    BY <1>0, <2>2, <2>3, PopKeeps
  <2>5. OpsKept
    BY <1>1, <1>p DEF Reap, OpsKept
  <2>6. ClosingShape' /\ ReapingShape'
    BY <1>0, <2>1, <2>4, <2>5, HoldersKept DEF ReapingShape
  <2> QED
    BY <2>4, <2>6 DEF Shapes
<1>q. CASE ReapNext
  <2>0. reaping \in DOMAIN inst /\ inst[reaping].life # "live"
    BY <1>0, <1>q DEF ReapNext, Shapes, ReapingShape
  <2> DEFINE gone == [inst EXCEPT ![reaping].life = "closed"]
  <2>1. OpsKept
    BY <1>1, <1>q DEF ReapNext, OpsKept
  <2>2. CASE inst' = gone /\ reaping' = 0 /\ mem' = mem
    BY <1>0, <2>0, <2>1, <2>2, EndKeeps
  <2>3. ASSUME NEW s \in stale, mem[s] # 0,
               mem' = [mem EXCEPT ![s] = 0], reaping' = mem[s],
               inst' = [gone EXCEPT ![mem[s]].life = "closing", ![mem[s]].turn = FALSE]
        PROVE  Shapes'
    <3>1. s \in Sid
      BY <1>0, <2>3 DEF TypeOK
    <3>2. /\ DOMAIN inst' = DOMAIN inst
          /\ \A i \in DOMAIN inst : inst'[i].sid = inst[i].sid
          /\ \A i \in DOMAIN inst :
               inst'[i].life = "live" <=> inst[i].life = "live" /\ i # mem[s]
      <4>1. /\ gone \in [1..Len(inst) -> Instance]
            /\ \A i \in 1..Len(inst) : gone[i].sid = inst[i].sid
            /\ \A i \in 1..Len(inst) : gone[i].life = "live" <=> inst[i].life = "live"
        BY <1>0, <2>0 DEF Instance
      <4>2. mem[s] \in 1..Len(inst)
        BY <1>0, <2>3, <3>1 DEF Shapes, RegisteredShape
      <4>3. inst' = [gone EXCEPT ![mem[s]].life = "closing", ![mem[s]].turn = FALSE]
        BY <2>3
      <4> HIDE DEF gone
      <4>4. FALSE \in BOOLEAN
        BY Zenon
      <4> QED
        BY <1>0, <4>1, <4>2, <4>3, <4>4 DEF Instance
    <3>3. /\ Settled /\ RegisteredShape' /\ OrphansAreDisplaced'
          /\ mem[s] \in DOMAIN inst' /\ inst'[mem[s]].life # "live"
      BY <1>0, <2>3, <3>1, <3>2, PopKeeps
    <3>4. ClosingShape' /\ ReapingShape'
      BY <1>0, <2>1, <2>3, <3>3, HoldersKept DEF ReapingShape
    <3> QED
      BY <3>3, <3>4 DEF Shapes
  <2> QED
    BY <1>q, <2>2, <2>3 DEF ReapNext
<1>s. CASE Restart
  <2>1. \A s \in Sid : mem'[s] = 0
    BY <1>s DEF Restart
  <2>2. \A i \in DOMAIN inst' : inst'[i].life = "closed"
    BY <1>0, <1>s DEF Restart, Instance
  <2>3. \A o \in Op : op'[o].at \in {"idle", "done"}
    BY <1>0, <1>s DEF Restart, OpRec
  <2>4. reaping' = 0
    BY <1>s DEF Restart
  <2> QED
    BY <2>1, <2>2, <2>3, <2>4
    DEF Shapes, ClosingShape, ReapingShape, RegisteredShape, OrphansAreDisplaced
<1>t. CASE UNCHANGED vars
  <2>1. OpsKept /\ SameLife /\ mem' = mem /\ reaping' = reaping
    BY <1>1, <1>t DEF vars, OpsKept, SameLife
  <2> QED
    BY <1>0, <2>1, QuietKeeps
<1> QED
  BY <1>a, <1>b, <1>c, <1>d, <1>e, <1>f, <1>g, <1>h, <1>i, <1>j, <1>k, <1>l, <1>m,
     <1>n, <1>o, <1>p, <1>q, <1>s, <1>t DEF Next, Handler

-----------------------------------------------------------------------------
(* The theorems. *)

\* Everything below follows from this invariant (all of Registry).
THEOREM RegistryInvariant == Spec => []IInv
<1>1. IInv /\ [Next]_vars => IInv'
  BY TypeStep, ShapeStep DEF IInv, Shapes
<1> QED
  BY <1>1, InitInv, PTL DEF Spec

\* Every variable of the registry, its store and its requests keeps its type.
THEOREM RegistryTypeOK == Spec => []TypeOK
<1>1. IInv => TypeOK
  BY DEF IInv
<1> QED
  BY <1>1, RegistryInvariant, PTL

\* get() and get_or_resume() never return a session that remove() is closing:
\* the pop and the start of close() are not separated by an await.
THEOREM FoundIsLive == Spec => []RegisteredIsLive
<1>1. IInv => RegisteredIsLive
  BY DEF IInv, RegisteredShape, RegisteredIsLive
<1> QED
  BY <1>1, RegistryInvariant, PTL

\* No interleaving of creation, removal, reaping and restarts leaves a live
\* session behind that nobody knows, but the double resumption of
\* get_or_resume().
THEOREM OnlyDisplacedAreOrphans == Spec => []OrphansAreDisplaced
<1>1. IInv => OrphansAreDisplaced
  BY DEF IInv
<1> QED
  BY <1>1, RegistryInvariant, PTL

\* A metadata file disappears in no step but the last one of a DELETE: not when
\* the reaper removes the session, nor when the process dies.
THEOREM MetadataSurvives == Spec => OnlyDeletePurges
<1> DEFINE Kept == \A s \in DOMAIN store : s \notin DOMAIN store' =>
             \E o \in Op : op[o].do = "delete" /\ op[o].sid = s /\ op'[o].at = "done"
<1>1. IInv /\ [Next]_vars => [Kept]_vars
  <2> SUFFICES ASSUME IInv, Next PROVE Kept
    BY DEF vars
  <2>1. ASSUME NEW o \in Op, Purge(o) PROVE Kept
    <3>1. op[o].do = "delete"
      BY <2>1 DEF Purge, IInv, ClosingShape
    <3>2. op \in [Op -> OpRec]
      BY DEF IInv, TypeOK, OpRec
    <3>3. op'[o].at = "done" /\ DOMAIN store' = DOMAIN store \ {op[o].sid}
      BY <2>1, <3>2 DEF Purge, OpRec
    <3> QED
      BY <3>1, <3>3
  <2>2. ASSUME NEW w \in writes, Land(w) PROVE Kept
    BY <2>2 DEF Land
  <2>3. CASE store' = store
    BY <2>3
  <2>4. ASSUME NEW o \in Op, Handler(o) PROVE Purge(o) \/ store' = store
    <3>1. ASSUME NEW s \in Sid, Delete(o, s) \/ DeleteCold(o, s)
          PROVE  store' = store
      BY <3>1, Zenon DEF Delete, DeleteCold
    <3>2. ASSUME NEW s \in Sid, NEW m \in Mode, NEW k \in {"use", "mode"},
                 Create(o, s, m) \/ Hit(o, s, k, m) \/ Miss(o, s, k, m)
          PROVE  store' = store
      BY <3>2, Zenon DEF Create, Hit, Miss
    <3>5. ASSUME NEW s \in Sid, NEW m \in Mode, Create(o, s, m)
          PROVE  store' = store
      BY <3>5, Zenon DEF Create
    <3>3. CASE Load(o) \/ Resume(o) \/ Use(o) \/ SetMode(o)
      BY <3>3, Zenon DEF Load, Resume, Use, SetMode
    <3>4. CASE ModeLoad(o) \/ DeleteClosed(o)
      BY <3>4, Zenon DEF ModeLoad, DeleteClosed
    <3> QED
      BY <2>4, <3>1, <3>2, <3>3, <3>4, <3>5, Zenon DEF Handler
  <2>5. ASSUME NEW i \in 1..MaxInst, Elapse(i) \/ Result(i) PROVE store' = store
    BY <2>5, Zenon DEF Elapse, Result
  <2>6. CASE Reap \/ ReapNext \/ Restart
    BY <2>6, Zenon DEF Reap, ReapNext, Restart
  <2> QED
    BY <2>1, <2>2, <2>3, <2>4, <2>5, <2>6 DEF Next
<1> QED
  BY <1>1, RegistryInvariant, PTL DEF Spec, OnlyDeletePurges

-----------------------------------------------------------------------------
(* The registry implements a directory of sessions.  Whatever names a      *)
(* conversation, a file, a save under way, or what a request has read,     *)
(* names one that was begun under the same id: it stays so, as an object   *)
(* keeps its id and its conversation once it has one.                      *)

TalkOf(x) == IF x.resume = 0 THEN x.sdk ELSE x.resume

\* Among the objects q there is one of s; c is nothing yet, or was begun under s.
Of(q, s) == \E i \in DOMAIN q : q[i].sid = s
Mine(q, s, c) == c = 0 \/ \E i \in DOMAIN q : q[i].sid = s /\ TalkOf(q[i]) = c

OwnTalk == \A i \in DOMAIN inst : inst[i].resume = 0 => inst[i].sdk \in {0, i}

StoreTalks == \A s \in DOMAIN store : Of(inst, s) /\ Mine(inst, s, store[s].sdk)

\* The save w: what it names, and that whoever asked for it only waits.
WriteTalks(q, f, w) ==
  /\ Of(q, w.sid) /\ Mine(q, w.sid, w.rec.sdk)
  /\ w.by \in Op => f[w.by].at \in {"saving", "done"}

OpTalks(q, r) ==
  /\ r.at # "idle" => Of(q, r.sid)
  /\ r.at = "build" => Mine(q, r.sid, r.seen.sdk)

TalkShape ==
  /\ OwnTalk /\ StoreTalks
  /\ \A w \in writes : WriteTalks(inst, op, w)
  /\ \A o \in Op : OpTalks(inst, op[o])

\* Objects are added, with their ids, and begin a conversation once.
Grows ==
  \A i \in DOMAIN inst :
    /\ i \in DOMAIN inst' /\ inst'[i].sid = inst[i].sid
    /\ TalkOf(inst[i]) # 0 => TalkOf(inst'[i]) = TalkOf(inst[i])

SameTalk ==
  /\ DOMAIN inst' = DOMAIN inst
  /\ \A i \in DOMAIN inst :
       /\ inst'[i].sid = inst[i].sid
       /\ inst'[i].resume = inst[i].resume /\ inst'[i].sdk = inst[i].sdk

\* What was begun under an id stays begun under it.
LEMMA MineStays ==
  ASSUME Grows, NEW s, NEW c
  PROVE  /\ Of(inst, s) => Of(inst', s)
         /\ Mine(inst, s, c) => Mine(inst', s, c)
<1>1. Of(inst, s) => Of(inst', s)
  BY DEF Of, Grows
<1>2. Mine(inst, s, c) => Mine(inst', s, c)
  BY DEF Mine, Grows
<1> QED
  BY <1>1, <1>2

\* Objects that keep what they talk about.
LEMMA SameTalkGrows ==
  ASSUME SameTalk, OwnTalk
  PROVE  Grows /\ OwnTalk' /\ Talk' = Talk /\ Owner' = Owner
BY DEF SameTalk, Grows, OwnTalk, Talk, TalkOf, Owner

\* One request has moved, from where nothing is saved for it.
OpMoved(o) ==
  /\ op[o].at \notin {"saving", "done"}
  /\ \A p \in Op \ {o} : op'[p] = op[p]

NewWrites == \A w \in writes' : w \in writes \/ WriteTalks(inst', op', w)
NewStore ==
  \A s \in DOMAIN store' :
    \/ s \in DOMAIN store /\ store'[s] = store[s]
    \/ Of(inst', s) /\ Mine(inst', s, store'[s].sdk)

\* What a step leaves alone goes on naming what it named.
LEMMA TalkKeeps ==
  ASSUME TalkShape, Grows, OwnTalk', NewWrites, NewStore,
         \A o \in Op : op[o].at \in {"saving", "done"} =>
                         op'[o].at \in {"saving", "done"},
         \A o \in Op : op'[o] = op[o] \/ OpTalks(inst', op'[o])
  PROVE  TalkShape'
<1>1. StoreTalks'
  BY MineStays DEF TalkShape, StoreTalks, NewStore
<1>2. ASSUME NEW w \in writes' PROVE WriteTalks(inst', op', w)
  <2>1. CASE w \in writes
    <3>1. WriteTalks(inst, op, w)
      BY <2>1 DEF TalkShape
    <3> QED
      BY <3>1, MineStays DEF WriteTalks
  <2> QED
    BY <1>2, <2>1 DEF NewWrites
<1>3. ASSUME NEW o \in Op PROVE OpTalks(inst', op'[o])
  <2>1. CASE op'[o] = op[o]
    <3>1. OpTalks(inst, op[o])
      BY DEF TalkShape
    <3> QED
      BY <2>1, <3>1, MineStays DEF OpTalks
  <2> QED
    BY <1>3, <2>1
<1> QED
  BY <1>1, <1>2, <1>3 DEF TalkShape

\* The same for a step of one request.
LEMMA MoveKeeps ==
  ASSUME TalkShape, Grows, OwnTalk', NewWrites, NewStore,
         NEW o \in Op, OpMoved(o), OpTalks(inst', op'[o])
  PROVE  TalkShape'
<1>1. \A p \in Op : op'[p] = op[p] \/ OpTalks(inst', op'[p])
  BY DEF OpMoved
<1>2. \A p \in Op : op[p].at \in {"saving", "done"} => op'[p].at \in {"saving", "done"}
  BY DEF OpMoved
<1> QED
  BY <1>1, <1>2, TalkKeeps

\* What a new object is.
LEMMA BuildTalk ==
  ASSUME TypeOK, NEW s \in Sid, NEW rec \in Rec, Build(s, rec)
  PROVE  LET new == Len(inst) + 1 IN
         /\ new \in (1..MaxInst) \ DOMAIN inst
         /\ DOMAIN inst' = DOMAIN inst \cup {new}
         /\ \A i \in DOMAIN inst : inst'[i] = inst[i]
         /\ inst'[new].sid = s /\ inst'[new].life = "live"
         /\ inst'[new].resume = rec.sdk /\ inst'[new].sdk = 0
         /\ mem' = [mem EXCEPT ![s] = new]
<1> DEFINE r == [sid |-> s, life |-> "live", mode |-> rec.mode, resume |-> rec.sdk,
                 sdk |-> 0, turn |-> FALSE, idle |-> FALSE]
<1>1. FALSE \in BOOLEAN
  BY Zenon
<1>2. r \in Instance
  BY <1>1, BoundsAssumption DEF Instance, Rec, Conversation
<1>3. inst' = Append(inst, r) /\ inst \in Seq(Instance)
      /\ mem' = [mem EXCEPT ![s] = Len(inst) + 1]
  BY DEF Build, TypeOK
<1>4. r.sid = s /\ r.life = "live" /\ r.resume = rec.sdk /\ r.sdk = 0
  OBVIOUS
<1> HIDE DEF r
<1>5. /\ inst' \in Seq(Instance) /\ Len(inst') = Len(inst) + 1
      /\ \A i \in 1..Len(inst) : inst'[i] = inst[i]
      /\ inst'[Len(inst) + 1] = r
  BY <1>2, <1>3, AppendProperties
<1>6. /\ Len(inst) \in Nat /\ DOMAIN inst = 1..Len(inst)
      /\ DOMAIN inst' = 1..(Len(inst) + 1)
  BY <1>3, <1>5, InstFun
<1>7. Len(inst) + 1 \in 1..MaxInst
  BY BuildType
<1>8. Len(inst) + 1 \notin DOMAIN inst /\ DOMAIN inst' = DOMAIN inst \cup {Len(inst) + 1}
  BY <1>6
<1> QED
  BY <1>3, <1>4, <1>5, <1>6, <1>7, <1>8

\* What a new object leaves and adds.
LEMMA BuildGrows ==
  ASSUME TypeOK, OwnTalk, NEW s \in Sid, NEW rec \in Rec, Build(s, rec)
  PROVE  Grows /\ OwnTalk' /\ Of(inst', s)
<1> DEFINE new == Len(inst) + 1
<1>1. /\ DOMAIN inst' = DOMAIN inst \cup {new}
      /\ \A i \in DOMAIN inst : inst'[i] = inst[i]
      /\ inst'[new].sid = s /\ inst'[new].sdk = 0
  BY BuildTalk
<1> HIDE DEF new
<1>2. Grows
  BY <1>1 DEF Grows
<1>3. OwnTalk'
  BY <1>1 DEF OwnTalk
<1>4. Of(inst', s)
  BY <1>1 DEF Of
<1> QED
  BY <1>2, <1>3, <1>4

\* What Known, a file and a request tell of a session.
LEMMA KnownOwned == ASSUME NEW s \in Known PROVE Of(inst, s) /\ s \in Used
BY DEF Known, Used, Of

\* A request takes up a session it knows.
LEMMA TakesUp ==
  ASSUME TypeOK, NEW o \in Op, NEW r \in OpRec, op' = [op EXCEPT ![o] = r],
         op[o].at \notin {"saving", "done"},
         r.at # "build", Of(inst', r.sid)
  PROVE  OpMoved(o) /\ OpTalks(inst', op'[o])
<1>1. op \in [Op -> OpRec]
  BY DEF TypeOK, OpRec
<1>2. op'[o] = r /\ \A p \in Op \ {o} : op'[p] = op[p]
  BY <1>1
<1> QED
  BY <1>2 DEF OpMoved, OpTalks

\* A request goes on with the session it has.
LEMMA GoesOn ==
  ASSUME TypeOK, TalkShape, Grows, NEW o \in Op,
         NEW a \in {"load", "act", "modeload", "saving", "closing", "purge", "done"},
         op' = [op EXCEPT ![o].at = a], op[o].at \notin {"idle", "saving", "done"}
  PROVE  OpMoved(o) /\ OpTalks(inst', op'[o])
<1>1. op \in [Op -> OpRec]
  BY DEF TypeOK, OpRec
<1>2. /\ op'[o].at = a /\ op'[o].sid = op[o].sid
      /\ \A p \in Op \ {o} : op'[p] = op[p]
  BY <1>1 DEF OpRec
<1>3. Of(inst, op[o].sid)
  BY DEF TalkShape, OpTalks
<1>4. Of(inst', op[o].sid)
  BY <1>3, MineStays
<1> QED
  BY <1>2, <1>4 DEF OpMoved, OpTalks

\* A step of a request that saves nothing, on objects that talk as before.
LEMMA QuietTalk ==
  ASSUME TalkShape, SameTalk, NEW o \in Op, OpMoved(o), OpTalks(inst', op'[o]),
         writes' = writes, store' = store
  PROVE  TalkShape'
<1>1. OwnTalk
  BY DEF TalkShape
<1>2. Grows /\ OwnTalk'
  BY <1>1, SameTalkGrows
<1>3. NewWrites /\ NewStore
  BY DEF NewWrites, NewStore
<1> QED
  BY <1>2, <1>3, MoveKeeps

\* And one of nobody.
LEMMA NobodysTalk ==
  ASSUME TalkShape, SameTalk, UNCHANGED <<op, writes, store>>
  PROVE  TalkShape'
<1>1. OwnTalk
  BY DEF TalkShape
<1>2. Grows /\ OwnTalk'
  BY <1>1, SameTalkGrows
<1>3. NewWrites /\ NewStore
  BY DEF NewWrites, NewStore
<1> QED
  BY <1>2, <1>3, TalkKeeps

\* An object whose life or turn changes talks as before.
LEMMA FieldTalk ==
  ASSUME NEW n \in Nat, NEW f \in [1..n -> Instance], NEW i, NEW v
  PROVE  /\ DOMAIN [f EXCEPT ![i].life = v] = 1..n
         /\ \A j \in 1..n : /\ [f EXCEPT ![i].life = v][j].sid = f[j].sid
                            /\ [f EXCEPT ![i].life = v][j].resume = f[j].resume
                            /\ [f EXCEPT ![i].life = v][j].sdk = f[j].sdk
<1>1. DOMAIN [f EXCEPT ![i].life = v] = 1..n
  OBVIOUS
<1>2. ASSUME NEW j \in 1..n
      PROVE  /\ [f EXCEPT ![i].life = v][j].sid = f[j].sid
             /\ [f EXCEPT ![i].life = v][j].resume = f[j].resume
             /\ [f EXCEPT ![i].life = v][j].sdk = f[j].sdk
  <2>1. f[j] \in Instance
    BY <1>2
  <2>2. [f EXCEPT ![i].life = v][j] = f[j] \/ [f EXCEPT ![i].life = v][j] = [f[j] EXCEPT !.life = v]
    BY <1>2
  <2> QED
    BY <2>1, <2>2 DEF Instance
<1> QED
  BY <1>1, <1>2

\* A session popped talks as before.
LEMMA PoppedTalk ==
  ASSUME TypeOK, NEW s \in Sid, Popped(s)
  PROVE  SameTalk
<1>1. DOMAIN inst = 1..Len(inst) /\ inst \in [1..Len(inst) -> Instance]
  BY InstFun DEF TypeOK
<1>2. inst' = [inst EXCEPT ![mem[s]].life = "closing", ![mem[s]].turn = FALSE]
  BY DEF Popped
<1>3. /\ DOMAIN inst' = 1..Len(inst)
      /\ \A j \in 1..Len(inst) :
           /\ inst'[j].sid = inst[j].sid
           /\ inst'[j].resume = inst[j].resume /\ inst'[j].sdk = inst[j].sdk
  BY <1>1, <1>2 DEF Instance
<1> QED
  BY <1>1, <1>3 DEF SameTalk

\* Every step keeps what is named about conversations.
LEMMA TalkStep ==
  ASSUME IInv, TalkShape, [Next]_vars
  PROVE  TalkShape'
<1>0. /\ TypeOK /\ OwnTalk /\ StoreTalks
      /\ op \in [Op -> OpRec]
      /\ DOMAIN inst = 1..Len(inst) /\ inst \in [1..Len(inst) -> Instance]
      /\ Len(inst) \in Nat
  BY InstFun DEF IInv, TypeOK, OpRec, TalkShape
<1>a. ASSUME NEW o \in Op, NEW s \in Sid, NEW m \in Mode, Create(o, s, m) PROVE TalkShape'
  <2> DEFINE rec == [sdk |-> 0, mode |-> m]
             r == [op[o] EXCEPT !.at = "saving", !.do = "create", !.sid = s]
  <2>1. rec \in Rec /\ rec.sdk = 0
    BY BoundsAssumption DEF Rec, Conversation
  <2>2. /\ Build(s, rec) /\ Save(s, rec, o)
        /\ op[o].at = "idle" /\ op' = [op EXCEPT ![o] = r] /\ store' = store
    BY <1>a DEF Create
  <2>3. op[o] \in OpRec /\ "create" \in Do
    BY <1>0 DEF Do
  <2>4. r \in OpRec
    BY <2>3, RecPut
  <2>5. r.at = "saving" /\ r.sid = s
    BY <2>3 DEF OpRec
  <2> HIDE DEF rec, r
  <2>6. Grows /\ OwnTalk' /\ Of(inst', s)
    BY <1>0, <2>1, <2>2, BuildGrows
  <2>7. OpMoved(o) /\ OpTalks(inst', op'[o])
    BY <1>0, <2>2, <2>4, <2>5, <2>6, TakesUp
  <2>8. NewStore
    BY <2>2 DEF NewStore
  <2>9. NewWrites
    <3> DEFINE w == [sid |-> s, rec |-> rec, by |-> o]
    <3>1. w.sid = s /\ w.rec.sdk = 0 /\ w.by = o
      BY <2>1
    <3>2. writes' = writes \cup {w}
      BY <2>2 DEF Save
    <3>3. op'[o].at = "saving"
      BY <1>0, <2>2, <2>5
    <3> HIDE DEF w
    <3>4. WriteTalks(inst', op', w)
      BY <2>6, <3>1, <3>3 DEF WriteTalks, Mine
    <3> QED
      BY <3>2, <3>4 DEF NewWrites
  <2> QED
    BY <2>6, <2>7, <2>8, <2>9, MoveKeeps
<1>b. ASSUME NEW o \in Op, NEW s \in Sid, NEW m \in Mode, NEW k \in {"use", "mode"},
             Hit(o, s, k, m)
      PROVE  TalkShape'
  <2> DEFINE r == [op[o] EXCEPT !.at = "act", !.do = k, !.sid = s, !.of = mem[s], !.mode = m]
  <2>1. /\ op[o].at = "idle" /\ s \in Known /\ op' = [op EXCEPT ![o] = r]
        /\ inst' = [inst EXCEPT ![mem[s]].idle = FALSE] /\ writes' = writes /\ store' = store
    BY <1>b DEF Hit
  <2>2. op[o] \in OpRec /\ k \in Do /\ mem[s] \in 0..MaxInst
    BY <1>0 DEF Do, TypeOK
  <2>3. r \in OpRec
    BY <2>2, RecPut
  <2>4. r.at = "act" /\ r.sid = s
    BY <2>2 DEF OpRec
  <2> HIDE DEF r
  <2>5. SameTalk
    BY <1>0, <2>1 DEF SameTalk, Instance
  <2>6. Of(inst', s)
    BY <1>0, <2>1, <2>5, KnownOwned, SameTalkGrows, MineStays
  <2>7. OpMoved(o) /\ OpTalks(inst', op'[o])
    BY <1>0, <2>1, <2>3, <2>4, <2>6, TakesUp
  <2> QED
    BY <2>1, <2>5, <2>7, QuietTalk
<1>c. ASSUME NEW o \in Op, NEW s \in Sid, NEW m \in Mode, NEW k \in {"use", "mode"},
             Miss(o, s, k, m)
      PROVE  TalkShape'
  <2> DEFINE r == [op[o] EXCEPT !.at = "load", !.do = k, !.sid = s, !.mode = m]
  <2>1. /\ op[o].at = "idle" /\ s \in Known /\ op' = [op EXCEPT ![o] = r]
        /\ inst' = inst /\ writes' = writes /\ store' = store
    BY <1>c DEF Miss
  <2>2. op[o] \in OpRec /\ k \in Do
    BY <1>0 DEF Do
  <2>3. r \in OpRec
    BY <2>2, RecPut
  <2>4. r.at = "load" /\ r.sid = s
    BY <2>2 DEF OpRec
  <2> HIDE DEF r
  <2>5. SameTalk /\ Of(inst', s)
    BY <2>1, KnownOwned DEF SameTalk
  <2>7. OpMoved(o) /\ OpTalks(inst', op'[o])
    BY <1>0, <2>1, <2>3, <2>4, <2>5, TakesUp
  <2> QED
    BY <2>1, <2>5, <2>7, QuietTalk
<1>d. ASSUME NEW o \in Op, NEW s \in Sid, Delete(o, s) \/ DeleteCold(o, s)
      PROVE  TalkShape'
  <2> DEFINE r == [op[o] EXCEPT !.at = "closing", !.do = "delete", !.sid = s, !.of = mem[s]]
             c == [op[o] EXCEPT !.at = "purge", !.do = "delete", !.sid = s]
  <2>1. /\ op[o].at = "idle" /\ s \in Known /\ writes' = writes /\ store' = store
        /\ op' = [op EXCEPT ![o] = r] \/ op' = [op EXCEPT ![o] = c]
        /\ Popped(s) \/ inst' = inst
    BY <1>d DEF Delete, DeleteCold
  <2>2. op[o] \in OpRec /\ "delete" \in Do /\ mem[s] \in 0..MaxInst
    BY <1>0 DEF Do, TypeOK
  <2>3. r \in OpRec /\ c \in OpRec
    BY <2>2, RecPut
  <2>4. r.at = "closing" /\ r.sid = s /\ c.at = "purge" /\ c.sid = s
    BY <2>2 DEF OpRec
  <2> HIDE DEF r, c
  <2>5. SameTalk
    <3>1. CASE Popped(s)
      BY <1>0, <3>1, PoppedTalk
    <3>2. CASE inst' = inst
      BY <3>2 DEF SameTalk
    <3> QED
      BY <2>1, <3>1, <3>2
  <2>6. Of(inst', s)
    BY <1>0, <2>1, <2>5, KnownOwned, SameTalkGrows, MineStays
  <2>7. OpMoved(o) /\ OpTalks(inst', op'[o])
    BY <1>0, <2>1, <2>3, <2>4, <2>6, TakesUp
  <2> QED
    BY <2>1, <2>5, <2>7, QuietTalk
<1>f. ASSUME NEW o \in Op, Load(o) PROVE TalkShape'
  <2>0. /\ op[o].at = "load" /\ inst' = inst /\ writes' = writes /\ store' = store
    BY <1>f DEF Load
  <2>1. SameTalk
    BY <2>0 DEF SameTalk
  <2>2. CASE op' = [op EXCEPT ![o].at = "done"]
    <3>1. OpMoved(o) /\ OpTalks(inst', op'[o])
      BY <1>0, <2>0, <2>1, <2>2, SameTalkGrows, GoesOn
    <3> QED
      BY <2>0, <2>1, <3>1, QuietTalk
  <2>3. CASE /\ op[o].sid \in DOMAIN store
             /\ op' = [op EXCEPT ![o] = [@ EXCEPT !.at = "build", !.seen = store[op[o].sid]]]
    <3>1. /\ op'[o].at = "build" /\ op'[o].sid = op[o].sid
          /\ op'[o].seen = store[op[o].sid]
          /\ \A p \in Op \ {o} : op'[p] = op[p]
      BY <1>0, <2>3 DEF OpRec
    <3>2. Of(inst, op[o].sid) /\ Mine(inst, op[o].sid, store[op[o].sid].sdk)
      BY <1>0, <2>3 DEF StoreTalks
    <3>3. OpMoved(o) /\ OpTalks(inst', op'[o])
      BY <2>0, <3>1, <3>2 DEF OpMoved, OpTalks
    <3> QED
      BY <2>0, <2>1, <3>3, QuietTalk
  <2> QED
    BY <1>f, <2>2, <2>3 DEF Load
<1>g. ASSUME NEW o \in Op, Resume(o) PROVE TalkShape'
  <2>1. op[o].sid \in Sid /\ op[o].seen \in Rec
    BY <1>0 DEF OpRec
  <2>2. /\ op[o].at = "build" /\ Build(op[o].sid, op[o].seen)
        /\ op' = [op EXCEPT ![o] = [@ EXCEPT !.at = "act", !.of = Len(inst) + 1]]
        /\ writes' = writes /\ store' = store
    BY <1>g DEF Resume
  <2>3. Grows /\ OwnTalk' /\ Of(inst', op[o].sid)
    BY <1>0, <2>1, <2>2, BuildGrows
  <2>4. /\ op'[o].at = "act" /\ op'[o].sid = op[o].sid
        /\ \A p \in Op \ {o} : op'[p] = op[p]
    BY <1>0, <2>2 DEF OpRec
  <2>5. OpMoved(o) /\ OpTalks(inst', op'[o])
    BY <2>2, <2>3, <2>4 DEF OpMoved, OpTalks
  <2>6. NewWrites /\ NewStore
    BY <2>2 DEF NewWrites, NewStore
  <2> QED
    BY <2>3, <2>5, <2>6, MoveKeeps
<1>h. ASSUME NEW o \in Op, Use(o) \/ SetMode(o) \/ DeleteClosed(o) PROVE TalkShape'
  <2>1. SameTalk
    <3>1. CASE Use(o)
      BY <1>0, <3>1 DEF Use, SameTalk, Instance
    <3>2. CASE SetMode(o)
      BY <1>0, <3>2 DEF SetMode, SameTalk, Instance
    <3>3. CASE DeleteClosed(o)
      BY <1>0, <3>3 DEF DeleteClosed, Closed, SameTalk, Instance
    <3> QED
      BY <1>h, <3>1, <3>2, <3>3
  <2>2. /\ op[o].at \in {"act", "closing"} /\ writes' = writes /\ store' = store
        /\ \E a \in {"modeload", "purge", "done"} : op' = [op EXCEPT ![o].at = a]
    BY <1>h DEF Use, SetMode, DeleteClosed
  <2>3. OpMoved(o) /\ OpTalks(inst', op'[o])
    BY <1>0, <2>1, <2>2, SameTalkGrows, GoesOn
  <2> QED
    BY <2>1, <2>2, <2>3, QuietTalk
<1>i. ASSUME NEW i \in 1..MaxInst, Result(i) PROVE TalkShape'
  <2> DEFINE id == IF inst[i].resume = 0 THEN i ELSE inst[i].resume
             w == [sid |-> inst[i].sid, rec |-> [sdk |-> id, mode |-> inst[i].mode], by |-> i]
  <2>1. /\ i \in DOMAIN inst /\ op' = op /\ store' = store
        /\ inst' = [inst EXCEPT ![i].turn = FALSE, ![i].sdk = id]
        /\ writes' = writes \/ writes' = writes \cup {w}
    BY <1>i DEF Result, Save
  <2>2. /\ DOMAIN inst' = DOMAIN inst
        /\ \A j \in DOMAIN inst : /\ inst'[j].sid = inst[j].sid
                                  /\ inst'[j].resume = inst[j].resume
                                  /\ j # i => inst'[j].sdk = inst[j].sdk
        /\ inst'[i].sdk = id
    BY <1>0, <2>1 DEF Instance
  <2>3. inst[i].resume = 0 => inst[i].sdk \in {0, i} /\ id = i
    BY <1>0, <2>1 DEF OwnTalk
  <2>4. inst[i].resume # 0 => id = inst[i].resume
    OBVIOUS
  <2>5. w.sid = inst[i].sid /\ w.rec.sdk = id /\ w.by = i
    OBVIOUS
  <2> HIDE DEF id, w
  <2>6. Grows
    BY <2>1, <2>2, <2>3, <2>4 DEF Grows, TalkOf
  <2>7. OwnTalk'
    BY <1>0, <2>1, <2>2, <2>3 DEF OwnTalk
  <2>8. NewStore
    BY <2>1 DEF NewStore
  <2>9. NewWrites
    <3>1. inst'[i].sid = w.sid /\ TalkOf(inst'[i]) = w.rec.sdk
      BY <2>1, <2>2, <2>3, <2>4, <2>5 DEF TalkOf
    <3>2. w.by \notin Op
      BY <2>5, OpAssumption
    <3>3. WriteTalks(inst', op', w)
      BY <2>1, <2>2, <3>1, <3>2 DEF WriteTalks, Of, Mine
    <3> QED
      BY <2>1, <3>3 DEF NewWrites
  <2> QED
    BY <2>1, <2>6, <2>7, <2>8, <2>9, TalkKeeps
<1>k. ASSUME NEW o \in Op, ModeLoad(o) PROVE TalkShape'
  <2>0. op[o].at = "modeload" /\ inst' = inst /\ store' = store
    BY <1>k DEF ModeLoad
  <2>1. SameTalk /\ NewStore
    BY <2>0 DEF SameTalk, NewStore
  <2>2. Grows /\ OwnTalk'
    BY <1>0, <2>1, SameTalkGrows
  <2>3. CASE op' = [op EXCEPT ![o].at = "done"] /\ writes' = writes
    <3>1. OpMoved(o) /\ OpTalks(inst', op'[o])
      BY <1>0, <2>0, <2>2, <2>3, GoesOn
    <3> QED
      BY <2>0, <2>1, <2>3, <3>1, QuietTalk
  <2>4. CASE /\ op[o].sid \in DOMAIN store /\ op' = [op EXCEPT ![o].at = "saving"]
             /\ Save(op[o].sid, [store[op[o].sid] EXCEPT !.mode = op[o].mode], o)
    <3> DEFINE rec == [store[op[o].sid] EXCEPT !.mode = op[o].mode]
               w == [sid |-> op[o].sid, rec |-> rec, by |-> o]
    <3>1. rec.sdk = store[op[o].sid].sdk
      <4>1. store[op[o].sid] \in Rec
        BY <1>0, <2>4 DEF TypeOK
      <4> QED
        BY <4>1 DEF Rec
    <3>2. w.sid = op[o].sid /\ w.rec.sdk = store[op[o].sid].sdk /\ w.by = o
      BY <3>1
    <3>3. writes' = writes \cup {w}
      BY <2>4 DEF Save
    <3> HIDE DEF rec, w
    <3>4. Of(inst, op[o].sid) /\ Mine(inst, op[o].sid, store[op[o].sid].sdk)
      BY <1>0, <2>4 DEF StoreTalks
    <3>5. OpMoved(o) /\ OpTalks(inst', op'[o])
      BY <1>0, <2>0, <2>2, <2>4, GoesOn
    <3>6. op'[o].at = "saving"
      BY <1>0, <2>4 DEF OpRec
    <3>7. WriteTalks(inst', op', w)
      BY <2>0, <3>2, <3>4, <3>6 DEF WriteTalks
    <3>8. NewWrites
      BY <3>3, <3>7 DEF NewWrites
    <3> QED
      BY <2>1, <2>2, <3>5, <3>8, MoveKeeps
  <2> QED
    BY <1>k, <2>3, <2>4 DEF ModeLoad
<1>m. ASSUME NEW o \in Op, Purge(o) PROVE TalkShape'
  <2>1. /\ op[o].at = "purge" /\ inst' = inst /\ writes' = writes
        /\ op' = [op EXCEPT ![o].at = "done"]
        /\ store' = [s \in DOMAIN store \ {op[o].sid} |-> store[s]]
    BY <1>m DEF Purge
  <2>2. SameTalk
    BY <2>1 DEF SameTalk
  <2>3. Grows /\ OwnTalk'
    BY <1>0, <2>2, SameTalkGrows
  <2>4. OpMoved(o) /\ OpTalks(inst', op'[o])
    BY <1>0, <2>1, <2>3, GoesOn
  <2>5. NewWrites /\ NewStore
    BY <2>1 DEF NewWrites, NewStore
  <2> QED
    BY <2>3, <2>4, <2>5, MoveKeeps
<1>n. ASSUME NEW i \in 1..MaxInst, Elapse(i) PROVE TalkShape'
  <2>1. SameTalk
    BY <1>0, <1>n DEF Elapse, SameTalk, Instance
  <2> QED
    BY <1>n, <2>1, NobodysTalk DEF Elapse
<1>o. ASSUME NEW w \in writes, Land(w) PROVE TalkShape'
  <2>1. /\ inst' = inst /\ writes' = writes \ {w}
        /\ store' = [s \in DOMAIN store \cup {w.sid} |-> IF s = w.sid THEN w.rec ELSE store[s]]
        /\ op' = [p \in Op |-> IF w.by = p THEN [op[p] EXCEPT !.at = "done"] ELSE op[p]]
    BY <1>o DEF Land
  <2>2. WriteTalks(inst, op, w)
    BY DEF TalkShape
  <2>3. SameTalk
    BY <2>1 DEF SameTalk
  <2>4. Grows /\ OwnTalk'
    BY <1>0, <2>3, SameTalkGrows
  <2>5. NewWrites
    BY <2>1 DEF NewWrites
  <2>6. NewStore
    BY <2>1, <2>2 DEF NewStore, WriteTalks
  <2>7. ASSUME NEW p \in Op
        PROVE  /\ op'[p] = op[p] \/ (op'[p].at = "done" /\ op'[p].sid = op[p].sid)
               /\ w.by = p => op[p].at \in {"saving", "done"}
    <3>1. op[p] \in OpRec
      BY <1>0
    <3> QED
      BY <2>1, <2>2, <3>1 DEF OpRec, WriteTalks
  <2>8. \A p \in Op : op[p].at \in {"saving", "done"} => op'[p].at \in {"saving", "done"}
    BY <2>7
  <2>9. \A p \in Op : op'[p] = op[p] \/ OpTalks(inst', op'[p])
    <3> SUFFICES ASSUME NEW p \in Op, op'[p] # op[p] PROVE OpTalks(inst', op'[p])
      OBVIOUS
    <3>1. w.by = p
      BY <2>1
    <3>2. op'[p].at = "done" /\ op'[p].sid = op[p].sid /\ op[p].at \in {"saving", "done"}
      BY <2>7, <3>1
    <3>3. Of(inst, op[p].sid)
      <4>1. OpTalks(inst, op[p])
        BY DEF TalkShape
      <4> QED
        BY <3>2, <4>1 DEF OpTalks
    <3> QED
      BY <2>1, <3>2, <3>3 DEF OpTalks
  <2> QED
    BY <2>4, <2>5, <2>6, <2>8, <2>9, TalkKeeps
<1>p. CASE Reap
  <2>1. PICK s \in Idle : Popped(s)
    BY <1>p DEF Reap
  <2>2. SameTalk
    BY <1>0, <2>1, PoppedTalk DEF Idle
  <2> QED
    BY <1>p, <2>2, NobodysTalk DEF Reap
<1>q. CASE ReapNext
  <2> DEFINE gone == [inst EXCEPT ![reaping].life = "closed"]
  <2>1. /\ gone \in [1..Len(inst) -> Instance]
        /\ \A j \in 1..Len(inst) : /\ gone[j].sid = inst[j].sid
                                   /\ gone[j].resume = inst[j].resume
                                   /\ gone[j].sdk = inst[j].sdk
    <3>1. gone \in [1..Len(inst) -> Instance]
      BY <1>0, FieldType
    <3> QED
      BY <1>0, <3>1, FieldTalk
  <2>2. \/ inst' = gone
        \/ \E s \in Sid : inst' = [gone EXCEPT ![mem[s]].life = "closing",
                                               ![mem[s]].turn = FALSE]
    BY <1>0, <1>q DEF ReapNext, TypeOK
  <2> HIDE DEF gone
  <2>3. SameTalk
    <3>1. CASE inst' = gone
      BY <1>0, <2>1, <3>1 DEF SameTalk
    <3>2. ASSUME NEW s \in Sid,
                 inst' = [gone EXCEPT ![mem[s]].life = "closing", ![mem[s]].turn = FALSE]
          PROVE  SameTalk
      <4>1. /\ DOMAIN inst' = 1..Len(inst)
            /\ \A j \in 1..Len(inst) : /\ inst'[j].sid = gone[j].sid
                                       /\ inst'[j].resume = gone[j].resume
                                       /\ inst'[j].sdk = gone[j].sdk
        BY <2>1, <3>2 DEF Instance
      <4> QED
        BY <1>0, <2>1, <4>1 DEF SameTalk
    <3> QED
      BY <2>2, <3>1, <3>2
  <2> QED
    BY <1>q, <2>3, NobodysTalk DEF ReapNext
<1>s. CASE Restart
  <2>1. /\ writes' = {} /\ store' = store
        /\ inst' = [i \in DOMAIN inst |-> [inst[i] EXCEPT !.life = "closed", !.turn = FALSE]]
        /\ op' = [p \in Op |-> IF op[p].at = "idle" THEN op[p]
                               ELSE [op[p] EXCEPT !.at = "done"]]
    BY <1>s DEF Restart
  <2>2. SameTalk
    BY <1>0, <2>1 DEF SameTalk, Instance
  <2>3. Grows /\ OwnTalk'
    BY <1>0, <2>2, SameTalkGrows
  <2>4. NewWrites /\ NewStore
    BY <2>1 DEF NewWrites, NewStore
  <2>5. ASSUME NEW p \in Op
        PROVE  op'[p] = op[p]
                 \/ (op'[p].at = "done" /\ op'[p].sid = op[p].sid /\ op[p].at # "idle")
    <3>1. op[p] \in OpRec
      BY <1>0
    <3> QED
      BY <2>1, <3>1 DEF OpRec
  <2>6. \A p \in Op : op[p].at \in {"saving", "done"} => op'[p].at \in {"saving", "done"}
    BY <2>5
  <2>7. \A p \in Op : op'[p] = op[p] \/ OpTalks(inst', op'[p])
    <3> SUFFICES ASSUME NEW p \in Op, op'[p] # op[p] PROVE OpTalks(inst', op'[p])
      OBVIOUS
    <3>1. op'[p].at = "done" /\ op'[p].sid = op[p].sid /\ op[p].at # "idle"
      BY <2>5
    <3>2. Of(inst', op[p].sid)
      <4>1. OpTalks(inst, op[p])
        BY DEF TalkShape
      <4> QED
        BY <2>3, <3>1, <4>1, MineStays DEF OpTalks
    <3> QED
      BY <3>1, <3>2 DEF OpTalks
  <2> QED
    BY <2>3, <2>4, <2>6, <2>7, TalkKeeps
<1>t. CASE UNCHANGED vars
  <2>1. SameTalk
    BY <1>t DEF vars, SameTalk
  <2> QED
    BY <1>t, <2>1, NobodysTalk DEF vars
<1> QED
  BY <1>a, <1>b, <1>c, <1>d, <1>f, <1>g, <1>h, <1>i, <1>k, <1>m, <1>n, <1>o, <1>p,
     <1>q, <1>s, <1>t DEF Next, Handler

-----------------------------------------------------------------------------
(* The steps of the refinement. *)

\* A step of the directory, or none.
DirectoryStep == Directory!DirectoryNext \/ UNCHANGED Directory!directoryVars

SameObjects == Owner' = Owner /\ Talk' = Talk /\ Running' = Running

\* Objects that keep their conversation and go on running or not.
LEMMA ObjectsKept ==
  ASSUME SameTalk,
         \A i \in DOMAIN inst : inst'[i].life = "live" <=> inst[i].life = "live"
  PROVE  SameObjects
BY DEF SameTalk, SameObjects, Owner, Talk, Running

\* Nobody's deletion begins or ends.
LEMMA DoomedKept ==
  ASSUME \A o \in Op :
           /\ op'[o].at \in {"closing", "purge"} <=> op[o].at \in {"closing", "purge"}
           /\ op[o].at \in {"closing", "purge"} => op'[o].sid = op[o].sid
  PROVE  Doomed' = Doomed
<1>1. \A x : x \in Doomed' <=>
        \E o \in Op : op'[o].at \in {"closing", "purge"} /\ x = op'[o].sid
  BY DEF Doomed
<1>2. \A x : x \in Doomed <=>
        \E o \in Op : op[o].at \in {"closing", "purge"} /\ x = op[o].sid
  BY DEF Doomed
<1>3. \A x : x \in Doomed' <=> x \in Doomed
  BY <1>1, <1>2
<1> QED
  BY <1>3

\* What is not seen of the registry is no step of the directory.
LEMMA UnseenInDirectory ==
  ASSUME SameObjects, mem' = mem, Record' = Record, Doomed' = Doomed
  PROVE  DirectoryStep
BY DEF SameObjects, DirectoryStep, Directory!directoryVars

\* A new object is a new host, of an id that is new or had this conversation.
LEMMA BuildHosts ==
  ASSUME TypeOK, NEW s \in Sid, NEW rec \in Rec, Build(s, rec),
         Record' = Record, Doomed' = Doomed
  PROVE  Directory!NewHost(s, rec.sdk)
<1> DEFINE new == Len(inst) + 1
<1>1. /\ new \in (1..MaxInst) \ DOMAIN inst
      /\ DOMAIN inst' = DOMAIN inst \cup {new}
      /\ \A i \in DOMAIN inst : inst'[i] = inst[i]
      /\ inst'[new].sid = s /\ inst'[new].life = "live"
      /\ inst'[new].resume = rec.sdk /\ inst'[new].sdk = 0
      /\ mem' = [mem EXCEPT ![s] = new]
  BY BuildTalk
<1> HIDE DEF new
<1>2. DOMAIN Owner = DOMAIN inst /\ DOMAIN Talk = DOMAIN inst
  BY DEF Owner, Talk
<1>3. Owner' = Directory!With(Owner, new, s)
  BY <1>1 DEF Owner, Directory!With
<1>4. Talk' = Directory!With(Talk, new, rec.sdk)
  BY <1>1 DEF Talk, Directory!With
<1>5. Running' = Running \cup {new}
  BY <1>1 DEF Running
<1> QED
  BY <1>1, <1>2, <1>3, <1>4, <1>5 DEF Directory!NewHost

\* What the registry knows of an id is what the directory knows.
LEMMA SameKnowledge ==
  ASSUME NEW s
  PROVE  /\ Directory!Owned(s) <=> Of(inst, s)
         /\ \A c : c \in Directory!Talks(s) <=> Mine(inst, s, c)
<1>1. DOMAIN Owner = DOMAIN inst /\ \A i \in DOMAIN inst : Owner[i] = inst[i].sid
  BY DEF Owner
<1>2. \A i \in DOMAIN inst : Talk[i] = TalkOf(inst[i])
  BY DEF Talk, TalkOf
<1>3. Directory!Owned(s) <=> Of(inst, s)
  BY <1>1 DEF Directory!Owned, Of
<1>4. ASSUME NEW c PROVE c \in Directory!Talks(s) <=> Mine(inst, s, c)
  <2>1. c \in Directory!Talks(s) <=>
          c = 0 \/ \E i \in DOMAIN inst : inst[i].sid = s /\ c = Talk[i]
    BY <1>1 DEF Directory!Talks
  <2> QED
    BY <1>2, <2>1 DEF Mine
<1> QED
  BY <1>3, <1>4

\* An object popped leaves the directory, and stops.
LEMMA PoppedLeaves ==
  ASSUME TypeOK, RegisteredShape, NEW s \in Sid, mem[s] # 0,
         mem' = [mem EXCEPT ![s] = 0], SameTalk,
         \A i \in DOMAIN inst : inst'[i].life = "live" <=> inst[i].life = "live" /\ i # mem[s],
         Record' = Record
  PROVE  Directory!Leave(s)
<1>1. Owner' = Owner /\ Talk' = Talk
  BY DEF SameTalk, Owner, Talk
<1>2. Running' = Running \ {mem[s]}
  BY DEF SameTalk, Running
<1> QED
  BY <1>1, <1>2 DEF Directory!Leave

\* What Popped does to the lives of the objects.
LEMMA PoppedLives ==
  ASSUME TypeOK, RegisteredShape, NEW s \in Sid, mem[s] # 0, Popped(s)
  PROVE  /\ mem' = [mem EXCEPT ![s] = 0]
         /\ SameTalk
         /\ \A i \in DOMAIN inst :
              inst'[i].life = "live" <=> inst[i].life = "live" /\ i # mem[s]
<1>1. /\ mem' = [mem EXCEPT ![s] = 0]
      /\ inst' = [inst EXCEPT ![mem[s]].life = "closing", ![mem[s]].turn = FALSE]
  BY DEF Popped
<1>2. DOMAIN inst = 1..Len(inst) /\ inst \in [1..Len(inst) -> Instance]
  BY InstFun DEF TypeOK
<1>3. \A i \in DOMAIN inst :
        inst'[i].life = "live" <=> inst[i].life = "live" /\ i # mem[s]
  BY <1>1, <1>2 DEF Instance
<1> QED
  BY <1>1, <1>3, PoppedTalk

\* Where the deletions of the sessions stand when one request begins its own.
LEMMA DoomedGrows ==
  ASSUME NEW o \in Op, NEW s \in Sid, op[o].at \notin {"closing", "purge"},
         op'[o].at \in {"closing", "purge"}, op'[o].sid = s,
         \A p \in Op \ {o} : op'[p] = op[p]
  PROVE  Doomed' = Doomed \cup {s}
<1>1. \A x : x \in Doomed' <=>
        \E p \in Op : op'[p].at \in {"closing", "purge"} /\ x = op'[p].sid
  BY DEF Doomed
<1>2. \A x : x \in Doomed <=>
        \E p \in Op : op[p].at \in {"closing", "purge"} /\ x = op[p].sid
  BY DEF Doomed
<1>3. \A x : x \in Doomed' <=> x \in Doomed \/ x = s
  BY <1>1, <1>2
<1> QED
  BY <1>3

\* And when it ends.
LEMMA DoomedShrinks ==
  ASSUME NEW o \in Op, op[o].at = "purge", op'[o].at = "done",
         \A p \in Op \ {o} : op'[p] = op[p]
  PROVE  op[o].sid \in Doomed /\ Doomed' \in {Doomed, Doomed \ {op[o].sid}}
<1>1. \A x : x \in Doomed' <=>
        \E p \in Op : op'[p].at \in {"closing", "purge"} /\ x = op'[p].sid
  BY DEF Doomed
<1>2. \A x : x \in Doomed <=>
        \E p \in Op : op[p].at \in {"closing", "purge"} /\ x = op[p].sid
  BY DEF Doomed
<1>3. op[o].sid \in Doomed
  BY <1>2
<1>4. \A x : x # op[o].sid => (x \in Doomed' <=> x \in Doomed)
  BY <1>1, <1>2
<1>5. CASE op[o].sid \in Doomed'
  <2>1. \A x : x \in Doomed' <=> x \in Doomed
    BY <1>3, <1>4, <1>5
  <2>2. Doomed' = Doomed
    BY <2>1
  <2> QED
    BY <1>3, <2>2
<1>6. CASE op[o].sid \notin Doomed'
  <2>1. \A x : x \in Doomed' <=> x \in Doomed \ {op[o].sid}
    BY <1>4, <1>6
  <2>2. Doomed' = Doomed \ {op[o].sid}
    BY <2>1
  <2> QED
    BY <1>3, <2>2
<1> QED
  BY <1>5, <1>6

\* A request that moves on, deletions apart.
LEMMA MovesOn ==
  ASSUME TypeOK, NEW o \in Op,
         op[o].at \notin {"closing", "purge"}, op'[o].at \notin {"closing", "purge"},
         \A p \in Op \ {o} : op'[p] = op[p]
  PROVE  Doomed' = Doomed
<1>1. \A p \in Op :
        /\ op'[p].at \in {"closing", "purge"} <=> op[p].at \in {"closing", "purge"}
        /\ op[p].at \in {"closing", "purge"} => op'[p].sid = op[p].sid
  OBVIOUS
<1> QED
  BY <1>1, DoomedKept

\* Requests that create, find, read and use sessions.
LEMMA ServeSteps ==
  ASSUME IInv, TalkShape, NEW o \in Op,
         \/ \E s \in Sid, m \in Mode : Create(o, s, m)
         \/ \E s \in Sid, m \in Mode, k \in {"use", "mode"} : Hit(o, s, k, m) \/ Miss(o, s, k, m)
         \/ Load(o) \/ Resume(o) \/ Use(o) \/ SetMode(o) \/ ModeLoad(o)
  PROVE  DirectoryStep
<1>0. /\ TypeOK /\ op \in [Op -> OpRec]
      /\ DOMAIN inst = 1..Len(inst) /\ inst \in [1..Len(inst) -> Instance]
  BY InstFun DEF IInv, TypeOK, OpRec
<1>1. ASSUME NEW s \in Sid, NEW m \in Mode, Create(o, s, m) PROVE DirectoryStep
  <2> DEFINE rec == [sdk |-> 0, mode |-> m]
  <2>1. rec \in Rec /\ rec.sdk = 0
    BY BoundsAssumption DEF Rec, Conversation
  <2>2. /\ Build(s, rec) /\ op[o].at = "idle" /\ s \notin Used /\ store' = store
        /\ op' = [op EXCEPT ![o] = [@ EXCEPT !.at = "saving", !.do = "create", !.sid = s]]
    BY <1>1 DEF Create
  <2> HIDE DEF rec
  <2>3. op'[o].at = "saving" /\ \A p \in Op \ {o} : op'[p] = op[p]
    BY <1>0, <2>2 DEF OpRec
  <2>4. Doomed' = Doomed
    BY <1>0, <2>2, <2>3, MovesOn
  <2>5. Record' = Record
    BY <2>2 DEF Record
  <2>6. Directory!NewHost(s, 0)
    <3>1. Directory!NewHost(s, rec.sdk)
      BY <1>0, <2>1, <2>2, <2>4, <2>5, BuildHosts
    <3> QED
      BY <2>1, <3>1
  <2>7. ~Directory!Owned(s)
    BY <2>2, SameKnowledge DEF Of, Used
  <2>8. Directory!Open(s)
    BY <2>6, <2>7 DEF Directory!Open
  <2> QED
    BY <2>8 DEF DirectoryStep, Directory!DirectoryNext
<1>2. CASE Resume(o)
  <2>1. op[o].sid \in Sid /\ op[o].seen \in Rec
    BY <1>0 DEF OpRec
  <2>2. /\ op[o].at = "build" /\ Build(op[o].sid, op[o].seen) /\ store' = store
        /\ op' = [op EXCEPT ![o] = [@ EXCEPT !.at = "act", !.of = Len(inst) + 1]]
    BY <1>2 DEF Resume
  <2>3. op'[o].at = "act" /\ \A p \in Op \ {o} : op'[p] = op[p]
    BY <1>0, <2>2 DEF OpRec
  <2>4. Doomed' = Doomed
    BY <1>0, <2>2, <2>3, MovesOn
  <2>5. Record' = Record
    BY <2>2 DEF Record
  <2>6. Directory!NewHost(op[o].sid, op[o].seen.sdk)
    BY <1>0, <2>1, <2>2, <2>4, <2>5, BuildHosts
  <2>7. Of(inst, op[o].sid) /\ Mine(inst, op[o].sid, op[o].seen.sdk)
    <3>1. OpTalks(inst, op[o])
      BY DEF TalkShape
    <3> QED
      BY <2>2, <3>1 DEF OpTalks
  <2>8. Directory!Owned(op[o].sid) /\ op[o].seen.sdk \in Directory!Talks(op[o].sid)
    BY <2>7, SameKnowledge
  <2>9. Directory!Revive(op[o].sid)
    BY <2>6, <2>8, Zenon DEF Directory!Revive
  <2> QED
    BY <2>1, <2>9 DEF DirectoryStep, Directory!DirectoryNext
<1>3. CASE \/ \E s \in Sid, m \in Mode, k \in {"use", "mode"} : Hit(o, s, k, m) \/ Miss(o, s, k, m)
           \/ Load(o) \/ Use(o) \/ SetMode(o) \/ ModeLoad(o)
  <2>1. mem' = mem /\ store' = store
    BY <1>3 DEF Hit, Miss, Load, Use, SetMode, ModeLoad
  <2>2. /\ op[o].at \in {"idle", "load", "act", "modeload"}
        /\ \A p \in Op \ {o} : op'[p] = op[p]
    BY <1>0, <1>3 DEF Hit, Miss, Load, Use, SetMode, ModeLoad
  <2>3. op'[o].at \in {"act", "load", "build", "modeload", "saving", "done"}
    <3>1. ASSUME NEW s \in Sid, NEW m \in Mode, NEW k \in {"use", "mode"},
                 Hit(o, s, k, m) \/ Miss(o, s, k, m)
          PROVE  op'[o].at \in {"act", "load"}
      <4>1. op[o] \in OpRec
        BY <1>0
      <4>2. CASE Hit(o, s, k, m)
        <5>1. op' = [op EXCEPT ![o] = [@ EXCEPT !.at = "act", !.do = k, !.sid = s,
                                                !.of = mem[s], !.mode = m]]
          BY <4>2 DEF Hit
        <5>2. op'[o] = [op[o] EXCEPT !.at = "act", !.do = k, !.sid = s,
                                     !.of = mem[s], !.mode = m]
          BY <1>0, <5>1
        <5> QED
          BY <4>1, <5>2 DEF OpRec
      <4>3. CASE Miss(o, s, k, m)
        <5>1. op' = [op EXCEPT ![o] = [@ EXCEPT !.at = "load", !.do = k, !.sid = s,
                                                !.mode = m]]
          BY <4>3 DEF Miss
        <5>2. op'[o] = [op[o] EXCEPT !.at = "load", !.do = k, !.sid = s, !.mode = m]
          BY <1>0, <5>1
        <5> QED
          BY <4>1, <5>2 DEF OpRec
      <4> QED
        BY <3>1, <4>2, <4>3
    <3>2. CASE Load(o)
      BY <1>0, <3>2 DEF Load, OpRec
    <3>3. CASE Use(o) \/ SetMode(o) \/ ModeLoad(o)
      BY <1>0, <3>3 DEF Use, SetMode, ModeLoad, OpRec
    <3> QED
      BY <1>3, <3>1, <3>2, <3>3
  <2>4. Doomed' = Doomed
    BY <1>0, <2>2, <2>3, MovesOn
  <2>5. /\ SameTalk
        /\ \A i \in DOMAIN inst : inst'[i].life = inst[i].life
    <3>1. ASSUME NEW s \in Sid, NEW m \in Mode, NEW k \in {"use", "mode"}, Hit(o, s, k, m)
          PROVE  SameTalk /\ \A i \in DOMAIN inst : inst'[i].life = inst[i].life
      <4>1. inst' = [inst EXCEPT ![mem[s]].idle = FALSE]
        BY <3>1 DEF Hit
      <4> QED
        BY <1>0, <4>1 DEF SameTalk, Instance
    <3>2. CASE inst' = inst
      BY <3>2 DEF SameTalk
    <3>3. CASE Use(o)
      BY <1>0, <3>3 DEF Use, SameTalk, Instance
    <3>4. CASE SetMode(o)
      <4>1. \/ inst' = inst
            \/ inst' = [inst EXCEPT ![op[o].of].mode = op[o].mode]
        BY <3>4 DEF SetMode
      <4>2. CASE inst' = [inst EXCEPT ![op[o].of].mode = op[o].mode]
        <5>1. DOMAIN inst' = DOMAIN inst
          BY <4>2
        <5>2. \A i \in 1..Len(inst) :
                /\ inst'[i].sid = inst[i].sid /\ inst'[i].resume = inst[i].resume
                /\ inst'[i].sdk = inst[i].sdk /\ inst'[i].life = inst[i].life
          BY <1>0, <4>2 DEF Instance
        <5> QED
          BY <1>0, <5>1, <5>2 DEF SameTalk
      <4> QED
        BY <3>2, <4>1, <4>2
    <3> QED
      BY <1>3, <3>1, <3>2, <3>3, <3>4 DEF Miss, Load, ModeLoad
  <2>6. SameObjects /\ Record' = Record
    BY <2>1, <2>5, ObjectsKept DEF Record
  <2> QED
    BY <2>1, <2>4, <2>6, UnseenInDirectory
<1> QED
  BY <1>1, <1>2, <1>3

\* Deletions.
LEMMA DeleteSteps ==
  ASSUME IInv, NEW o \in Op,
         \/ \E s \in Sid : Delete(o, s) \/ DeleteCold(o, s)
         \/ DeleteClosed(o) \/ Purge(o)
  PROVE  DirectoryStep
<1>0. /\ TypeOK /\ RegisteredShape /\ op \in [Op -> OpRec]
      /\ DOMAIN inst = 1..Len(inst) /\ inst \in [1..Len(inst) -> Instance]
  BY InstFun DEF IInv, TypeOK, OpRec
<1>1. ASSUME NEW s \in Sid, Delete(o, s) PROVE DirectoryStep
  <2>1. /\ op[o].at = "idle" /\ mem[s] # 0 /\ Popped(s) /\ store' = store
        /\ op' = [op EXCEPT ![o] = [@ EXCEPT !.at = "closing", !.do = "delete",
                                             !.sid = s, !.of = mem[s]]]
    BY <1>1 DEF Delete
  <2>2. /\ op'[o].at = "closing" /\ op'[o].sid = s
        /\ \A p \in Op \ {o} : op'[p] = op[p]
    BY <1>0, <2>1 DEF OpRec
  <2>3. Doomed' = Doomed \cup {s}
    BY <2>1, <2>2, DoomedGrows
  <2>4. Directory!Leave(s)
    <3>1. Record' = Record
      BY <2>1 DEF Record
    <3>2. /\ mem' = [mem EXCEPT ![s] = 0] /\ SameTalk
          /\ \A i \in DOMAIN inst :
               inst'[i].life = "live" <=> inst[i].life = "live" /\ i # mem[s]
      BY <1>0, <2>1, PoppedLives
    <3> QED
      BY <1>0, <2>1, <3>1, <3>2, PoppedLeaves
  <2>5. Directory!Doom(s)
    BY <2>3, <2>4 DEF Directory!Doom
  <2> QED
    BY <2>5 DEF DirectoryStep, Directory!DirectoryNext
<1>2. ASSUME NEW s \in Sid, DeleteCold(o, s) PROVE DirectoryStep
  <2>1. /\ op[o].at = "idle" /\ mem[s] = 0 /\ mem' = mem /\ inst' = inst /\ store' = store
        /\ op' = [op EXCEPT ![o] = [@ EXCEPT !.at = "purge", !.do = "delete", !.sid = s]]
    BY <1>2 DEF DeleteCold
  <2>2. /\ op'[o].at = "purge" /\ op'[o].sid = s
        /\ \A p \in Op \ {o} : op'[p] = op[p]
    BY <1>0, <2>1 DEF OpRec
  <2>3. Doomed' = Doomed \cup {s}
    BY <2>1, <2>2, DoomedGrows
  <2>4. Directory!Leave(s)
    <3>1. Owner' = Owner /\ Talk' = Talk /\ Record' = Record
      BY <2>1 DEF Owner, Talk, Record
    <3>2. Running' = Running \ {0}
      BY <1>0, <2>1 DEF Running
    <3>3. mem' = [mem EXCEPT ![s] = 0]
      BY <1>0, <2>1 DEF TypeOK
    <3> QED
      BY <2>1, <3>1, <3>2, <3>3 DEF Directory!Leave
  <2>5. Directory!Doom(s)
    BY <2>3, <2>4 DEF Directory!Doom
  <2> QED
    BY <2>5 DEF DirectoryStep, Directory!DirectoryNext
<1>3. CASE DeleteClosed(o)
  <2>1. /\ op[o].at = "closing" /\ inst' = [inst EXCEPT ![op[o].of].life = "closed"]
        /\ op' = [op EXCEPT ![o].at = "purge"] /\ mem' = mem /\ store' = store
    BY <1>3 DEF DeleteClosed, Closed
  <2>2. inst[op[o].of].life # "live"
    BY <2>1 DEF IInv, ClosingShape
  <2>3. /\ SameTalk
        /\ \A i \in DOMAIN inst : inst'[i].life = "live" <=> inst[i].life = "live"
    BY <1>0, <2>1, <2>2 DEF SameTalk, Instance
  <2>4. Doomed' = Doomed
    <3>1. /\ op'[o].at = "purge" /\ op'[o].sid = op[o].sid
          /\ \A p \in Op \ {o} : op'[p] = op[p]
      BY <1>0, <2>1 DEF OpRec
    <3>2. \A p \in Op :
            /\ op'[p].at \in {"closing", "purge"} <=> op[p].at \in {"closing", "purge"}
            /\ op[p].at \in {"closing", "purge"} => op'[p].sid = op[p].sid
      BY <2>1, <3>1
    <3> QED
      BY <3>2, DoomedKept
  <2>5. SameObjects /\ Record' = Record
    BY <2>1, <2>3, ObjectsKept DEF Record
  <2> QED
    BY <2>1, <2>4, <2>5, UnseenInDirectory
<1>4. CASE Purge(o)
  <2>1. /\ op[o].at = "purge" /\ inst' = inst /\ mem' = mem
        /\ op' = [op EXCEPT ![o].at = "done"]
        /\ store' = [s \in DOMAIN store \ {op[o].sid} |-> store[s]]
    BY <1>4 DEF Purge
  <2>2. op[o].sid \in Sid
    BY <1>0 DEF OpRec
  <2>3. op'[o].at = "done" /\ \A p \in Op \ {o} : op'[p] = op[p]
    BY <1>0, <2>1 DEF OpRec
  <2>4. op[o].sid \in Doomed /\ Doomed' \in {Doomed, Doomed \ {op[o].sid}}
    BY <2>1, <2>3, DoomedShrinks
  <2>5. Record' = [t \in DOMAIN Record \ {op[o].sid} |-> Record[t]]
    BY <2>1 DEF Record
  <2>6. Owner' = Owner /\ Talk' = Talk /\ Running' = Running
    BY <2>1 DEF Owner, Talk, Running
  <2>7. Directory!Forget(op[o].sid)
    BY <2>1, <2>4, <2>5, <2>6 DEF Directory!Forget
  <2> QED
    BY <2>2, <2>7 DEF DirectoryStep, Directory!DirectoryNext
<1> QED
  BY <1>1, <1>2, <1>3, <1>4

\* Results, elapsed time and saves that land.
LEMMA LaterSteps ==
  ASSUME IInv, TalkShape,
         \/ \E i \in 1..MaxInst : Result(i) \/ Elapse(i)
         \/ \E w \in writes : Land(w)
  PROVE  DirectoryStep
<1>0. /\ TypeOK /\ op \in [Op -> OpRec] /\ OwnTalk
      /\ DOMAIN inst = 1..Len(inst) /\ inst \in [1..Len(inst) -> Instance]
  BY InstFun DEF IInv, TypeOK, OpRec, TalkShape
<1>1. ASSUME NEW i \in 1..MaxInst, Result(i) PROVE DirectoryStep
  <2> DEFINE id == IF inst[i].resume = 0 THEN i ELSE inst[i].resume
  <2>1. /\ i \in DOMAIN inst /\ inst[i].life = "live"
        /\ op' = op /\ store' = store /\ mem' = mem
        /\ inst' = [inst EXCEPT ![i].turn = FALSE, ![i].sdk = id]
    BY <1>1 DEF Result
  <2>2. /\ DOMAIN inst' = DOMAIN inst
        /\ \A j \in DOMAIN inst : /\ inst'[j].sid = inst[j].sid
                                  /\ inst'[j].resume = inst[j].resume
                                  /\ inst'[j].life = inst[j].life
                                  /\ j # i => inst'[j].sdk = inst[j].sdk
        /\ inst'[i].sdk = id
    BY <1>0, <2>1 DEF Instance
  <2>3. inst[i].resume = 0 => inst[i].sdk \in {0, i} /\ id = i
    BY <1>0, <2>1 DEF OwnTalk
  <2> HIDE DEF id
  <2>4. Record' = Record /\ Doomed' = Doomed
    BY <2>1 DEF Record, Doomed
  <2>5. Owner' = Owner /\ Running' = Running
    BY <2>2 DEF Owner, Running
  <2>6. CASE Talk[i] = 0
    <3>1. inst[i].resume = 0 /\ inst[i].sdk = 0
      BY <2>1, <2>6 DEF Talk
    <3>2. Talk' = [Talk EXCEPT ![i] = i]
      <4>1. \A j \in DOMAIN inst : TalkOf(inst'[j]) = IF j = i THEN i ELSE TalkOf(inst[j])
        <5>1. TalkOf(inst'[i]) = i
          BY <2>1, <2>2, <2>3, <3>1 DEF TalkOf
        <5>2. \A j \in DOMAIN inst : j # i => TalkOf(inst'[j]) = TalkOf(inst[j])
          BY <2>2 DEF TalkOf
        <5> QED
          BY <5>1, <5>2
      <4>2. /\ Talk = [j \in DOMAIN inst |-> TalkOf(inst[j])]
            /\ Talk' = [j \in DOMAIN inst |-> TalkOf(inst'[j])]
        BY <2>2 DEF Talk, TalkOf
      <4>3. Talk' = [j \in DOMAIN inst |-> IF j = i THEN i ELSE TalkOf(inst[j])]
        BY <4>1, <4>2
      <4> QED
        BY <4>2, <4>3
    <3>3. i \in Running
      BY <2>1 DEF Running
    <3>4. Directory!Begin(i)
      BY <2>1, <2>4, <2>5, <2>6, <3>2, <3>3 DEF Directory!Begin
    <3> QED
      BY <3>4 DEF DirectoryStep, Directory!DirectoryNext
  <2>7. CASE Talk[i] # 0
    <3>1. inst[i].resume = 0 => inst[i].sdk = i /\ id = i
      BY <2>1, <2>3, <2>7 DEF Talk
    <3>2. Talk' = Talk
      BY <2>1, <2>2, <3>1 DEF Talk
    <3> QED
      BY <2>1, <2>4, <2>5, <3>2, UnseenInDirectory DEF SameObjects
  <2> QED
    BY <2>6, <2>7
<1>2. ASSUME NEW i \in 1..MaxInst, Elapse(i) PROVE DirectoryStep
  <2>1. inst' = [inst EXCEPT ![i].idle = TRUE] /\ op' = op /\ store' = store /\ mem' = mem
    BY <1>2 DEF Elapse
  <2>2. SameTalk /\ \A j \in DOMAIN inst : inst'[j].life = inst[j].life
    BY <1>0, <2>1 DEF SameTalk, Instance
  <2>3. SameObjects /\ Record' = Record /\ Doomed' = Doomed
    BY <2>1, <2>2, ObjectsKept DEF Record, Doomed
  <2> QED
    BY <2>1, <2>3, UnseenInDirectory
<1>3. ASSUME NEW w \in writes, Land(w) PROVE DirectoryStep
  <2>1. /\ inst' = inst /\ mem' = mem
        /\ store' = [s \in DOMAIN store \cup {w.sid} |-> IF s = w.sid THEN w.rec ELSE store[s]]
        /\ op' = [p \in Op |-> IF w.by = p THEN [op[p] EXCEPT !.at = "done"] ELSE op[p]]
    BY <1>3 DEF Land
  <2>2. WriteTalks(inst, op, w) /\ w.sid \in Sid
    BY <1>0 DEF TalkShape, TypeOK
  <2>3. Directory!Owned(w.sid) /\ w.rec.sdk \in Directory!Talks(w.sid)
    BY <2>2, SameKnowledge DEF WriteTalks
  <2>4. Record' = Directory!With(Record, w.sid, w.rec.sdk)
    BY <2>1 DEF Record, Directory!With
  <2>5. Owner' = Owner /\ Talk' = Talk /\ Running' = Running
    BY <2>1 DEF Owner, Talk, Running
  <2>6. Doomed' = Doomed
    <3>1. ASSUME NEW p \in Op
          PROVE  /\ op'[p].at \in {"closing", "purge"} <=> op[p].at \in {"closing", "purge"}
                 /\ op[p].at \in {"closing", "purge"} => op'[p].sid = op[p].sid
      <4>1. op[p] \in OpRec
        BY <1>0
      <4>2. CASE w.by = p
        <5>1. op[p].at \in {"saving", "done"}
          BY <2>2, <4>2 DEF WriteTalks
        <5>2. op'[p].at = "done"
          BY <2>1, <4>1, <4>2 DEF OpRec
        <5> QED
          BY <5>1, <5>2
      <4>3. CASE w.by # p
        BY <2>1, <4>3
      <4> QED
        BY <4>2, <4>3
    <3> QED
      BY <3>1, DoomedKept
  <2>7. Directory!Note(w.sid)
    BY <2>1, <2>3, <2>4, <2>5, <2>6 DEF Directory!Note
  <2> QED
    BY <2>2, <2>7 DEF DirectoryStep, Directory!DirectoryNext
<1> QED
  BY <1>1, <1>2, <1>3

\* The reaper retires hosts; the end of the process ends them all.
LEMMA EndSteps ==
  ASSUME IInv, Reap \/ ReapNext \/ Restart
  PROVE  DirectoryStep
<1>0. /\ TypeOK /\ RegisteredShape /\ ReapingShape /\ op \in [Op -> OpRec]
      /\ mem \in [Sid -> 0..MaxInst]
      /\ DOMAIN inst = 1..Len(inst) /\ inst \in [1..Len(inst) -> Instance]
  BY InstFun DEF IInv, TypeOK, OpRec
<1>1. CASE Reap
  <2>1. PICK s \in Idle : Popped(s)
    BY <1>1 DEF Reap
  <2>2. s \in Sid /\ mem[s] # 0 /\ op' = op /\ store' = store
    BY <1>1, <2>1 DEF Reap, Idle
  <2>3. Record' = Record /\ Doomed' = Doomed
    BY <2>2 DEF Record, Doomed
  <2>4. /\ mem' = [mem EXCEPT ![s] = 0] /\ SameTalk
        /\ \A i \in DOMAIN inst :
             inst'[i].life = "live" <=> inst[i].life = "live" /\ i # mem[s]
    BY <1>0, <2>1, <2>2, PoppedLives
  <2>5. Directory!Retire(s)
    BY <1>0, <2>2, <2>3, <2>4, PoppedLeaves DEF Directory!Retire
  <2> QED
    BY <2>2, <2>5 DEF DirectoryStep, Directory!DirectoryNext
<1>2. CASE ReapNext
  <2> DEFINE gone == [inst EXCEPT ![reaping].life = "closed"]
  <2>0. reaping # 0 /\ op' = op /\ store' = store
    BY <1>2 DEF ReapNext
  <2>1. /\ reaping \in DOMAIN inst /\ inst[reaping].life # "live"
    BY <1>0, <2>0 DEF ReapingShape
  <2>2. /\ gone \in [1..Len(inst) -> Instance]
        /\ \A j \in 1..Len(inst) : /\ gone[j].sid = inst[j].sid
                                   /\ gone[j].resume = inst[j].resume
                                   /\ gone[j].sdk = inst[j].sdk
                                   /\ gone[j].life = "live" <=> inst[j].life = "live"
    BY <1>0, <2>1 DEF Instance
  <2>3. \/ inst' = gone /\ mem' = mem
        \/ \E s \in Sid : /\ mem[s] # 0 /\ mem' = [mem EXCEPT ![s] = 0]
                          /\ inst' = [gone EXCEPT ![mem[s]].life = "closing",
                                                  ![mem[s]].turn = FALSE]
    BY <1>0, <1>2 DEF ReapNext, TypeOK
  <2> HIDE DEF gone
  <2>4. Record' = Record /\ Doomed' = Doomed
    BY <2>0 DEF Record, Doomed
  <2>5. CASE inst' = gone /\ mem' = mem
    <3>1. SameTalk /\ \A i \in DOMAIN inst : inst'[i].life = "live" <=> inst[i].life = "live"
      BY <1>0, <2>2, <2>5 DEF SameTalk
    <3> QED
      BY <2>4, <2>5, <3>1, ObjectsKept, UnseenInDirectory
  <2>6. ASSUME NEW s \in Sid, mem[s] # 0, mem' = [mem EXCEPT ![s] = 0],
               inst' = [gone EXCEPT ![mem[s]].life = "closing", ![mem[s]].turn = FALSE]
        PROVE  DirectoryStep
    <3>1. /\ DOMAIN inst' = 1..Len(inst)
          /\ \A j \in 1..Len(inst) : /\ inst'[j].sid = gone[j].sid
                                     /\ inst'[j].resume = gone[j].resume
                                     /\ inst'[j].sdk = gone[j].sdk
                                     /\ inst'[j].life = "live" <=>
                                          gone[j].life = "live" /\ j # mem[s]
      BY <2>2, <2>6 DEF Instance
    <3>2. /\ SameTalk
          /\ \A i \in DOMAIN inst :
               inst'[i].life = "live" <=> inst[i].life = "live" /\ i # mem[s]
      BY <1>0, <2>2, <3>1 DEF SameTalk
    <3>3. Directory!Retire(s)
      BY <1>0, <2>4, <2>6, <3>2, PoppedLeaves DEF Directory!Retire
    <3> QED
      BY <3>3 DEF DirectoryStep, Directory!DirectoryNext
  <2> QED
    BY <2>3, <2>5, <2>6
<1>3. CASE Restart
  <2>1. /\ mem' = [s \in Sid |-> 0] /\ store' = store
        /\ inst' = [i \in DOMAIN inst |-> [inst[i] EXCEPT !.life = "closed", !.turn = FALSE]]
        /\ op' = [p \in Op |-> IF op[p].at = "idle" THEN op[p]
                               ELSE [op[p] EXCEPT !.at = "done"]]
    BY <1>3 DEF Restart
  <2>2. SameTalk /\ \A i \in DOMAIN inst : inst'[i].life = "closed"
    BY <1>0, <2>1 DEF SameTalk, Instance
  <2>3. Owner' = Owner /\ Talk' = Talk /\ Running' = {} /\ Record' = Record
    <3>1. Owner' = Owner /\ Talk' = Talk
      BY <2>2 DEF SameTalk, Owner, Talk
    <3>2. \A i \in DOMAIN inst' : inst'[i].life # "live"
      BY <2>2 DEF SameTalk
    <3>3. Running' = {}
      BY <3>2 DEF Running
    <3>4. Record' = Record
      BY <2>1 DEF Record
    <3> QED
      BY <3>1, <3>3, <3>4
  <2>4. Doomed' = {}
    <3>1. ASSUME NEW p \in Op PROVE op'[p].at \notin {"closing", "purge"}
      <4>1. op[p] \in OpRec
        BY <1>0
      <4> QED
        BY <2>1, <4>1 DEF OpRec
    <3> QED
      BY <3>1 DEF Doomed
  <2>5. Directory!Die
    BY <2>1, <2>3, <2>4 DEF Directory!Die
  <2> QED
    BY <2>5 DEF DirectoryStep, Directory!DirectoryNext
<1> QED
  BY <1>1, <1>2, <1>3

\* The conversations are told apart by id in every reachable state.
LEMMA TalkInvariant == Spec => [](IInv /\ TalkShape)
<1>1. Init => TalkShape
  <2> SUFFICES ASSUME Init PROVE TalkShape
    OBVIOUS
  <2>1. inst = <<>> /\ store = <<>> /\ writes = {} /\ \A o \in Op : op[o].at = "idle"
    BY DEF Init, IdleOp
  <2> QED
    BY <2>1 DEF TalkShape, OwnTalk, StoreTalks, OpTalks
<1>2. IInv /\ TalkShape /\ [Next]_vars => TalkShape'
  BY TalkStep
<1> QED
  BY <1>1, <1>2, RegistryInvariant, PTL DEF Spec

\* The registry is a directory of sessions: whatever requests, saves, the reaper
\* and a restart do to one another, their clients see steps of SessionDirectory.
THEOREM RegistryImplementsDirectory == Spec => ImplementsDirectory
<1>1. Init => Directory!DirectoryInit
  <2> SUFFICES ASSUME Init PROVE Directory!DirectoryInit
    OBVIOUS
  <2>1. mem = [s \in Sid |-> 0] /\ inst = <<>> /\ store = <<>> /\ \A o \in Op : op[o].at = "idle"
    BY DEF Init, IdleOp
  <2>2. Owner = <<>> /\ Talk = <<>> /\ Running = {} /\ Record = <<>>
    BY <2>1 DEF Owner, Talk, Running, Record
  <2>3. Doomed = {}
    BY <2>1 DEF Doomed
  <2> QED
    BY <2>1, <2>2, <2>3 DEF Directory!DirectoryInit
<1>2. (IInv /\ TalkShape) /\ [Next]_vars =>
        [Directory!DirectoryNext]_(Directory!directoryVars)
  <2> SUFFICES ASSUME IInv, TalkShape, [Next]_vars PROVE DirectoryStep
    BY DEF DirectoryStep
  <2>1. CASE UNCHANGED vars
    BY <2>1, UnseenInDirectory DEF vars, SameObjects, Owner, Talk, Running, Record, Doomed
  <2> QED
    BY <2>1, ServeSteps, DeleteSteps, LaterSteps, EndSteps DEF Next, Handler
<1> QED
  BY <1>1, <1>2, TalkInvariant, PTL DEF Spec, ImplementsDirectory, Directory!DirectorySpec
=============================================================================
