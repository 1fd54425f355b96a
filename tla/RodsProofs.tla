----------------------------- MODULE RodsProofs -----------------------------
(***************************************************************************)
(* Proofs about Rods, for any users, names, configurations, arguments,       *)
(* inodes and limits.                                                        *)
(***************************************************************************)
EXTENDS Rods, SequenceTheorems, TLAPS

----------------------------------------------------------------------------
(* What the steps of a request look like *)

Comms == {"null", "open", "in", "freed", "closed"}

(* The call each procedure makes of iRODS, and its last step.               *)
CallOf(op) ==
    CASE op = "GETATTR" -> "fileSize" [] op = "SETATTR" -> "changeAttr"
      [] op = "ACCESS" -> "getFile"   [] op = "READ" -> "read"
      [] op = "WRITE" -> "iWrite"     [] op = "READDIR" -> "listCollection"
      [] op = "OTHER" -> "call"

LastOf(op) == IF op = "READ" THEN "read" ELSE IF op = "WRITE" THEN "close" ELSE "done"

(* Steps that are the last of a plan; SETATTR's are followed by a new plan.  *)
Finals(op) == {LastOf(op), "set_attr", "fstat", "unsafe", "times"}

Attrs == {"size", "owner", "mode"}

StepNames ==
    Attrs \cup {"connect", "login", "disconnect", "done", "close", "pwrite", "set_attr", "fstat",
                "unsafe", "closefd", "times"}
    \cup {"fileSize", "changeAttr", "getFile", "read", "iWrite", "listCollection", "call"}

StepsOf(r) ==
    {"connect", "login", CallOf(r.op), LastOf(r.op)}
    \cup (IF r.op = "READ" THEN {} ELSE {"disconnect"})
    \cup (IF r.op = "WRITE" THEN {"pwrite"} ELSE {})
    \cup (IF r.op = "SETATTR"
          THEN {"set_attr", "fstat", "unsafe", "closefd", "times"} \cup (Attrs \cap r.arg.set)
          ELSE {})

(* b may follow a in a plan of op.                                           *)
Follows(op, a, b) ==
    \/ a = "pwrite" /\ b = "connect"
    \/ a = "connect" /\ b = "login"
    \/ a = "login" /\ b = CallOf(op)
    \/ a = CallOf(op) /\ b = "disconnect"
    \/ a = "disconnect" /\ b = LastOf(op)
    \/ a \in Attrs /\ b \in Attrs \cup {"closefd", "times"}
    \/ a = "closefd" /\ b = "times"

(* todo is a plan of the request r.                                          *)
Planned(r, todo) ==
    /\ todo \in Seq(StepNames) /\ todo # <<>>
    /\ \A i \in 1..Len(todo) : todo[i] \in StepsOf(r)
    /\ \A i \in 1..(Len(todo) - 1) : Follows(r.op, todo[i], todo[i + 1])
    /\ todo[Len(todo)] \in Finals(r.op)

(* What has become of the connection when a step is taken.                   *)
CommAt(r, step) ==
    CASE step = "login" -> {"null", "open"}
      [] step = CallOf(r.op) \/ step = "disconnect" -> {"null", "in", "freed"}
      [] step \in {"done", "close"} -> {"closed"}
      [] OTHER -> {"null"}

IsRequest(r) ==
    r \in [op : Ops, uid : Uids, real : {r.real}, rods : {r.rods}, todo : Seq(StepNames), arg : {r.arg},
           ino : Inos, fd : Inos \cup {0}, comm : Comms, status : Reports, size : Nat, seen : SUBSET Nat]

----------------------------------------------------------------------------
(* The parts of the invariant *)

Bytes == {"o", "w", "0", "x", " "}

Objects == [there : BOOLEAN, data : Seq(Bytes), acl : Levels, shared : SUBSET (Levels \ {"null"})]
Files == [there : BOOLEAN, ino : Inos, kind : {"reg", "dev"}, mode : Mode, data : Seq(Bytes)]

Types ==
    /\ conf \in Configurations
    /\ obj \in Objects /\ mir \in Files
    /\ reader \in [got : Seq(Bytes), eof : BOOLEAN]
    /\ agree \in BOOLEAN /\ quiet \in BOOLEAN
    /\ shown \in [asked : SUBSET Mode, listed : BOOLEAN]
    /\ reply.status \in Reports /\ reply.size \in Nat

(* The request, its plan and the connection it is to have at its next step.  *)
Planning ==
    req # NoReq =>
        /\ IsRequest(req)
        /\ Planned(req, req.todo)
        /\ req.comm \in CommAt(req, Head(req.todo))

Counting ==
    /\ conns \in Nat /\ kept \in Nat /\ conns <= MaxConns
    /\ ConnectionsReturned

(* The arguments stay what they were.                                        *)
Arguments ==
    req # NoReq =>
        /\ req.op = "WRITE" => req.arg.offset \in Nat /\ req.arg.len \in Nat
        /\ req.op = "READ" => /\ req.arg.offset = Len(reader.got) /\ req.arg.count \in Nat
                              /\ ~reader.eof
        /\ req.op = "SETATTR" /\ "mode" \in req.arg.set => req.arg.mode \in Mode

(* The paths are those the translations gave.                                *)
Translated ==
    req # NoReq => /\ req.real = RealPath(req.op, req.uid, req.arg)
                   /\ req.rods \in RodsPaths(req.op, req.uid, req.arg)

(* WRITE has changed the file and not yet the object.                        *)
HalfWritten ==
    req # NoReq /\ req.op = "WRITE" /\ Head(req.todo) \in {"connect", "login", "iWrite"} /\ OnMirror

Agreement ==
    agree => mir.data = IF HalfWritten THEN Put(obj.data, req.arg.offset, req.arg.len) ELSE obj.data

(* The descriptor SETATTR holds while it sets attributes.                    *)
Holding ==
    /\ req # NoReq /\ Head(req.todo) \in Attrs /\ req.fd # 0 => req.fd = req.ino
    /\ OnlyHandlesObject

Inv == /\ Types /\ Planning /\ Counting /\ Arguments /\ Translated
       /\ Agreement /\ Holding

----------------------------------------------------------------------------
(* Plans *)

LEMMA PlanType ==
  ASSUME NEW r, NEW todo, Planned(r, todo)
  PROVE  /\ todo \in Seq(StepNames) /\ todo # <<>> /\ Len(todo) \in Nat /\ Len(todo) >= 1
         /\ Head(todo) = todo[1] /\ Head(todo) \in StepsOf(r)
<1>1. todo \in Seq(StepNames) /\ todo # <<>>
  BY DEF Planned
<1>2. Len(todo) \in Nat /\ Len(todo) >= 1 /\ Head(todo) = todo[1]
  BY <1>1, EmptySeq, LenProperties
<1> QED
  BY <1>1, <1>2 DEF Planned

(* A step that is not the last is followed by another plan, which begins     *)
(* with one of the steps that may follow.                                    *)
LEMMA PlanTail ==
  ASSUME NEW r, NEW todo, Planned(r, todo), Head(todo) \notin Finals(r.op)
  PROVE  Planned(r, Tail(todo)) /\ Follows(r.op, Head(todo), Head(Tail(todo)))
<1> DEFINE t == Tail(todo)
<1>1. /\ todo \in Seq(StepNames) /\ todo # <<>> /\ Len(todo) \in Nat /\ Len(todo) >= 1
      /\ Head(todo) = todo[1]
  BY PlanType
<1>2. Len(todo) > 1
  BY <1>1 DEF Planned
<1>3. /\ t \in Seq(StepNames) /\ Len(t) = Len(todo) - 1
      /\ \A i \in 1..Len(t) : t[i] = todo[i + 1]
  BY <1>1, HeadTailProperties
<1> HIDE DEF t
<1>4. t # <<>> /\ Head(t) = t[1] /\ t[1] = todo[2]
  BY <1>1, <1>2, <1>3, EmptySeq
<1>5. \A i \in 1..Len(t) : t[i] \in StepsOf(r)
  BY <1>1, <1>3 DEF Planned
<1>6. \A i \in 1..(Len(t) - 1) : Follows(r.op, t[i], t[i + 1])
  <2> SUFFICES ASSUME NEW i \in 1..(Len(t) - 1) PROVE Follows(r.op, t[i], t[i + 1])
    OBVIOUS
  <2>1. t[i] = todo[i + 1] /\ t[i + 1] = todo[i + 2]
    BY <1>1, <1>3
  <2>2. i + 1 \in 1..(Len(todo) - 1) /\ (i + 1) + 1 = i + 2
    BY <1>1, <1>3
  <2>3. Follows(r.op, todo[i + 1], todo[(i + 1) + 1])
    BY <2>2 DEF Planned
  <2> QED
    BY <2>1, <2>2, <2>3
<1>7. t[Len(t)] \in Finals(r.op)
  <2>1. Len(t) \in 1..Len(t) /\ Len(t) + 1 = Len(todo)
    BY <1>1, <1>2, <1>3
  <2>2. t[Len(t)] = todo[Len(todo)]
    BY <1>3, <2>1
  <2> QED
    BY <2>2 DEF Planned
<1>8. Follows(r.op, todo[1], todo[1 + 1])
  BY <1>1, <1>2 DEF Planned
<1>9. Planned(r, t)
  BY <1>3, <1>4, <1>5, <1>6, <1>7 DEF Planned
<1>10. Follows(r.op, Head(todo), Head(t))
  BY <1>1, <1>4, <1>8
<1> QED
  BY <1>9, <1>10 DEF t

(* A step put in front of a plan.                                            *)
LEMMA PlanCons ==
  ASSUME NEW r, NEW t, Planned(r, t), NEW x \in StepNames, x \in StepsOf(r), Follows(r.op, x, Head(t))
  PROVE  Planned(r, <<x>> \o t) /\ Head(<<x>> \o t) = x
<1> DEFINE f == <<x>>
           s == f \o t
<1>1. /\ t \in Seq(StepNames) /\ t # <<>> /\ Len(t) \in Nat /\ Len(t) >= 1 /\ Head(t) = t[1]
  BY PlanType
<1>2. f \in Seq(StepNames) /\ Len(f) = 1 /\ f[1] = x
  OBVIOUS
<1> HIDE DEF f
<1>3. /\ s \in Seq(StepNames) /\ Len(s) = Len(f) + Len(t)
      /\ \A i \in 1..(Len(f) + Len(t)) : s[i] = IF i <= Len(f) THEN f[i] ELSE t[i - Len(f)]
  BY <1>1, <1>2, ConcatProperties
<1>4. /\ Len(s) = Len(t) + 1 /\ s[1] = x
      /\ \A i \in 1..Len(t) : s[i + 1] = t[i]
  <2> SUFFICES ASSUME NEW i \in 1..Len(t) PROVE s[i + 1] = t[i]
    BY <1>1, <1>2, <1>3
  <2> QED
    BY <1>1, <1>2, <1>3
<1> HIDE DEF s
<1>5. s # <<>> /\ Head(s) = x
  BY <1>1, <1>3, <1>4, EmptySeq
<1>6. ASSUME NEW i \in 1..Len(s) PROVE s[i] \in StepsOf(r)
  <2>1. CASE i = 1
    BY <1>4, <2>1
  <2>2. CASE i # 1
    <3>1. i - 1 \in 1..Len(t) /\ (i - 1) + 1 = i
      BY <1>1, <1>4, <2>2
    <3>2. s[i] = t[i - 1]
      BY <1>4, <3>1
    <3> QED
      BY <3>1, <3>2 DEF Planned
  <2> QED
    BY <2>1, <2>2
<1>7. ASSUME NEW i \in 1..(Len(s) - 1) PROVE Follows(r.op, s[i], s[i + 1])
  <2>1. CASE i = 1
    <3>1. s[i] = x /\ s[i + 1] = t[1]
      BY <1>1, <1>4, <2>1
    <3> QED
      BY <1>1, <3>1
  <2>2. CASE i # 1
    <3>1. i - 1 \in 1..(Len(t) - 1) /\ (i - 1) + 1 = i /\ i \in 1..Len(t) /\ i - 1 \in 1..Len(t)
      BY <1>1, <1>4, <2>2
    <3>2. s[i] = t[i - 1] /\ s[i + 1] = t[(i - 1) + 1]
      BY <1>4, <3>1
    <3> QED
      BY <3>1, <3>2 DEF Planned
  <2> QED
    BY <2>1, <2>2
<1>8. s[Len(s)] \in Finals(r.op)
  <2>1. s[Len(s)] = t[Len(t)]
    BY <1>1, <1>4
  <2> QED
    BY <2>1 DEF Planned
<1> QED
  BY <1>3, <1>5, <1>6, <1>7, <1>8 DEF Planned, f, s

(* Short tuples as sequences.                                                *)
LEMMA Tuples ==
  ASSUME NEW S, NEW a \in S, NEW b \in S, NEW c \in S, NEW d \in S, NEW e \in S, NEW f \in S
  PROVE  /\ <<a, b>> \in Seq(S) /\ <<a, b, c>> \in Seq(S)
         /\ <<a, b, c, d, e>> \in Seq(S) /\ <<a, b, c, d, e, f>> \in Seq(S)
<1>1. ASSUME NEW t, NEW n \in Nat, DOMAIN t = 1..n, t = [i \in DOMAIN t |-> t[i]],
             \A i \in 1..n : t[i] \in S
      PROVE  t \in Seq(S)
  <2>1. t \in [1..n -> S]
    BY <1>1
  <2> QED
    BY <2>1
<1>2. <<a, b>> \in Seq(S)
  <2> DEFINE t == <<a, b>>
  <2>1. DOMAIN t = 1..2 /\ t = [i \in DOMAIN t |-> t[i]] /\ t[1] = a /\ t[2] = b
    OBVIOUS
  <2> HIDE DEF t
  <2>2. \A i \in 1..2 : t[i] \in S
    BY <2>1
  <2>3. t \in Seq(S)
    BY <1>1, <2>1, <2>2
  <2> QED
    BY <2>3 DEF t
<1>3. <<a, b, c>> \in Seq(S)
  <2> DEFINE t == <<a, b, c>>
  <2>1. DOMAIN t = 1..3 /\ t = [i \in DOMAIN t |-> t[i]] /\ t[1] = a /\ t[2] = b /\ t[3] = c
    OBVIOUS
  <2> HIDE DEF t
  <2>2. \A i \in 1..3 : t[i] \in S
    BY <2>1
  <2>3. t \in Seq(S)
    BY <1>1, <2>1, <2>2
  <2> QED
    BY <2>3 DEF t
<1>4. <<a, b, c, d, e>> \in Seq(S)
  <2> DEFINE t == <<a, b, c, d, e>>
  <2>1. /\ DOMAIN t = 1..5 /\ t = [i \in DOMAIN t |-> t[i]]
        /\ t[1] = a /\ t[2] = b /\ t[3] = c /\ t[4] = d /\ t[5] = e
    OBVIOUS
  <2> HIDE DEF t
  <2>2. \A i \in 1..5 : t[i] \in S
    BY <2>1
  <2>3. t \in Seq(S)
    BY <1>1, <2>1, <2>2
  <2> QED
    BY <2>3 DEF t
<1>5. <<a, b, c, d, e, f>> \in Seq(S)
  <2> DEFINE t == <<a, b, c, d, e, f>>
  <2>1. /\ DOMAIN t = 1..6 /\ t = [i \in DOMAIN t |-> t[i]]
        /\ t[1] = a /\ t[2] = b /\ t[3] = c /\ t[4] = d /\ t[5] = e /\ t[6] = f
    OBVIOUS
  <2> HIDE DEF t
  <2>2. \A i \in 1..6 : t[i] \in S
    BY <2>1
  <2>3. t \in Seq(S)
    BY <1>1, <2>1, <2>2
  <2> QED
    BY <2>3 DEF t
<1> QED
  BY <1>2, <1>3, <1>4, <1>5

(* A plan of five steps: connect, call, disconnect.                          *)
LEMMA PlanCall ==
  ASSUME NEW r, r.op \in Ops \ {"READ", "WRITE"}
  PROVE  /\ Planned(r, <<"connect", "login", CallOf(r.op), "disconnect", "done">>)
         /\ Head(<<"connect", "login", CallOf(r.op), "disconnect", "done">>) = "connect"
<1> DEFINE c == CallOf(r.op)
           t == <<"connect", "login", c, "disconnect", "done">>
<1>1. c \in StepNames /\ LastOf(r.op) = "done"
  BY DEF CallOf, LastOf, Ops, StepNames
<1>2. {"connect", "login", c, "disconnect", "done"} \subseteq StepsOf(r) /\ "done" \in Finals(r.op)
  BY <1>1 DEF StepsOf, Finals
<1>3. /\ Follows(r.op, "connect", "login") /\ Follows(r.op, "login", c)
      /\ Follows(r.op, c, "disconnect") /\ Follows(r.op, "disconnect", "done")
  BY <1>1 DEF Follows
<1> HIDE DEF c
<1>4. t \in Seq(StepNames)
  BY <1>1, Tuples DEF StepNames
<1>5. /\ t # <<>> /\ Head(t) = "connect" /\ Len(t) = 5
      /\ t[1] = "connect" /\ t[2] = "login" /\ t[3] = c /\ t[4] = "disconnect" /\ t[5] = "done"
  OBVIOUS
<1> HIDE DEF t
<1>6. \A i \in 1..5 : t[i] \in StepsOf(r)
  BY <1>2, <1>5
<1>7. \A i \in 1..4 : Follows(r.op, t[i], t[i + 1])
  BY <1>3, <1>5
<1>8. Planned(r, t)
  BY <1>2, <1>4, <1>5, <1>6, <1>7 DEF Planned
<1> QED
  BY <1>5, <1>8 DEF t, c

(* The plan each procedure begins with.                                      *)
LEMMA PlanStart ==
  ASSUME NEW r, r.op \in Ops
  PROVE  Planned(r, Steps(r.op)) /\ Head(Steps(r.op)) \in {"connect", "pwrite", "set_attr"}
<1> DEFINE t == Steps(r.op)
<1>1. CASE r.op \in {"GETATTR", "ACCESS", "READDIR", "OTHER"}
  <2>1. t = <<"connect", "login", CallOf(r.op), "disconnect", "done">>
    BY <1>1 DEF Steps, CallOf
  <2> HIDE DEF t
  <2>2. r.op \in Ops \ {"READ", "WRITE"}
    BY <1>1
  <2>3. Planned(r, t) /\ Head(t) = "connect"
    BY <2>1, <2>2, PlanCall
  <2> QED
    BY <2>3 DEF t
<1>2. CASE r.op = "READ"
  <2>1. t = <<"connect", "login", "read">>
    BY <1>2 DEF Steps
  <2>2. t \in Seq(StepNames)
    BY <2>1, Tuples DEF StepNames
  <2> HIDE DEF t
  <2>3. /\ t # <<>> /\ Head(t) = "connect" /\ Len(t) = 3
        /\ t[1] = "connect" /\ t[2] = "login" /\ t[3] = "read"
    BY <2>1
  <2>4. \A i \in 1..3 : t[i] \in StepsOf(r)
    BY <1>2, <2>3 DEF StepsOf, CallOf, LastOf
  <2>5. \A i \in 1..2 : Follows(r.op, t[i], t[i + 1])
    BY <1>2, <2>3 DEF Follows, CallOf
  <2>6. t[3] \in Finals(r.op)
    BY <1>2, <2>3 DEF Finals, LastOf
  <2>7. Planned(r, t)
    BY <2>2, <2>3, <2>4, <2>5, <2>6 DEF Planned
  <2> QED
    BY <2>3, <2>7 DEF t
<1>3. CASE r.op = "WRITE"
  <2>1. t = <<"pwrite", "connect", "login", "iWrite", "disconnect", "close">>
    BY <1>3 DEF Steps
  <2>2. t \in Seq(StepNames)
    BY <2>1, Tuples DEF StepNames
  <2> HIDE DEF t
  <2>3. /\ t # <<>> /\ Head(t) = "pwrite" /\ Len(t) = 6
        /\ t[1] = "pwrite" /\ t[2] = "connect" /\ t[3] = "login" /\ t[4] = "iWrite"
        /\ t[5] = "disconnect" /\ t[6] = "close"
    BY <2>1
  <2>4. \A i \in 1..6 : t[i] \in StepsOf(r)
    BY <1>3, <2>3 DEF StepsOf, CallOf, LastOf
  <2>5. \A i \in 1..5 : Follows(r.op, t[i], t[i + 1])
    BY <1>3, <2>3 DEF Follows, CallOf, LastOf
  <2>6. t[6] \in Finals(r.op)
    BY <1>3, <2>3 DEF Finals, LastOf
  <2>7. Planned(r, t)
    BY <2>2, <2>3, <2>4, <2>5, <2>6 DEF Planned
  <2> QED
    BY <2>3, <2>7 DEF t
<1>4. CASE r.op = "SETATTR"
  <2>1. t = <<"set_attr">>
    BY <1>4 DEF Steps
  <2> HIDE DEF t
  <2>2. t \in Seq(StepNames) /\ t # <<>> /\ Head(t) = "set_attr" /\ Len(t) = 1 /\ t[1] = "set_attr"
    BY <2>1 DEF StepNames
  <2>3. Planned(r, t)
    BY <1>4, <2>2 DEF Planned, StepsOf, Finals
  <2> QED
    BY <2>2, <2>3 DEF t
<1> QED
  BY <1>1, <1>2, <1>3, <1>4 DEF Ops

(* The plans SETATTR makes on its way.                                       *)
LEMMA PlanLocal ==
  ASSUME NEW r, r.op = "SETATTR"
  PROVE  /\ Planned(r, <<"connect", "login", "changeAttr", "disconnect", "done">>)
         /\ Head(<<"connect", "login", "changeAttr", "disconnect", "done">>) = "connect"
         /\ Planned(r, <<"fstat">>) /\ Head(<<"fstat">>) = "fstat"
         /\ Planned(r, <<"unsafe">>) /\ Head(<<"unsafe">>) = "unsafe"
         /\ Planned(r, <<"times">>) /\ Head(<<"times">>) = "times"
<1>1. CallOf(r.op) = "changeAttr" /\ r.op \in Ops \ {"READ", "WRITE"}
  BY DEF CallOf, Ops
<1>2. ASSUME NEW x \in {"fstat", "unsafe", "times"}
      PROVE  Planned(r, <<x>>) /\ Head(<<x>>) = x
  <2> DEFINE t == <<x>>
  <2>1. t \in Seq(StepNames) /\ t # <<>> /\ Head(t) = x /\ Len(t) = 1 /\ t[1] = x
    BY DEF StepNames
  <2> HIDE DEF t
  <2>2. x \in StepsOf(r) /\ x \in Finals(r.op)
    BY DEF StepsOf, Finals
  <2>3. Planned(r, t)
    BY <2>1, <2>2 DEF Planned
  <2> QED
    BY <2>1, <2>3 DEF t
<1>3. Planned(r, <<"connect", "login", "changeAttr", "disconnect", "done">>)
  BY <1>1, PlanCall
<1> QED
  BY <1>2, <1>3

LEMMA PlanSetting ==
  ASSUME NEW r, r.op = "SETATTR", NEW x \in Attrs, NEW c, c = IF x \in r.arg.set THEN <<x>> ELSE <<>>,
         NEW t, Planned(r, t), Head(t) \in Attrs \cup {"closefd", "times"}
  PROVE  Planned(r, c \o t) /\ Head(c \o t) \in Attrs \cup {"closefd", "times"}
<1>1. CASE x \in r.arg.set
  <2>1. x \in StepNames /\ x \in StepsOf(r) /\ Follows(r.op, x, Head(t))
    BY <1>1 DEF Attrs, StepsOf, Follows, StepNames
  <2>2. c = <<x>>
    BY <1>1
  <2> QED
    BY <2>1, <2>2, PlanCons
<1>2. CASE x \notin r.arg.set
  <2>1. c \o t = t
    <3>1. t \in Seq(StepNames)
      BY PlanType
    <3> QED
      BY <1>2, <3>1, ConcatEmptySeq
  <2> QED
    BY <2>1
<1> QED
  BY <1>1, <1>2

LEMMA PairConcat ==
  ASSUME NEW S, NEW x \in S, NEW y \in S
  PROVE  <<x>> \o <<y>> = <<x, y>>
<1> DEFINE s == <<x>>
           t == <<y>>
           u == <<x, y>>
<1>1. s \in Seq(S) /\ Len(s) = 1 /\ s[1] = x /\ t \in Seq(S) /\ Len(t) = 1 /\ t[1] = y
  OBVIOUS
<1>2. u \in Seq(S) /\ Len(u) = 2 /\ u[1] = x /\ u[2] = y
  BY Tuples
<1> HIDE DEF s, t, u
<1>3. /\ s \o t \in Seq(S) /\ Len(s \o t) = 2
      /\ \A i \in 1..2 : (s \o t)[i] = IF i <= 1 THEN s[i] ELSE t[i - 1]
  BY <1>1, ConcatProperties
<1>4. \A i \in 1..2 : (s \o t)[i] = u[i]
  BY <1>1, <1>2, <1>3
<1>5. s \o t = u
  BY <1>2, <1>3, <1>4, SeqEqual
<1> QED
  BY <1>5 DEF s, t, u

LEMMA PlanSettings ==
  ASSUME NEW r, r.op = "SETATTR", NEW a, NEW b, NEW c, NEW last,
         a = IF "size" \in r.arg.set THEN <<"size">> ELSE <<>>,
         b = IF "owner" \in r.arg.set THEN <<"owner">> ELSE <<>>,
         c = IF "mode" \in r.arg.set THEN <<"mode">> ELSE <<>>,
         last \in {<<"closefd", "times">>, <<"times">>}
  PROVE  /\ Planned(r, (a \o b \o c) \o last)
         /\ Head((a \o b \o c) \o last) \in Attrs \cup {"closefd", "times"}
<1>1. Planned(r, last) /\ Head(last) \in Attrs \cup {"closefd", "times"}
  <2>1. Planned(r, <<"times">>) /\ Head(<<"times">>) = "times"
    BY PlanLocal
  <2>2. CASE last = <<"times">>
    BY <2>1, <2>2
  <2>3. CASE last = <<"closefd", "times">>
    <3>1. "closefd" \in StepsOf(r) /\ Follows(r.op, "closefd", Head(<<"times">>))
      BY <2>1 DEF StepsOf, Follows
    <3>2. Planned(r, <<"closefd">> \o <<"times">>) /\ Head(<<"closefd">> \o <<"times">>) = "closefd"
      BY <2>1, <3>1, PlanCons DEF StepNames
    <3>3. ASSUME NEW x \in StepNames, NEW y \in StepNames PROVE <<x>> \o <<y>> = <<x, y>>
      BY ONLY PairConcat
    <3>4. <<"closefd">> \o <<"times">> = <<"closefd", "times">>
      BY <3>3, Zenon DEF StepNames
    <3> QED
      BY <2>3, <3>2, <3>4
  <2> QED
    BY <2>2, <2>3
<1>2. Planned(r, c \o last) /\ Head(c \o last) \in Attrs \cup {"closefd", "times"}
  BY <1>1, PlanSetting DEF Attrs
<1>3. Planned(r, b \o (c \o last)) /\ Head(b \o (c \o last)) \in Attrs \cup {"closefd", "times"}
  BY <1>2, PlanSetting DEF Attrs
<1>4. /\ Planned(r, a \o (b \o (c \o last)))
      /\ Head(a \o (b \o (c \o last))) \in Attrs \cup {"closefd", "times"}
  BY <1>3, PlanSetting DEF Attrs
<1>5. (a \o b \o c) \o last = a \o (b \o (c \o last))
  <2>1. ASSUME NEW x \in StepNames, NEW p \in BOOLEAN
        PROVE  (IF p THEN <<x>> ELSE <<>>) \in Seq(StepNames)
    OBVIOUS
  <2>2. a \in Seq(StepNames) /\ b \in Seq(StepNames) /\ c \in Seq(StepNames)
    BY <2>1 DEF StepNames, Attrs
  <2>3. last \in Seq(StepNames)
    BY <1>1, PlanType
  <2>4. a \o b \in Seq(StepNames) /\ c \o last \in Seq(StepNames)
    BY ONLY <2>2, <2>3, ConcatProperties
  <2> DEFINE ab == a \o b
             cl == c \o last
  <2>5. ab \in Seq(StepNames) /\ cl \in Seq(StepNames)
    BY ONLY <2>4
  <2>6. cl = c \o last /\ ab = a \o b
    OBVIOUS
  <2> HIDE DEF ab, cl
  <2>7. (ab \o c) \o last = ab \o (c \o last)
    BY ONLY <2>2, <2>3, <2>5, ConcatAssociative
  <2>8. (a \o b) \o cl = a \o (b \o cl)
    BY ONLY <2>2, <2>5, ConcatAssociative
  <2> QED
    BY ONLY <2>6, <2>7, <2>8, Zenon
<1> QED
  BY <1>4, <1>5

----------------------------------------------------------------------------
(* Requests *)

(* q is r at another step.                                                   *)
SameCall(q, r) ==
    /\ IsRequest(q) /\ q # NoReq
    /\ q.op = r.op /\ q.uid = r.uid /\ q.real = r.real /\ q.rods = r.rods
    /\ q.arg = r.arg /\ q.ino = r.ino

LEMMA RequestType ==
  ASSUME NEW r, IsRequest(r)
  PROVE  /\ r # NoReq /\ r.op \in Ops /\ r.uid \in Uids /\ r.todo \in Seq(StepNames) /\ r.ino \in Inos
         /\ r.fd \in Inos \cup {0} /\ r.comm \in Comms /\ r.status \in Reports
         /\ r.size \in Nat /\ r.seen \in SUBSET Nat
BY DEF IsRequest, NoReq, Ops

(* A plan remains one.                                                       *)
LEMMA PlanSame ==
  ASSUME NEW r, NEW q, SameCall(q, r)
  PROVE  /\ \A t : Planned(r, t) => Planned(q, t)
         /\ \A step : CommAt(q, step) = CommAt(r, step)
         /\ Finals(q.op) = Finals(r.op)
BY DEF SameCall, Planned, StepsOf, CommAt

(* What a step says about the procedure.                                     *)
LEMMA StepOp ==
  ASSUME NEW r, r.op \in Ops, NEW h, h \in StepsOf(r)
  PROVE  /\ h = "fileSize" => r.op = "GETATTR"
         /\ h = "getFile" => r.op = "ACCESS"
         /\ h = "read" => r.op = "READ"
         /\ h \in {"pwrite", "iWrite", "close"} => r.op = "WRITE"
         /\ h = "listCollection" => r.op = "READDIR"
         /\ h = "call" => r.op = "OTHER"
         /\ h \in {"changeAttr", "set_attr", "fstat", "unsafe", "closefd", "times"} => r.op = "SETATTR"
         /\ h \in Attrs => r.op = "SETATTR" /\ h \in r.arg.set
         /\ h = "disconnect" => r.op # "READ"
         /\ h = "done" => r.op \notin {"READ", "WRITE"}
BY DEF StepsOf, CallOf, LastOf, Ops, Attrs

(* What may follow a step.                                                   *)
LEMMA StepNext ==
  ASSUME NEW op \in Ops, NEW a, NEW b, Follows(op, a, b)
  PROVE  /\ a = "pwrite" => b = "connect"
         /\ a = "connect" => b = "login"
         /\ a = "login" => b = CallOf(op)
         /\ a = CallOf(op) => b = "disconnect"
         /\ a = "disconnect" => b = LastOf(op)
         /\ a \in Attrs => b \in Attrs \cup {"closefd", "times"}
         /\ a = "closefd" => b = "times"
BY DEF Follows, CallOf, LastOf, Ops, Attrs

(* The last step of a plan is none of those that are followed by another.    *)
LEMMA StepNotLast ==
  ASSUME NEW op \in Ops, NEW h
  PROVE  /\ h \in {"pwrite", "connect", "login", "disconnect", "closefd"} => h \notin Finals(op)
         /\ h = CallOf(op) /\ op # "READ" => h \notin Finals(op)
         /\ h \in Attrs => h \notin Finals(op)
BY DEF Finals, CallOf, LastOf, Ops, Attrs

LEMMA CommOf ==
  ASSUME NEW r, r.op \in Ops
  PROVE  /\ \A h \in {"connect", "pwrite", "set_attr", "fstat", "unsafe", "closefd", "times"} :
                CommAt(r, h) = {"null"}
         /\ \A h \in Attrs : CommAt(r, h) = {"null"}
         /\ CommAt(r, "login") = {"null", "open"}
         /\ CommAt(r, CallOf(r.op)) = {"null", "in", "freed"}
         /\ CommAt(r, "disconnect") = {"null", "in", "freed"}
         /\ CommAt(r, "done") = {"closed"} /\ CommAt(r, "close") = {"closed"}
<1>1. CASE r.op = "GETATTR"
  BY <1>1 DEF CommAt, CallOf, Attrs
<1>2. CASE r.op = "SETATTR"
  BY <1>2 DEF CommAt, CallOf, Attrs
<1>3. CASE r.op = "ACCESS"
  BY <1>3 DEF CommAt, CallOf, Attrs
<1>4. CASE r.op = "READ"
  BY <1>4 DEF CommAt, CallOf, Attrs
<1>5. CASE r.op = "WRITE"
  BY <1>5 DEF CommAt, CallOf, Attrs
<1>6. CASE r.op = "READDIR"
  BY <1>6 DEF CommAt, CallOf, Attrs
<1>7. CASE r.op = "OTHER"
  BY <1>7 DEF CommAt, CallOf, Attrs
<1> QED
  BY <1>1, <1>2, <1>3, <1>4, <1>5, <1>6, <1>7 DEF Ops

(* What is known of the request at a step.                                   *)
LEMMA Working ==
  ASSUME Planning, req # NoReq
  PROVE  /\ IsRequest(req) /\ req.op \in Ops
         /\ Planned(req, req.todo) /\ Head(req.todo) \in StepsOf(req)
         /\ req.comm \in CommAt(req, Head(req.todo))
<1>1. IsRequest(req) /\ Planned(req, req.todo) /\ req.comm \in CommAt(req, Head(req.todo))
  BY DEF Planning
<1>2. req.op \in Ops
  BY <1>1, RequestType
<1>3. Head(req.todo) \in StepsOf(req)
  BY <1>1, PlanType
<1> QED
  BY <1>1, <1>2, <1>3

(* A request goes on to the next step of its plan.                           *)
LEMMA Advance ==
  ASSUME Planning, req # NoReq, Head(req.todo) \notin Finals(req.op),
         NEW r, SameCall(r, req), r.todo = req.todo, Then(r)
  PROVE  /\ SameCall(req', req) /\ Planned(req', req'.todo)
         /\ Follows(req.op, Head(req.todo), Head(req'.todo))
         /\ req'.fd = r.fd /\ req'.comm = r.comm /\ req'.status = r.status
         /\ req'.size = r.size /\ req'.seen = r.seen
<1>1. IsRequest(req) /\ Planned(req, req.todo)
  BY Working
<1>2. Planned(req, Tail(req.todo)) /\ Follows(req.op, Head(req.todo), Head(Tail(req.todo)))
  BY <1>1, PlanTail
<1>3. IsRequest(r) /\ Tail(req.todo) \in Seq(StepNames)
  BY <1>2, PlanType DEF SameCall
<1>4. req' = [r EXCEPT !.todo = Tail(req.todo)]
  BY DEF Then
<1>5. /\ SameCall(req', r) /\ req'.todo = Tail(req.todo)
      /\ req'.fd = r.fd /\ req'.comm = r.comm /\ req'.status = r.status
      /\ req'.size = r.size /\ req'.seen = r.seen
  BY <1>3, <1>4 DEF IsRequest, SameCall, NoReq, Ops
<1>6. SameCall(req', req)
  BY <1>5 DEF SameCall
<1>7. Planned(req', req'.todo)
  BY <1>2, <1>5, <1>6, PlanSame
<1> QED
  BY <1>2, <1>5, <1>6, <1>7

(* SETATTR goes on to iRODS.                                                 *)
LEMMA GoesOn ==
  ASSUME Planning, req # NoReq, req.op = "SETATTR", NEW s \in Reports, Local(s)
  PROVE  /\ SameCall(req', req) /\ Planned(req', req'.todo) /\ Head(req'.todo) = "connect"
         /\ req'.fd = 0 /\ req'.comm = req.comm /\ req'.status = s
         /\ req'.size = req.size /\ req'.seen = req.seen
<1> DEFINE t == <<"connect", "login", "changeAttr", "disconnect", "done">>
<1>1. IsRequest(req)
  BY Working
<1>2. Planned(req, t) /\ Head(t) = "connect"
  BY PlanLocal
<1>3. t \in Seq(StepNames)
  BY <1>2, PlanType
<1>4. req' = [req EXCEPT !.status = s, !.fd = 0, !.todo = t]
  BY DEF Local
<1> HIDE DEF t
<1>5. /\ SameCall(req', req) /\ req'.todo = t /\ req'.fd = 0 /\ req'.comm = req.comm /\ req'.status = s
      /\ req'.size = req.size /\ req'.seen = req.seen
  BY <1>1, <1>3, <1>4 DEF IsRequest, SameCall, NoReq, Ops
<1>6. Planned(req', req'.todo)
  BY <1>2, <1>5, PlanSame
<1> QED
  BY <1>2, <1>5, <1>6

----------------------------------------------------------------------------
(* What each action does to the request *)

(* The request is at step from and goes on to one of the steps to.           *)
Moves(from, to) ==
    /\ req # NoReq /\ Head(req.todo) = from /\ Head(req'.todo) \in to
    /\ SameCall(req', req) /\ Planned(req', req'.todo)

SameMarks == req'.fd = req.fd /\ req'.comm = req.comm

LEMMA DoneMoves ==
  ASSUME Planning, req # NoReq, Head(req.todo) \notin Finals(req.op), Done
  PROVE  /\ SameCall(req', req) /\ Planned(req', req'.todo)
         /\ Follows(req.op, Head(req.todo), Head(req'.todo))
         /\ SameMarks /\ req'.status = req.status
<1>1. IsRequest(req)
  BY Working
<1>2. SameCall(req, req)
  BY <1>1 DEF SameCall
<1>3. Then(req)
  BY DEF Done
<1> QED
  BY <1>2, <1>3, Advance DEF SameMarks

LEMMA CommMoves ==
  ASSUME Planning, req # NoReq, Head(req.todo) \notin Finals(req.op),
         NEW c \in Comms, Then([req EXCEPT !.comm = c])
  PROVE  /\ SameCall(req', req) /\ Planned(req', req'.todo)
         /\ Follows(req.op, Head(req.todo), Head(req'.todo))
         /\ req'.fd = req.fd /\ req'.comm = c /\ req'.status = req.status
<1> DEFINE r == [req EXCEPT !.comm = c]
<1>1. IsRequest(req)
  BY Working
<1>2. /\ SameCall(r, req) /\ r.todo = req.todo /\ r.comm = c
      /\ r.fd = req.fd /\ r.status = req.status /\ r.size = req.size /\ r.seen = req.seen
  BY <1>1 DEF IsRequest, SameCall, NoReq, Ops
<1>3. Then(r)
  OBVIOUS
<1> HIDE DEF r
<1> QED
  BY <1>2, <1>3, Advance

LEMMA ConnectMoves ==
  ASSUME Planning, rodsConnecUser
  PROVE  \/ Dies
         \/ /\ Moves("connect", {"login"}) /\ req'.fd = req.fd /\ req.comm = "null"
            /\ \/ req'.comm = "open" /\ conns < MaxConns /\ conns' = conns + 1
               \/ req'.comm = "null" /\ conns' = conns
            /\ touched' = {}
            /\ UNCHANGED <<conf, obj, mir, reply, reader, kept, agree, quiet, shown, outside>>
<1>1. req # NoReq /\ Head(req.todo) = "connect"
  BY DEF rodsConnecUser, At
<1>2. req.op \in Ops /\ req.comm = "null"
  BY <1>1, Working, CommOf
<1>3. "connect" \notin Finals(req.op)
  BY <1>2, StepNotLast
<1>4. ASSUME NEW c \in Comms, Then([req EXCEPT !.comm = c])
      PROVE  Moves("connect", {"login"}) /\ req'.fd = req.fd /\ req'.comm = c
  <2>1. /\ SameCall(req', req) /\ Planned(req', req'.todo)
        /\ Follows(req.op, Head(req.todo), Head(req'.todo))
        /\ req'.fd = req.fd /\ req'.comm = c
    BY <1>1, <1>3, <1>4, CommMoves
  <2>2. Head(req'.todo) = "login"
    BY <1>1, <1>2, <2>1, StepNext
  <2> QED
    BY <1>1, <2>1, <2>2 DEF Moves
<1>5. "open" \in Comms /\ "null" \in Comms
  BY DEF Comms
<1>6. CASE Dies
  BY <1>6
<1>7. CASE ~Dies
  <2>1. /\ \/ conns < MaxConns /\ conns' = conns + 1 /\ Then([req EXCEPT !.comm = "open"])
           \/ Then([req EXCEPT !.comm = "null"]) /\ UNCHANGED conns
        /\ touched' = {}
        /\ UNCHANGED <<conf, obj, mir, reply, reader, kept, agree, quiet, shown, outside>>
    BY <1>7 DEF rodsConnecUser
  <2>2. CASE conns < MaxConns /\ conns' = conns + 1 /\ Then([req EXCEPT !.comm = "open"])
    <3>1. Moves("connect", {"login"}) /\ req'.fd = req.fd /\ req'.comm = "open"
      BY <1>4, <1>5, <2>2
    <3> QED
      BY <1>2, <2>1, <2>2, <3>1
  <2>3. CASE Then([req EXCEPT !.comm = "null"]) /\ UNCHANGED conns
    <3>1. Moves("connect", {"login"}) /\ req'.fd = req.fd /\ req'.comm = "null"
      BY <1>4, <1>5, <2>3
    <3> QED
      BY <1>2, <2>1, <2>3, <3>1
  <2> QED
    BY <2>1, <2>2, <2>3
<1> QED
  BY <1>6, <1>7

LEMMA LoginMoves ==
  ASSUME Planning, rodsLogin
  PROVE  /\ Moves("login", {CallOf(req.op)}) /\ req'.fd = req.fd
         /\ \/ req.comm = "null" /\ req'.comm = "null" /\ conns' = conns
            \/ req.comm = "open" /\ req'.comm = "in" /\ conns' = conns
            \/ req.comm = "open" /\ req'.comm = "freed" /\ conns' = conns - 1
         /\ UNCHANGED <<conf, obj, mir, reply, reader, hist>>
<1>1. req # NoReq /\ Head(req.todo) = "login"
  BY DEF rodsLogin, At
<1>2. req.op \in Ops
  BY <1>1, Working
<1>3. "login" \notin Finals(req.op)
  BY <1>2, StepNotLast
<1>4. ASSUME SameCall(req', req), Planned(req', req'.todo), Follows(req.op, Head(req.todo), Head(req'.todo))
      PROVE  Moves("login", {CallOf(req.op)})
  <2>1. Head(req'.todo) = CallOf(req.op)
    BY <1>1, <1>2, <1>4, StepNext
  <2> QED
    BY <1>1, <1>4, <2>1 DEF Moves
<1>5. CASE req.comm = "null" /\ Done /\ UNCHANGED conns
  <2>1. /\ SameCall(req', req) /\ Planned(req', req'.todo)
        /\ Follows(req.op, Head(req.todo), Head(req'.todo)) /\ SameMarks
    BY <1>1, <1>3, <1>5, DoneMoves
  <2>2. Moves("login", {CallOf(req.op)})
    BY <1>4, <2>1
  <2> QED
    BY <1>5, <2>1, <2>2 DEF SameMarks, rodsLogin
<1>6. CASE req.comm = "open" /\ Then([req EXCEPT !.comm = "in"]) /\ UNCHANGED conns
  <2>1. /\ SameCall(req', req) /\ Planned(req', req'.todo)
        /\ Follows(req.op, Head(req.todo), Head(req'.todo))
        /\ req'.fd = req.fd /\ req'.comm = "in"
    BY <1>1, <1>3, <1>6, CommMoves DEF Comms
  <2>2. Moves("login", {CallOf(req.op)})
    BY <1>4, <2>1
  <2> QED
    BY <1>6, <2>1, <2>2 DEF rodsLogin
<1>7. CASE req.comm = "open" /\ Then([req EXCEPT !.comm = "freed"]) /\ conns' = conns - 1
  <2>1. /\ SameCall(req', req) /\ Planned(req', req'.todo)
        /\ Follows(req.op, Head(req.todo), Head(req'.todo))
        /\ req'.fd = req.fd /\ req'.comm = "freed"
    BY <1>1, <1>3, <1>7, CommMoves DEF Comms
  <2>2. Moves("login", {CallOf(req.op)})
    BY <1>4, <2>1
  <2> QED
    BY <1>7, <2>1, <2>2 DEF rodsLogin
<1> QED
  BY <1>5, <1>6, <1>7 DEF rodsLogin

LEMMA DisconnectMoves ==
  ASSUME Planning, rcDisconnect
  PROVE  \/ Dies
         \/ /\ Moves("disconnect", {LastOf(req.op)}) /\ req'.fd = req.fd
            /\ req.op # "READ" /\ req.comm \in {"null", "in", "freed"} /\ req'.comm = "closed"
            /\ conns' = IF req.comm = "in" THEN conns - 1 ELSE conns
            /\ UNCHANGED <<conf, obj, mir, reply, reader, hist>>
<1>1. req # NoReq /\ Head(req.todo) = "disconnect"
  BY DEF rcDisconnect, At
<1>2. req.op \in Ops /\ req.comm \in {"null", "in", "freed"} /\ req.op # "READ"
  BY <1>1, Working, CommOf, StepOp
<1>3. "disconnect" \notin Finals(req.op)
  BY <1>2, StepNotLast
<1>4. ASSUME Then([req EXCEPT !.comm = "closed"])
      PROVE  Moves("disconnect", {LastOf(req.op)}) /\ req'.fd = req.fd /\ req'.comm = "closed"
  <2>1. /\ SameCall(req', req) /\ Planned(req', req'.todo)
        /\ Follows(req.op, Head(req.todo), Head(req'.todo))
        /\ req'.fd = req.fd /\ req'.comm = "closed"
    BY <1>1, <1>3, <1>4, CommMoves DEF Comms
  <2>2. Head(req'.todo) = LastOf(req.op)
    BY <1>1, <1>2, <2>1, StepNext
  <2> QED
    BY <1>1, <2>1, <2>2 DEF Moves
<1> QED
  BY <1>2, <1>4 DEF rcDisconnect

(* A call of iRODS is followed by disconnecting.                             *)
LEMMA CallMoves ==
  ASSUME Planning, NEW call, At(call),
         call \in {"fileSize", "getFile", "iWrite", "listCollection", "call", "changeAttr"},
         NEW r, SameCall(r, req), r.todo = req.todo, Then(r)
  PROVE  /\ Moves(call, {"disconnect"}) /\ call = CallOf(req.op)
         /\ req'.fd = r.fd /\ req'.comm = r.comm /\ req'.size = r.size /\ req'.seen = r.seen
<1>1. req # NoReq /\ Head(req.todo) = call
  BY DEF At
<1>2. req.op \in Ops /\ call \in StepsOf(req)
  BY <1>1, Working
<1>3. call = CallOf(req.op) /\ req.op # "READ"
  BY <1>2, StepOp DEF CallOf
<1>4. call \notin Finals(req.op)
  BY <1>2, <1>3, StepNotLast
<1>5. /\ SameCall(req', req) /\ Planned(req', req'.todo)
      /\ Follows(req.op, Head(req.todo), Head(req'.todo))
      /\ req'.fd = r.fd /\ req'.comm = r.comm /\ req'.size = r.size /\ req'.seen = r.seen
  BY <1>1, <1>4, Advance
<1>6. Head(req'.todo) = "disconnect"
  BY <1>1, <1>2, <1>3, <1>5, StepNext
<1> QED
  BY <1>1, <1>3, <1>5, <1>6 DEF Moves

LEMMA CallDone ==
  ASSUME Planning, NEW call, At(call), Done,
         call \in {"fileSize", "getFile", "iWrite", "listCollection", "call", "changeAttr"}
  PROVE  Moves(call, {"disconnect"}) /\ SameMarks /\ call = CallOf(req.op)
<1>1. IsRequest(req)
  BY Working DEF At
<1>2. SameCall(req, req)
  BY <1>1 DEF SameCall, At
<1>3. Then(req)
  BY DEF Done
<1> QED
  BY <1>2, <1>3, CallMoves DEF SameMarks

(* A call after which the request holds another size, or has seen others.   *)
LEMMA CallSees ==
  ASSUME Planning, NEW call, At(call),
         call \in {"fileSize", "getFile", "iWrite", "listCollection", "call", "changeAttr"},
         NEW n \in Nat, NEW S \in SUBSET Nat, Then([req EXCEPT !.size = n, !.seen = S])
  PROVE  Moves(call, {"disconnect"}) /\ SameMarks /\ call = CallOf(req.op)
<1> DEFINE r == [req EXCEPT !.size = n, !.seen = S]
<1>1. IsRequest(req)
  BY Working DEF At
<1>2. /\ SameCall(r, req) /\ r.todo = req.todo /\ r.comm = req.comm /\ r.fd = req.fd
  BY <1>1 DEF IsRequest, SameCall, NoReq, Ops
<1>3. Then(r)
  OBVIOUS
<1> HIDE DEF r
<1> QED
  BY <1>2, <1>3, CallMoves DEF SameMarks

LEMMA CallSeesMore ==
  ASSUME Planning, NEW call, At(call),
         call \in {"fileSize", "getFile", "iWrite", "listCollection", "call", "changeAttr"},
         NEW S \in SUBSET Nat, Then([req EXCEPT !.seen = S])
  PROVE  Moves(call, {"disconnect"}) /\ SameMarks /\ call = CallOf(req.op)
<1> DEFINE r == [req EXCEPT !.seen = S]
<1>1. IsRequest(req)
  BY Working DEF At
<1>2. /\ SameCall(r, req) /\ r.todo = req.todo /\ r.comm = req.comm /\ r.fd = req.fd
  BY <1>1 DEF IsRequest, SameCall, NoReq, Ops
<1>3. Then(r)
  OBVIOUS
<1> HIDE DEF r
<1> QED
  BY <1>2, <1>3, CallMoves DEF SameMarks

LEMMA SizeType ==
  ASSUME Types
  PROVE  Size \in SUBSET Nat /\ Len(obj.data) \in Nat
<1>1. Len(obj.data) \in Nat
  BY LenProperties DEF Types, Objects
<1> QED
  BY <1>1 DEF Size

LEMMA FileSizeMoves ==
  ASSUME Planning, Types, fileSize
  PROVE  /\ Moves("fileSize", {"disconnect"}) /\ SameMarks /\ "fileSize" = CallOf(req.op)
         /\ UNCHANGED <<conf, conns, obj, mir, reply, reader, hist>>
<1>1. At("fileSize") /\ UNCHANGED <<conf, conns, obj, mir, reply, reader, hist>>
  BY DEF fileSize
<1>2. Size \in SUBSET Nat /\ Len(obj.data) \in Nat
  BY SizeType
<1>3. CASE Then([req EXCEPT !.seen = Size])
  BY <1>1, <1>2, <1>3, CallSeesMore
<1>4. CASE Then([req EXCEPT !.size = Len(obj.data), !.seen = Size])
  BY <1>1, <1>2, <1>4, CallSees
<1> QED
  BY <1>1, <1>3, <1>4 DEF fileSize

LEMMA IWriteMoves ==
  ASSUME Planning, Arguments, iWrite
  PROVE  /\ Moves("iWrite", {"disconnect"}) /\ SameMarks /\ "iWrite" = CallOf(req.op)
         /\ req.op = "WRITE"
         /\ UNCHANGED <<conf, conns, mir, reply, reader, kept, shown, touched, outside>>
<1>1. At("iWrite") /\ UNCHANGED <<conf, conns, mir, reply, reader, kept, shown, touched, outside>>
  BY DEF iWrite
<1>2. req.op = "WRITE"
  BY <1>1, Working, StepOp DEF At
<1>3. req.arg.len \in Nat
  BY <1>1, <1>2 DEF Arguments, At
<1>4. CASE Done
  BY <1>1, <1>2, <1>4, CallDone
<1>5. CASE \E n \in 1..req.arg.len :
             Then([req EXCEPT !.seen = IF req.arg.offset < INT_LIMIT THEN {n} ELSE {}])
  <2>1. PICK n \in 1..req.arg.len :
             Then([req EXCEPT !.seen = IF req.arg.offset < INT_LIMIT THEN {n} ELSE {}])
    BY <1>5
  <2> DEFINE S == IF req.arg.offset < INT_LIMIT THEN {n} ELSE {}
  <2>2. S \in SUBSET Nat /\ Then([req EXCEPT !.seen = S])
    BY <1>3, <2>1
  <2> HIDE DEF S
  <2> QED
    BY <1>1, <1>2, <2>2, CallSeesMore
<1> QED
  BY <1>4, <1>5 DEF iWrite

LEMMA ChangeAttrMoves ==
  ASSUME Planning, changeAttr
  PROVE  Moves("changeAttr", {"disconnect"}) /\ SameMarks /\ req.op = "SETATTR"
<1>1. At("changeAttr")
  BY DEF changeAttr
<1>0. req.op = "SETATTR"
  BY <1>1, Working, StepOp DEF At
<1>2. CASE Done
  BY <1>0, <1>1, <1>2, CallDone
<1>3. CASE ~Done
  <2> DEFINE s == IF conf.private /\ req.uid \notin DOMAIN UserNames THEN "PERM" ELSE req.status
             r == [req EXCEPT !.status = s]
  <2>1. IsRequest(req)
    BY <1>1, Working DEF At
  <2>2. s \in Reports
    BY <2>1, RequestType DEF Reports
  <2>3. Then(r)
    BY <1>3 DEF changeAttr
  <2> HIDE DEF s
  <2>4. /\ SameCall(r, req) /\ r.todo = req.todo /\ r.comm = req.comm
        /\ r.fd = req.fd /\ r.size = req.size /\ r.seen = req.seen
    BY <2>1, <2>2 DEF IsRequest, SameCall, NoReq, Ops
  <2> HIDE DEF r
  <2> QED
    BY <1>0, <1>1, <2>3, <2>4, CallMoves DEF SameMarks
<1> QED
  BY <1>2, <1>3

LEMMA PwriteMoves ==
  ASSUME Planning, Arguments, pwrite
  PROVE  \/ Finish("ERR", 0, {}) /\ UNCHANGED <<mir, agree>> /\ req # NoReq /\ req.comm = "null"
         \/ Moves("pwrite", {"connect"}) /\ SameMarks /\ req.comm = "null" /\ UNCHANGED reply
<1>1. req # NoReq /\ Head(req.todo) = "pwrite"
  BY DEF pwrite, At
<1>2. req.op \in Ops /\ req.comm = "null"
  BY <1>1, Working, CommOf
<1>3. "pwrite" \notin Finals(req.op) /\ IsRequest(req)
  BY <1>1, <1>2, StepNotLast, Working
<1>4. CASE Finish("ERR", 0, {}) /\ UNCHANGED <<mir, agree>>
  BY <1>1, <1>2, <1>4
<1>5. CASE (\E n \in 1..req.arg.len : Then([req EXCEPT !.size = n])) /\ UNCHANGED reply
  <2>0. PICK n \in 1..req.arg.len : Then([req EXCEPT !.size = n])
    BY <1>5
  <2> DEFINE r == [req EXCEPT !.size = n]
  <2>1. n \in Nat
    <3>1. req.op = "WRITE"
      BY <1>1, Working, StepOp
    <3>2. req.arg.len \in Nat
      BY <1>1, <3>1 DEF Arguments
    <3> QED
      BY <3>2
  <2>2. SameCall(r, req) /\ r.todo = req.todo /\ r.comm = req.comm /\ r.fd = req.fd
    BY <1>3, <2>1 DEF IsRequest, SameCall, NoReq, Ops
  <2>3. Then(r)
    BY <2>0
  <2> HIDE DEF r
  <2>4. /\ SameCall(req', req) /\ Planned(req', req'.todo)
        /\ Follows(req.op, Head(req.todo), Head(req'.todo))
        /\ SameMarks
    BY <1>1, <1>3, <2>2, <2>3, Advance DEF SameMarks
  <2>5. Head(req'.todo) = "connect"
    BY <1>1, <1>2, <2>4, StepNext
  <2> QED
    BY <1>1, <1>2, <1>5, <2>4, <2>5 DEF Moves
<1>6. CASE Then([req EXCEPT !.status = "ERR"]) /\ UNCHANGED reply
  <2> DEFINE r == [req EXCEPT !.status = "ERR"]
  <2>1. "ERR" \in Reports
    BY DEF Reports
  <2>2. /\ SameCall(r, req) /\ r.todo = req.todo /\ r.comm = req.comm
        /\ r.fd = req.fd /\ r.size = req.size /\ r.seen = req.seen
    BY <1>3, <2>1 DEF IsRequest, SameCall, NoReq, Ops
  <2>3. Then(r)
    BY <1>6
  <2> HIDE DEF r
  <2>4. /\ SameCall(req', req) /\ Planned(req', req'.todo)
        /\ Follows(req.op, Head(req.todo), Head(req'.todo))
        /\ SameMarks
    BY <1>1, <1>3, <2>2, <2>3, Advance DEF SameMarks
  <2>5. Head(req'.todo) = "connect"
    BY <1>1, <1>2, <2>4, StepNext
  <2> QED
    BY <1>1, <1>2, <1>6, <2>4, <2>5 DEF Moves
<1> QED
  BY <1>4, <1>5, <1>6 DEF pwrite

(* The steps of SETATTR before it goes to iRODS: there is no connection.      *)
SetMoves(from, to) ==
    /\ Moves(from, to) /\ req'.comm = req.comm
    /\ req.op = "SETATTR" /\ req.comm = "null"

LEMMA Setting ==
  ASSUME Planning, NEW h, At(h),
         h \in Attrs \cup {"set_attr", "fstat", "unsafe", "closefd", "times"}
  PROVE  /\ req # NoReq /\ Head(req.todo) = h /\ IsRequest(req)
         /\ req.op = "SETATTR" /\ req.comm = "null"
<1>1. req # NoReq /\ Head(req.todo) = h
  BY DEF At
<1>2. req.op \in Ops /\ h \in StepsOf(req) /\ req.comm \in CommAt(req, h) /\ IsRequest(req)
  BY <1>1, Working
<1>3. CommAt(req, h) = {"null"}
  BY <1>2, CommOf
<1> QED
  BY <1>1, <1>2, <1>3, StepOp

LEMMA LocalMoves ==
  ASSUME Planning, NEW h, At(h), NEW s \in Reports, Local(s),
         h \in Attrs \cup {"set_attr", "fstat", "unsafe", "closefd", "times"}
  PROVE  SetMoves(h, {"connect"}) /\ req'.fd = 0
<1>1. req # NoReq /\ Head(req.todo) = h /\ req.op = "SETATTR" /\ req.comm = "null"
  BY Setting
<1>2. /\ SameCall(req', req) /\ Planned(req', req'.todo) /\ Head(req'.todo) = "connect"
      /\ req'.fd = 0 /\ req'.comm = req.comm /\ req'.size = req.size /\ req'.seen = req.seen
  BY <1>1, GoesOn
<1> QED
  BY <1>1, <1>2 DEF SetMoves, Moves

LEMMA OpensMoves ==
  ASSUME Planning, Types, SetAttrOpens
  PROVE  SetMoves("set_attr", {"connect", "fstat", "unsafe"})
<1>1. At("set_attr")
  BY DEF SetAttrOpens
<1>2. /\ req # NoReq /\ Head(req.todo) = "set_attr" /\ IsRequest(req)
      /\ req.op = "SETATTR" /\ req.comm = "null"
  BY <1>1, Setting
<1>3. CASE Local("STALE")
  <2>1. SetMoves("set_attr", {"connect"})
    BY <1>1, <1>3, LocalMoves DEF Reports
  <2> QED
    BY <2>1 DEF SetMoves, Moves
<1>4. CASE req' = [req EXCEPT !.fd = mir.ino, !.todo = <<"fstat">>]
  <2>1. mir.ino \in Inos \cup {0}
    BY DEF Types, Files
  <2>2. Planned(req, <<"fstat">>) /\ Head(<<"fstat">>) = "fstat"
    BY <1>2, PlanLocal
  <2>3. <<"fstat">> \in Seq(StepNames)
    BY <2>2, PlanType
  <2> DEFINE t == <<"fstat">>
             i == mir.ino
  <2>4. req' = [req EXCEPT !.fd = i, !.todo = t]
    BY <1>4
  <2> HIDE DEF t, i
  <2>5. /\ SameCall(req', req) /\ req'.todo = t /\ req'.comm = req.comm
        /\ req'.size = req.size /\ req'.seen = req.seen
    BY <1>2, <2>1, <2>3, <2>4 DEF IsRequest, SameCall, NoReq, Ops, t, i
  <2>6. Planned(req', req'.todo) /\ Head(req'.todo) = "fstat"
    BY <2>2, <2>5, PlanSame DEF t
  <2> QED
    BY <1>2, <2>5, <2>6 DEF SetMoves, Moves
<1>5. CASE req' = [req EXCEPT !.todo = <<"unsafe">>]
  <2>2. Planned(req, <<"unsafe">>) /\ Head(<<"unsafe">>) = "unsafe"
    BY <1>2, PlanLocal
  <2> DEFINE t == <<"unsafe">>
  <2>3. t \in Seq(StepNames)
    BY <2>2, PlanType
  <2>4. req' = [req EXCEPT !.todo = t]
    BY <1>5
  <2> HIDE DEF t
  <2>5. /\ SameCall(req', req) /\ req'.todo = t /\ req'.comm = req.comm
        /\ req'.size = req.size /\ req'.seen = req.seen
    BY <1>2, <2>3, <2>4 DEF IsRequest, SameCall, NoReq, Ops
  <2>6. Planned(req', req'.todo) /\ Head(req'.todo) = "unsafe"
    BY <2>2, <2>5, PlanSame DEF t
  <2> QED
    BY <1>2, <2>5, <2>6 DEF SetMoves, Moves
<1> QED
  BY <1>3, <1>4, <1>5 DEF SetAttrOpens

LEMMA ElsewhereMoves ==
  ASSUME Planning, SetAttrElsewhere
  PROVE  SetMoves("set_attr", {"connect"})
<1>1. At("set_attr") /\ \E s \in Reports : Local(s)
  BY DEF SetAttrElsewhere, Reports
<1> QED
  BY <1>1, LocalMoves

(* A descriptor is kept only if it is the handle's object's.                 *)
LEMMA ChecksMoves ==
  ASSUME Planning, SetAttrChecks
  PROVE  \E h \in {"fstat", "unsafe"} :
            /\ SetMoves(h, {"connect", "closefd", "times"} \cup Attrs)
            /\ req'.fd = 0 \/ req'.fd = req.ino
<1>1. PICK h \in {"fstat", "unsafe"} : At(h)
  BY DEF SetAttrChecks
<1>2. /\ req # NoReq /\ Head(req.todo) = h /\ IsRequest(req)
      /\ req.op = "SETATTR" /\ req.comm = "null"
  BY <1>1, Setting
<1>3. CASE Local("STALE")
  <2>1. SetMoves(h, {"connect"}) /\ req'.fd = 0
    BY <1>1, <1>3, LocalMoves DEF Reports
  <2> QED
    BY <2>1 DEF SetMoves, Moves
<1>4. CASE \E last \in {<<"closefd", "times">>, <<"times">>} :
              \/ req.fd = req.ino /\ req' = [req EXCEPT !.todo = Settings \o last]
              \/ req' = [req EXCEPT !.fd = 0, !.todo = Settings \o last]
  <2>1. PICK last \in {<<"closefd", "times">>, <<"times">>} :
              \/ req.fd = req.ino /\ req' = [req EXCEPT !.todo = Settings \o last]
              \/ req' = [req EXCEPT !.fd = 0, !.todo = Settings \o last]
    BY <1>4
  <2> DEFINE t == Settings \o last
  <2>2. Planned(req, t) /\ Head(t) \in Attrs \cup {"closefd", "times"}
    <3> DEFINE a == SettingOf("size")
               b == SettingOf("owner")
               c == SettingOf("mode")
    <3>1. /\ a = IF "size" \in req.arg.set THEN <<"size">> ELSE <<>>
          /\ b = IF "owner" \in req.arg.set THEN <<"owner">> ELSE <<>>
          /\ c = IF "mode" \in req.arg.set THEN <<"mode">> ELSE <<>>
      BY DEF SettingOf
    <3>2. t = (a \o b \o c) \o last
      BY Zenon DEF Settings
    <3> HIDE DEF a, b, c, t
    <3>3. Planned(req, (a \o b \o c) \o last) /\ Head((a \o b \o c) \o last) \in Attrs \cup {"closefd", "times"}
      BY <1>2, <3>1, PlanSettings
    <3> QED
      BY <3>2, <3>3
  <2>3. t \in Seq(StepNames)
    BY <2>2, PlanType
  <2>4. \/ req.fd = req.ino /\ req' = [req EXCEPT !.todo = t]
        \/ req' = [req EXCEPT !.fd = 0, !.todo = t]
    BY <2>1
  <2> HIDE DEF t
  <2>5. /\ SameCall(req', req) /\ req'.todo = t /\ req'.comm = req.comm
        /\ req'.size = req.size /\ req'.seen = req.seen /\ (req'.fd = 0 \/ req'.fd = req.ino)
    BY <1>2, <2>3, <2>4 DEF IsRequest, SameCall, NoReq, Ops
  <2>6. Planned(req', req'.todo)
    BY <2>2, <2>5, PlanSame
  <2> QED
    BY <1>2, <2>2, <2>5, <2>6 DEF SetMoves, Moves
<1> QED
  BY <1>3, <1>4 DEF SetAttrChecks, IsHandles

LEMMA SetsMoves ==
  ASSUME Planning, SetAttrSets
  PROVE  \E a \in Attrs :
            \/ /\ SetMoves(a, {"closefd", "times"} \cup Attrs) /\ req'.fd = req.fd
               /\ SetOne(a) /\ a \in req.arg.set
            \/ /\ SetMoves(a, {"connect"}) /\ req'.fd = 0
               /\ UNCHANGED <<mir, touched, agree, shown>>
<1>1. PICK a \in Attrs : /\ At(a)
                         /\ \/ SetOne(a) /\ Done
                            \/ Local("ERR") /\ UNCHANGED <<mir, touched, agree, shown>>
  BY DEF SetAttrSets, Attrs
<1>2. req # NoReq /\ Head(req.todo) = a /\ req.op = "SETATTR" /\ req.comm = "null"
  BY <1>1, Setting
<1>3. CASE Local("ERR") /\ UNCHANGED <<mir, touched, agree, shown>>
  <2>1. SetMoves(a, {"connect"}) /\ req'.fd = 0
    BY <1>1, <1>3, LocalMoves DEF Reports
  <2> QED
    BY <1>3, <2>1
<1>4. CASE SetOne(a) /\ Done
  <2>1. req.op \in Ops /\ a \in StepsOf(req)
    BY <1>2, Working
  <2>2. a \notin Finals(req.op) /\ a \in req.arg.set
    BY <2>1, StepNotLast, StepOp
  <2>3. /\ SameCall(req', req) /\ Planned(req', req'.todo)
        /\ Follows(req.op, Head(req.todo), Head(req'.todo)) /\ SameMarks
    BY <1>2, <1>4, <2>2, DoneMoves
  <2>4. Head(req'.todo) \in {"closefd", "times"} \cup Attrs
    BY <1>2, <2>1, <2>3, StepNext
  <2> QED
    BY <1>2, <1>4, <2>2, <2>3, <2>4 DEF SetMoves, Moves, SameMarks
<1> QED
  BY <1>1, <1>3, <1>4

LEMMA ClosesMoves ==
  ASSUME Planning, SetAttrCloses
  PROVE  SetMoves("closefd", {"times", "connect"})
<1>1. At("closefd") /\ (Done \/ Local("ERR"))
  BY DEF SetAttrCloses
<1>2. req # NoReq /\ Head(req.todo) = "closefd" /\ req.op = "SETATTR" /\ req.comm = "null"
  BY <1>1, Setting
<1>3. CASE Local("ERR")
  <2>1. SetMoves("closefd", {"connect"}) /\ req'.fd = 0
    BY <1>1, <1>3, LocalMoves DEF Reports
  <2> QED
    BY <2>1 DEF SetMoves, Moves
<1>4. CASE Done
  <2>1. req.op \in Ops
    BY <1>2, Working
  <2>2. "closefd" \notin Finals(req.op)
    BY <2>1, StepNotLast
  <2>3. /\ SameCall(req', req) /\ Planned(req', req'.todo)
        /\ Follows(req.op, Head(req.todo), Head(req'.todo)) /\ SameMarks
    BY <1>2, <1>4, <2>2, DoneMoves
  <2>4. Head(req'.todo) = "times"
    BY <1>2, <2>1, <2>3, StepNext
  <2> QED
    BY <1>2, <2>3, <2>4 DEF SetMoves, Moves, SameMarks
<1> QED
  BY <1>1, <1>3, <1>4

LEMMA TimesMoves ==
  ASSUME Planning, set_time
  PROVE  /\ SetMoves("times", {"connect"}) /\ req'.fd = 0
         /\ SetOne("times") \/ UNCHANGED <<mir, touched, agree, shown>>
<1>1. At("times") /\ \E s \in Reports : Local(s)
  BY DEF set_time, Reports
<1>2. SetMoves("times", {"connect"}) /\ req'.fd = 0
  BY <1>1, LocalMoves
<1> QED
  BY <1>2 DEF set_time

(* A new request.                                                            *)
LEMMA BeginMoves ==
  ASSUME Types, NEW op \in Ops, NEW uid \in Uids, NEW arg, NEW rods, NEW q, q = Request(op, uid, arg, rods)
  PROVE  /\ IsRequest(q) /\ q # NoReq /\ Planned(q, q.todo)
         /\ Head(q.todo) \in {"connect", "pwrite", "set_attr"}
         /\ q.op = op /\ q.uid = uid /\ q.arg = arg /\ q.ino = mir.ino /\ q.comm = "null" /\ q.fd = 0
         /\ q.size = 0 /\ q.seen = {} /\ q.status = "OK" /\ q.todo = Steps(op)
         /\ q.real = RealPath(op, uid, arg) /\ q.rods = rods
<1> DEFINE real == RealPath(op, uid, arg)
           i == mir.ino
           t == Steps(op)
<1>1. q = [op |-> op, uid |-> uid, real |-> real, rods |-> rods, todo |-> t, arg |-> arg, ino |-> i,
           fd |-> 0, comm |-> "null", status |-> "OK", size |-> 0, seen |-> {}]
  BY DEF Request
<1>2. i \in Inos
  BY DEF Types, Files
<1> HIDE DEF real, i, t
<1>3. /\ q.op = op /\ q.uid = uid /\ q.arg = arg /\ q.ino = i /\ q.comm = "null" /\ q.fd = 0
      /\ q.size = 0 /\ q.seen = {} /\ q.status = "OK" /\ q.todo = t /\ q.real = real /\ q.rods = rods
  BY <1>1
<1>4. Planned(q, q.todo) /\ Head(q.todo) \in {"connect", "pwrite", "set_attr"}
  BY <1>3, PlanStart DEF t
<1>5. q.todo \in Seq(StepNames)
  BY <1>4, PlanType
<1>6. IsRequest(q)
  <2>1. {0} \subseteq Inos \cup {0} /\ "null" \in Comms /\ "OK" \in Reports
    BY DEF Comms, Reports
  <2> QED
    BY <1>1, <1>2, <1>3, <1>5, <2>1 DEF IsRequest
<1>7. q # NoReq
  BY <1>6, RequestType
<1> QED
  BY <1>3, <1>4, <1>6, <1>7 DEF real, i, t

LEMMA MovesPlan ==
  ASSUME NEW from, NEW to, Moves(from, to), req'.comm \in CommAt(req, Head(req'.todo))
  PROVE  Planning'
<1>1. SameCall(req', req) /\ Planned(req', req'.todo)
  BY DEF Moves
<1>2. CommAt(req', Head(req'.todo)) = CommAt(req, Head(req'.todo))
  BY <1>1, PlanSame
<1>3. IsRequest(req')
  BY <1>1 DEF SameCall
<1> QED
  BY <1>1, <1>2, <1>3 DEF Planning

LEMMA SetMovesPlan ==
  ASSUME NEW from, NEW to, SetMoves(from, to),
         to \subseteq Attrs \cup {"connect", "fstat", "unsafe", "closefd", "times"}
  PROVE  Planning'
<1>1. /\ Moves(from, to) /\ req.op \in Ops /\ req'.comm = "null"
      /\ Head(req'.todo) \in Attrs \cup {"connect", "fstat", "unsafe", "closefd", "times"}
  BY DEF SetMoves, Moves, Ops
<1>2. CommAt(req, Head(req'.todo)) = {"null"}
  BY <1>1, CommOf
<1> QED
  BY <1>1, <1>2, MovesPlan

LEMMA CallPlan ==
  ASSUME Planning, Moves(CallOf(req.op), {"disconnect"}), req'.comm = req.comm
  PROVE  Planning'
<1>1. /\ req # NoReq /\ Head(req.todo) = CallOf(req.op) /\ Head(req'.todo) = "disconnect"
  BY DEF Moves
<1>2. req.op \in Ops /\ req.comm \in CommAt(req, CallOf(req.op))
  BY <1>1, Working
<1>3. req'.comm \in CommAt(req, Head(req'.todo))
  BY <1>1, <1>2, CommOf
<1> QED
  BY <1>3, MovesPlan

(* How the request evolves, and that it stays planned.                       *)
Goes ==
    \/ UNCHANGED <<req, reader>>
    \/ req' = NoReq
    \/ /\ SameCall(req', req) /\ req # NoReq /\ UNCHANGED reader
    \/ /\ UNCHANGED reader
       /\ \E op \in Ops, uid \in Uids : \E arg \in Args(op) :
              \E rods \in RodsPaths(op, uid, arg) :
                Begin(op, uid, arg, rods) /\ req' = Request(op, uid, arg, rods)

LEMMA Evolves ==
  ASSUME Types, Planning, Arguments, [Next]_vars
  PROVE  Planning' /\ Goes /\ UNCHANGED conf
<1> USE DEF hist
<1>1. CASE UNCHANGED vars
  BY <1>1 DEF vars, Goes, Planning
<1>2. CASE \E op \in conf.ops, uid \in Uids : \E arg \in Args(op) :
              \E rods \in RodsPaths(op, uid, arg) :
                Begin(op, uid, arg, rods)
  <2>1. PICK op \in conf.ops, uid \in Uids :
            \E arg \in Args(op) : \E rods \in RodsPaths(op, uid, arg) : 
              Begin(op, uid, arg, rods)
    BY <1>2, Zenon
  <2>2a. PICK arg \in Args(op) : \E rods \in RodsPaths(op, uid, arg) : Begin(op, uid, arg, rods)
    BY <2>1, Zenon
  <2>2. PICK rods \in RodsPaths(op, uid, arg) : Begin(op, uid, arg, rods)
    BY <2>2a, Zenon
  <2>3. op \in Ops
    BY RodsAssumption DEF Types
  <2>4. UNCHANGED <<conf, reader>> /\ (UNCHANGED req \/ req' = Request(op, uid, arg, rods))
    BY <2>2 DEF Begin
  <2>5. CASE UNCHANGED req
    BY <2>4, <2>5 DEF Goes, Planning
  <2>6. CASE req' = Request(op, uid, arg, rods)
    <3>1. /\ IsRequest(req') /\ Planned(req', req'.todo) /\ req'.op \in Ops
          /\ Head(req'.todo) \in {"connect", "pwrite", "set_attr"} /\ req'.comm = "null"
      BY <2>3, <2>6, BeginMoves
    <3>2. CommAt(req', Head(req'.todo)) = {"null"}
      BY <3>1, CommOf
    <3>3. Planning'
      BY <3>1, <3>2 DEF Planning
    <3>4. Goes
      BY <2>2, <2>3, <2>4, <2>6 DEF Goes
    <3> QED
      BY <2>4, <3>3, <3>4
  <2> QED
    BY <2>4, <2>5, <2>6
<1>3. CASE Dies
  BY <1>3 DEF Dies, Goes, Planning
<1>4. CASE rodsConnecUser
  <2>1. CASE Dies
    BY <1>3, <2>1
  <2>2. CASE /\ Moves("connect", {"login"}) /\ req'.comm \in {"open", "null"} /\ UNCHANGED <<conf, reader>>
    <3>1. req.op \in Ops /\ Head(req'.todo) = "login" /\ SameCall(req', req) /\ req # NoReq
      BY <2>2, Working DEF Moves
    <3>2. Planning'
      BY <2>2, <3>1, CommOf, MovesPlan
    <3> QED
      BY <2>2, <3>1, <3>2 DEF Goes
  <2> QED
    BY <1>4, <2>1, <2>2, ConnectMoves
<1>5. CASE rodsLogin
  <2>1. /\ Moves("login", {CallOf(req.op)}) /\ req'.comm \in {"null", "in", "freed"}
        /\ UNCHANGED <<conf, reader>>
    BY <1>5, LoginMoves
  <2>2. req.op \in Ops /\ Head(req'.todo) = CallOf(req.op) /\ SameCall(req', req) /\ req # NoReq
    BY <2>1, Working DEF Moves
  <2>3. Planning'
    BY <2>1, <2>2, CommOf, MovesPlan
  <2> QED
    BY <2>1, <2>2, <2>3 DEF Goes
<1>6. CASE rcDisconnect
  <2>1. CASE Dies
    BY <1>3, <2>1
  <2>2. CASE /\ Moves("disconnect", {LastOf(req.op)}) /\ req.op # "READ" /\ req'.comm = "closed"
             /\ UNCHANGED <<conf, reader>>
    <3>1. /\ req.op \in Ops /\ Head(req'.todo) \in {"done", "close"}
          /\ SameCall(req', req) /\ req # NoReq
      BY <2>2, Working DEF Moves, LastOf
    <3>2. Planning'
      BY <2>2, <3>1, CommOf, MovesPlan
    <3> QED
      BY <2>2, <3>1, <3>2 DEF Goes
  <2> QED
    BY <1>6, <2>1, <2>2, DisconnectMoves
<1>7. CASE CallDies \/ Restart
  BY <1>3, <1>7 DEF CallDies, Restart
<1>8. ASSUME NEW call, Moves(call, {"disconnect"}), call = CallOf(req.op), req'.comm = req.comm,
             UNCHANGED <<conf, reader>>
      PROVE  Planning' /\ Goes /\ UNCHANGED conf
  <2>1. Planning'
    BY <1>8, CallPlan
  <2> QED
    BY <1>8, <2>1 DEF Goes, Moves
<1>9. CASE fileSize
  <2>1. /\ Moves("fileSize", {"disconnect"}) /\ "fileSize" = CallOf(req.op) /\ req'.comm = req.comm
        /\ UNCHANGED <<conf, reader>>
    BY <1>9, FileSizeMoves DEF SameMarks
  <2> QED
    BY <1>8, <2>1
<1>10. CASE getFile
  <2>1. At("getFile") /\ Done /\ UNCHANGED <<conf, reader>>
    BY <1>10 DEF getFile
  <2>2. Moves("getFile", {"disconnect"}) /\ SameMarks /\ "getFile" = CallOf(req.op)
    BY <2>1, CallDone
  <2> QED
    BY <1>8, <2>1, <2>2 DEF SameMarks
<1>11. CASE READ
  BY <1>11 DEF READ, Finish, Goes, Planning
<1>12. CASE pwrite
  <2>1. CASE Finish("ERR", 0, {})
    BY <1>12, <2>1 DEF pwrite, Finish, Goes, Planning
  <2>2. CASE Moves("pwrite", {"connect"}) /\ SameMarks /\ req.comm = "null"
    <3>1. req.op \in Ops /\ Head(req'.todo) = "connect" /\ SameCall(req', req) /\ req # NoReq
      BY <2>2, Working DEF Moves
    <3>2. Planning'
      BY <2>2, <3>1, CommOf, MovesPlan DEF SameMarks
    <3> QED
      BY <1>12, <3>1, <3>2 DEF Goes, pwrite
  <2> QED
    BY <1>12, <2>1, <2>2, PwriteMoves
<1>13. CASE iWrite
  BY <1>8, <1>13, IWriteMoves DEF SameMarks
<1>14. CASE listCollection
  <2>1. CASE Dies
    BY <1>3, <2>1
  <2>2. CASE At("listCollection") /\ Done /\ UNCHANGED <<conf, reader>>
    <3>1. Moves("listCollection", {"disconnect"}) /\ SameMarks /\ "listCollection" = CallOf(req.op)
      BY <2>2, CallDone
    <3> QED
      BY <1>8, <2>2, <3>1 DEF SameMarks
  <2> QED
    BY <1>14, <2>1, <2>2 DEF listCollection
<1>15. CASE OtherCall
  <2>1. At("call") /\ Done /\ UNCHANGED <<conf, reader>>
    BY <1>15 DEF OtherCall
  <2>2. Moves("call", {"disconnect"}) /\ SameMarks /\ "call" = CallOf(req.op)
    BY <2>1, CallDone
  <2> QED
    BY <1>8, <2>1, <2>2 DEF SameMarks
<1>16. CASE Reply
  BY <1>16 DEF Reply, Finish, Goes, Planning
<1>17. ASSUME NEW from, NEW to, SetMoves(from, to), UNCHANGED <<conf, reader>>,
              to \subseteq Attrs \cup {"connect", "fstat", "unsafe", "closefd", "times"}
       PROVE  Planning' /\ Goes /\ UNCHANGED conf
  <2>1. Planning'
    BY <1>17, SetMovesPlan
  <2> QED
    BY <1>17, <2>1 DEF Goes, SetMoves, Moves
<1>18. CASE SetAttrOpens
  BY <1>17, <1>18, OpensMoves DEF SetAttrOpens
<1>19. CASE SetAttrElsewhere
  BY <1>17, <1>19, ElsewhereMoves DEF SetAttrElsewhere
<1>20. CASE SetAttrChecks
  <2>1. UNCHANGED <<conf, reader>>
    BY <1>20 DEF SetAttrChecks
  <2>2. PICK h : SetMoves(h, {"connect", "closefd", "times"} \cup Attrs)
    BY <1>20, ChecksMoves
  <2> QED
    BY <1>17, <2>1, <2>2
<1>21. CASE SetAttrSets
  <2>1. UNCHANGED <<conf, reader>>
    BY <1>21 DEF SetAttrSets
  <2>2. PICK a : SetMoves(a, {"closefd", "times"} \cup Attrs) \/ SetMoves(a, {"connect"})
    BY <1>21, SetsMoves
  <2> QED
    BY <1>17, <2>1, <2>2
<1>22. CASE SetAttrCloses
  BY <1>17, <1>22, ClosesMoves DEF SetAttrCloses
<1>23. CASE set_time
  BY <1>17, <1>23, TimesMoves DEF set_time
<1>24. CASE changeAttr
  <2>1. UNCHANGED <<conf, reader>>
    BY <1>24 DEF changeAttr
  <2>2. Moves("changeAttr", {"disconnect"}) /\ SameMarks /\ req.op = "SETATTR"
    BY <1>24, ChangeAttrMoves
  <2>3. "changeAttr" = CallOf(req.op)
    BY <2>2 DEF CallOf
  <2> QED
    BY <1>8, <2>1, <2>2, <2>3 DEF SameMarks
<1>25. CASE Outsider \/ LocalProcess
  BY <1>25 DEF Outsider, LocalProcess, Goes, Planning
<1>26. CASE ReadAgain
  BY <1>26 DEF ReadAgain, Goes, Planning
<1> QED
  BY <1>1, <1>2, <1>4, <1>5, <1>6, <1>7, <1>9, <1>10, <1>11, <1>12, <1>13, <1>14, <1>15, <1>16,
     <1>18, <1>19, <1>20, <1>21, <1>22, <1>23, <1>24, <1>25, <1>26 DEF Next, Serve

----------------------------------------------------------------------------
(* Data, modes and replies *)

LEMMA PutType ==
  ASSUME NEW data \in Seq(Bytes), NEW offset \in Nat, NEW len \in Nat
  PROVE  Put(data, offset, len) \in Seq(Bytes)
<1> DEFINE n == IF offset + len > Len(data) THEN offset + len ELSE Len(data)
           f == Put(data, offset, len)
<1>1. Len(data) \in Nat /\ \A i \in 1..Len(data) : data[i] \in Bytes
  BY LenProperties, ElementOfSeq
<1>2. n \in Nat
  BY <1>1
<1>3. f = [i \in 1..n |-> IF offset < i /\ i <= offset + len THEN "w"
                         ELSE IF i <= Len(data) THEN data[i] ELSE "0"]
  BY DEF Put
<1> HIDE DEF n, f
<1>4. "w" \in Bytes /\ "0" \in Bytes
  BY DEF Bytes
<1>5. \A i \in 1..n : f[i] \in Bytes
  BY <1>1, <1>2, <1>3, <1>4
<1>6. f \in [1..n -> Bytes]
  BY <1>3, <1>5
<1> QED
  BY <1>2, <1>6 DEF f

LEMMA PieceType ==
  ASSUME NEW data \in Seq(Bytes), NEW from \in Nat, NEW to \in Nat, to <= Len(data)
  PROVE  SubSeq(data, from + 1, to) \in Seq(Bytes)
<1>1. Len(data) \in Nat /\ \A i \in 1..Len(data) : data[i] \in Bytes
  BY LenProperties, ElementOfSeq
<1>2. \A i \in (from + 1)..to : data[i] \in Bytes
  BY <1>1
<1> QED
  BY <1>2, SubSeqProperties

(* The bytes READ gets.                                                      *)
LEMMA ReadPiece ==
  ASSUME NEW data \in Seq(Bytes), NEW offset \in Nat, NEW count \in Nat,
         NEW got \in rcDataObjRead(data, offset, count)
  PROVE  got \in Seq(Bytes) /\ Len(got) \in Nat
<1> DEFINE from == IF conf.honours THEN offset ELSE 0
<1>1. PICK to \in {i \in 1..Len(data) : from < i /\ i <= from + count} : got = SubSeq(data, from + 1, to)
  BY DEF rcDataObjRead
<1>2. from \in Nat /\ Len(data) \in Nat
  BY LenProperties
<1>3. to \in Nat /\ to <= Len(data)
  BY <1>2
<1> HIDE DEF from
<1>4. got \in Seq(Bytes)
  BY <1>1, <1>2, <1>3, PieceType
<1> QED
  BY <1>4, LenProperties
LEMMA LevelMode ==
  ASSUME NEW level \in Levels \cup {"failed"}
  PROVE  ModeOf(level) \in Mode
BY DEF Levels, ModeOf, Mode, Digit

LEMMA LevelType ==
  ASSUME NEW mode
  PROVE  AccessLevel(mode) \in Levels
BY DEF AccessLevel, Levels

LEMMA FileModeType ==
  ASSUME Types
  PROVE  fileMode \subseteq Levels \cup {"failed"}
<1>1. obj.acl \in Levels /\ obj.shared \subseteq Levels /\ "null" \in Levels
  BY DEF Types, Objects, Levels
<1> QED
  BY <1>1 DEF fileMode

LEMMA Answered ==
  ASSUME NEW r, NEW status, NEW size, NEW seen, Answer(r, status, size, seen)
  PROVE  reply'.op = r.op /\ reply'.status = status /\ reply'.size = size /\ reply'.seen = seen
BY DEF Answer

LEMMA IntOffsetType ==
  ASSUME NEW offset \in Nat
  PROVE  /\ IntOffset(offset) \in Int
         /\ offset < INT_LIMIT => IntOffset(offset) = offset
<1>1. INT_LIMIT \in Nat /\ INT_LIMIT > 0
  BY RodsAssumption
<1>2. offset + INT_LIMIT \in Nat /\ 2 * INT_LIMIT \in Nat /\ 2 * INT_LIMIT > 0
  BY <1>1
<1>3. (offset + INT_LIMIT) % (2 * INT_LIMIT) \in Int
  BY <1>2
<1>4. offset < INT_LIMIT => (offset + INT_LIMIT) % (2 * INT_LIMIT) = offset + INT_LIMIT
  <2> DEFINE a == offset + INT_LIMIT
             b == 2 * INT_LIMIT
  <2> SUFFICES ASSUME offset < INT_LIMIT PROVE a % b = a
    OBVIOUS
  <2>1. a \in Nat /\ b \in Nat /\ a < b /\ b > 0
    BY <1>1
  <2> HIDE DEF a, b
  <2> QED
    BY <2>1
<1> QED
  BY <1>1, <1>3, <1>4 DEF IntOffset

(* Setting one attribute.                                                    *)
LEMMA SetOneFile ==
  ASSUME Types, NEW attr, SetOne(attr), attr = "mode" => req.arg.mode \in Mode
  PROVE  /\ mir' \in Files /\ mir'.there = mir.there
         /\ agree' = (agree /\ attr # "size") /\ agree' \in BOOLEAN
         /\ attr # "size" => mir'.data = mir.data
         /\ shown'.asked = shown.asked /\ shown'.listed = FALSE
         /\ shown' \in [asked : SUBSET Mode, listed : BOOLEAN]
<1> DEFINE d == IF attr = "size" THEN <<>> ELSE mir.data
           m == IF attr = "mode" THEN req.arg.mode ELSE mir.mode
<1>1. mir \in Files /\ agree \in BOOLEAN /\ shown \in [asked : SUBSET Mode, listed : BOOLEAN]
  BY DEF Types
<1>2. d \in Seq(Bytes) /\ m \in Mode
  BY <1>1, EmptySeq DEF Files
<1>3. mir' = mir \/ mir' = [mir EXCEPT !.data = d, !.mode = m]
  BY DEF SetOne
<1>4. attr # "size" => d = mir.data
  OBVIOUS
<1> HIDE DEF d, m
<1>5. mir' \in Files /\ mir'.there = mir.there
  BY <1>1, <1>2, <1>3 DEF Files
<1>6. attr # "size" => mir'.data = mir.data
  BY <1>1, <1>3, <1>4 DEF Files
<1>7. agree' = (agree /\ attr # "size") /\ shown' = [shown EXCEPT !.listed = FALSE]
  BY DEF SetOne
<1>8. /\ shown'.asked = shown.asked /\ shown'.listed = FALSE
      /\ shown' \in [asked : SUBSET Mode, listed : BOOLEAN]
  BY <1>1, <1>7
<1>9. agree' \in BOOLEAN
  BY <1>1, <1>7
<1> QED
  BY <1>5, <1>6, <1>7, <1>8, <1>9

LEMMA TypesStep ==
  ASSUME Types, Planning, Arguments, [Next]_vars
  PROVE  Types'
<1> USE DEF hist
<1>0. /\ conf \in Configurations /\ obj \in Objects /\ mir \in Files
      /\ reader \in [got : Seq(Bytes), eof : BOOLEAN] /\ agree \in BOOLEAN /\ quiet \in BOOLEAN
      /\ shown \in [asked : SUBSET Mode, listed : BOOLEAN]
      /\ reply.status \in Reports /\ reply.size \in Nat
  BY DEF Types
<1>a. UNCHANGED conf
  BY Evolves
<1>b. {"OK", "ERR", "STALE", "ROFS", "INVAL", "PERM"} \subseteq Reports /\ 0 \in Nat
  BY DEF Reports
<1>1. CASE UNCHANGED vars
  BY <1>1 DEF vars, Types
<1>2. CASE \E op \in conf.ops, uid \in Uids : \E arg \in Args(op) :
              \E rods \in RodsPaths(op, uid, arg) :
                Begin(op, uid, arg, rods)
  <2>1. PICK op \in conf.ops, uid \in Uids :
            \E arg \in Args(op) : \E rods \in RodsPaths(op, uid, arg) : 
              Begin(op, uid, arg, rods)
    BY <1>2, Zenon
  <2>2a. PICK arg \in Args(op) : \E rods \in RodsPaths(op, uid, arg) : Begin(op, uid, arg, rods)
    BY <2>1, Zenon
  <2>2. PICK rods \in RodsPaths(op, uid, arg) : Begin(op, uid, arg, rods)
    BY <2>2a, Zenon
  <2>3. reply'.status \in Reports /\ reply'.size \in Nat
    <3>1. CASE reply' = NoReply
      BY <1>b, <3>1 DEF NoReply
    <3>2. CASE Answer(Request(op, uid, arg, rods), "ROFS", 0, {})
      BY <1>b, <3>2, Answered
    <3>3. CASE \E junk \in 0..MaxSize : Answer(Request(op, uid, arg, rods), "INVAL", junk, {})
      <4>1. PICK junk \in 0..MaxSize : Answer(Request(op, uid, arg, rods), "INVAL", junk, {})
        BY <3>3
      <4>2. junk \in Nat
        BY RodsAssumption
      <4> QED
        BY <1>b, <4>1, <4>2, Answered
    <3>4. CASE Answer(Request(op, uid, arg, rods), "OK", Len(mir.data), {})
      <4>1. Len(mir.data) \in Nat
        BY <1>0, LenProperties DEF Files
      <4> QED
        BY <1>b, <3>4, <4>1, Answered
    <3> QED
      BY <2>2, <3>1, <3>2, <3>3, <3>4 DEF Begin
  <2> QED
    BY <1>0, <1>a, <2>2, <2>3 DEF Begin, Types
<1>3. CASE Dies
  BY <1>0, <1>a, <1>b, <1>3 DEF Dies, Types, NoReply
<1>4. CASE rodsConnecUser \/ rodsLogin \/ rcDisconnect \/ CallDies \/ Restart
  <2>1. CASE ~Dies
    BY <1>0, <1>a, <1>4, <2>1
       DEF rodsConnecUser, rodsLogin, rcDisconnect, CallDies, Restart, Types
  <2> QED
    BY <1>3, <2>1
<1>5. CASE fileSize \/ OtherCall \/ SetAttrOpens \/ SetAttrElsewhere \/ SetAttrChecks \/ SetAttrCloses
  BY <1>0, <1>a, <1>5
     DEF fileSize, OtherCall, SetAttrOpens, SetAttrElsewhere, SetAttrChecks, SetAttrCloses, Types
<1>6. CASE getFile
  <2>1. mir' \in Files /\ agree' \in BOOLEAN
    <3>1. <<"x">> \in Seq(Bytes)
      <4>1. \A S : \A x \in S : <<x>> \in Seq(S)
        OBVIOUS
      <4> QED
        BY <4>1 DEF Bytes
    <3>2. CASE UNCHANGED <<mir, agree>>
      BY <1>0, <3>2
    <3>3. CASE mir' = [mir EXCEPT !.data = obj.data] /\ agree' = TRUE
      BY <1>0, <3>3 DEF Files, Objects
    <3>4. CASE mir' = [mir EXCEPT !.data = <<"x">>] /\ agree' = FALSE
      <4> DEFINE d == <<"x">>
      <4>1. d \in Seq(Bytes) /\ mir' = [mir EXCEPT !.data = d]
        BY <3>1, <3>4
      <4> HIDE DEF d
      <4> QED
        BY <1>0, <3>4, <4>1 DEF Files
    <3>5. CASE (\E n \in 0..Len(obj.data) : mir' = [mir EXCEPT !.data = SubSeq(obj.data, 1, n)]) /\ agree' = FALSE
      <4>1. PICK n \in 0..Len(obj.data) : mir' = [mir EXCEPT !.data = SubSeq(obj.data, 1, n)]
        BY <3>5
      <4> DEFINE d == SubSeq(obj.data, 1, n)
      <4>2. obj.data \in Seq(Bytes) /\ Len(obj.data) \in Nat
        BY <1>0, LenProperties DEF Objects
      <4>3. n \in Nat /\ n <= Len(obj.data) /\ 0 + 1 = 1
        BY <4>2
      <4>4. d \in Seq(Bytes)
        BY <4>2, <4>3, PieceType
      <4>5. mir' = [mir EXCEPT !.data = d]
        BY <4>1
      <4> HIDE DEF d
      <4> QED
        BY <1>0, <3>5, <4>4, <4>5 DEF Files
    <3> QED
      BY <1>6, <3>2, <3>3, <3>4, <3>5 DEF getFile
  <2> QED
    BY <1>0, <1>a, <1>6, <2>1 DEF getFile, Types
<1>7. CASE READ
  <2>1. req # NoReq /\ req.op = "READ"
    BY <1>7, Working, StepOp DEF READ, At
  <2>2. req.arg.offset \in Nat /\ req.arg.count \in Nat
    BY <1>0, <2>1, LenProperties DEF Arguments
  <2>4. CASE \E got \in rcDataObjRead(obj.data, req.arg.offset, req.arg.count) :
               /\ Finish("OK", Len(got), Size)
               /\ reader' = [got |-> reader.got \o got, eof |-> AtEof(Len(got), req.arg.count)]
    <3>0. PICK got \in rcDataObjRead(obj.data, req.arg.offset, req.arg.count) :
               /\ Finish("OK", Len(got), Size)
               /\ reader' = [got |-> reader.got \o got, eof |-> AtEof(Len(got), req.arg.count)]
      BY <2>4
    <3>1. got \in Seq(Bytes) /\ Len(got) \in Nat
      BY <1>0, <2>2, ReadPiece DEF Objects
    <3>2. reply'.status = "OK" /\ reply'.size = Len(got)
      BY <3>0, Answered DEF Finish
    <3>3. reader.got \o got \in Seq(Bytes) /\ AtEof(Len(got), req.arg.count) \in BOOLEAN
      BY <1>0, <3>1, ConcatProperties DEF AtEof
    <3>4. reader' \in [got : Seq(Bytes), eof : BOOLEAN]
      BY <3>0, <3>3
    <3> QED
      BY <1>0, <1>a, <1>b, <1>7, <3>1, <3>2, <3>4 DEF READ, Types
  <2>5. CASE (\E junk \in 0..MaxSize : Finish("ERR", junk, Size)) /\ UNCHANGED reader
    <3>1. reply'.status = "ERR" /\ reply'.size \in 0..MaxSize
      BY <2>5, Answered DEF Finish
    <3>2. 0..MaxSize \subseteq Nat
      BY RodsAssumption
    <3> QED
      BY <1>0, <1>a, <1>b, <1>7, <2>5, <3>1, <3>2 DEF READ, Types
  <2> QED
    BY <1>7, <2>4, <2>5 DEF READ
<1>8. CASE pwrite
  <2>1. req # NoReq /\ req.op = "WRITE"
    BY <1>8, Working, StepOp DEF pwrite, At
  <2>2. req.arg.offset \in Nat /\ req.arg.len \in Nat
    BY <2>1 DEF Arguments
  <2>3. reply'.status \in Reports /\ reply'.size \in Nat
    BY <1>0, <1>b, <1>8, Answered DEF pwrite, Finish
  <2>4. mir' = mir \/ \E n \in 1..req.arg.len : mir' = [mir EXCEPT !.data = Put(@, req.arg.offset, n)]
    BY <1>8 DEF pwrite
  <2>5. agree' \in BOOLEAN
    BY <1>0, <1>8 DEF pwrite
  <2>6. ASSUME NEW n \in 1..req.arg.len, mir' = [mir EXCEPT !.data = Put(@, req.arg.offset, n)]
        PROVE  mir' \in Files
    <3> DEFINE d == Put(mir.data, req.arg.offset, n)
    <3>1. n \in Nat
      BY <2>2
    <3>2. d \in Seq(Bytes)
      BY <1>0, <2>2, <3>1, PutType DEF Files
    <3>3. mir' = [mir EXCEPT !.data = d]
      BY <2>6
    <3> HIDE DEF d
    <3> QED
      BY <1>0, <3>2, <3>3 DEF Files
  <2>7. mir' \in Files
    BY <1>0, <2>4, <2>6
  <2> QED
    BY <1>0, <1>a, <1>8, <2>3, <2>5, <2>7 DEF pwrite, Types
<1>9. CASE iWrite
  <2>1. req # NoReq /\ req.op = "WRITE"
    BY <1>9, Working, StepOp DEF iWrite, At
  <2>2. req.arg.offset \in Nat /\ req.arg.len \in Nat
    BY <2>1 DEF Arguments
  <2>3. IntOffset(req.arg.offset) \in Int
    BY <2>2, IntOffsetType
  <2> DEFINE o == IntOffset(req.arg.offset)
  <2>4. \/ UNCHANGED <<obj, quiet>>
        \/ /\ o >= 0 /\ quiet' = FALSE
           /\ \E n \in 1..req.arg.len : obj' = [obj EXCEPT !.data = Put(@, o, n)]
    BY <1>9 DEF iWrite
  <2>5. agree' \in BOOLEAN
    BY <1>0, <1>9 DEF iWrite
  <2>6. o \in Int
    BY <2>3
  <2> HIDE DEF o
  <2>7. ASSUME o >= 0, NEW n \in 1..req.arg.len, obj' = [obj EXCEPT !.data = Put(@, o, n)]
        PROVE  obj' \in Objects
    <3> DEFINE d == Put(obj.data, o, n)
    <3>1. n \in Nat /\ o \in Nat
      BY <2>2, <2>6, <2>7
    <3>2. d \in Seq(Bytes)
      BY <1>0, <3>1, PutType DEF Objects
    <3>3. obj' = [obj EXCEPT !.data = d]
      BY <2>7
    <3> HIDE DEF d
    <3> QED
      BY <1>0, <3>2, <3>3 DEF Objects
  <2>8. obj' \in Objects /\ quiet' \in BOOLEAN
    BY <1>0, <2>4, <2>7
  <2> QED
    BY <1>0, <1>a, <1>9, <2>5, <2>8 DEF iWrite, Types
<1>10. CASE listCollection
  <2>1. CASE Dies
    BY <1>3, <2>1
  <2>2. CASE \E level \in fileMode, i \in Inos :
               /\ mir' = [there |-> TRUE, ino |-> i, kind |-> "reg", mode |-> ModeOf(level), data |-> <<" ">>]
               /\ shown' = [shown EXCEPT !.listed = level # "failed"]
               /\ agree' = FALSE /\ UNCHANGED <<conf, conns, obj, reply, reader, kept, quiet, touched, outside>>
    <3>1. PICK level \in fileMode, i \in Inos :
               /\ mir' = [there |-> TRUE, ino |-> i, kind |-> "reg", mode |-> ModeOf(level), data |-> <<" ">>]
               /\ shown' = [shown EXCEPT !.listed = level # "failed"]
      BY <2>2
    <3>2. ModeOf(level) \in Mode
      BY FileModeType, LevelMode
    <3>3. <<" ">> \in Seq(Bytes)
      <4>1. \A S : \A x \in S : <<x>> \in Seq(S)
        OBVIOUS
      <4> QED
        BY <4>1 DEF Bytes
    <3> DEFINE d == <<" ">>
               m == ModeOf(level)
               l == level # "failed"
    <3>4. /\ mir' = [there |-> TRUE, ino |-> i, kind |-> "reg", mode |-> m, data |-> d]
          /\ shown' = [shown EXCEPT !.listed = l]
      BY <3>1
    <3>5. l \in BOOLEAN /\ d \in Seq(Bytes) /\ m \in Mode
      BY <3>2, <3>3
    <3> HIDE DEF d, m, l
    <3>6. mir' \in Files
      BY <3>4, <3>5 DEF Files
    <3>7. shown' \in [asked : SUBSET Mode, listed : BOOLEAN]
      BY <1>0, <3>4, <3>5
    <3> QED
      BY <1>0, <1>a, <2>2, <3>6, <3>7 DEF Types
  <2>3. CASE /\ mir' = [mir EXCEPT !.there = FALSE] /\ agree' = FALSE
             /\ UNCHANGED <<conf, conns, obj, reply, reader, kept, quiet, shown, touched, outside>>
    <3>1. mir' \in Files
      BY <1>0, <2>3 DEF Files
    <3> QED
      BY <1>0, <1>a, <2>3, <3>1 DEF Types
  <2>4. CASE UNCHANGED <<conf, conns, obj, mir, reply, reader, hist>>
    BY <1>0, <2>4 DEF Types
  <2> QED
    BY <1>10, <2>1, <2>2, <2>3, <2>4 DEF listCollection
<1>11. CASE Reply
  <2>1. req # NoReq
    BY <1>11 DEF Reply, At
  <2>2. req.status \in Reports /\ req.size \in Nat
    BY <2>1, Working, RequestType
  <2>3. reply'.status \in Reports /\ reply'.size \in Nat
    BY <1>b, <1>11, <2>2, Answered DEF Reply, Finish
  <2> QED
    BY <1>0, <1>a, <1>11, <2>3 DEF Reply, Types
<1>12. CASE SetAttrSets
  <2>1. PICK a \in Attrs : \/ SetMoves(a, {"closefd", "times"} \cup Attrs) /\ SetOne(a) /\ a \in req.arg.set
                           \/ UNCHANGED <<mir, touched, agree, shown>>
    BY <1>12, SetsMoves
  <2>2. CASE SetMoves(a, {"closefd", "times"} \cup Attrs) /\ SetOne(a) /\ a \in req.arg.set
    <3>1. a = "mode" => req.arg.mode \in Mode
      BY <2>2 DEF Arguments, SetMoves, Moves
    <3>2. mir' \in Files /\ agree' \in BOOLEAN /\ shown' \in [asked : SUBSET Mode, listed : BOOLEAN]
      BY <2>2, <3>1, SetOneFile
    <3> QED
      BY <1>0, <1>a, <1>12, <3>2 DEF SetAttrSets, Types
  <2>3. CASE UNCHANGED <<mir, touched, agree, shown>>
    BY <1>0, <1>a, <1>12, <2>3 DEF SetAttrSets, Types
  <2> QED
    BY <2>1, <2>2, <2>3
<1>13. CASE set_time
  <2>1. mir' \in Files /\ agree' \in BOOLEAN /\ shown' \in [asked : SUBSET Mode, listed : BOOLEAN]
    BY <1>0, <1>13, TimesMoves, SetOneFile
  <2> QED
    BY <1>0, <1>a, <1>13, <2>1 DEF set_time, Types
<1>14. CASE changeAttr
  <2>1. req # NoReq /\ req.op = "SETATTR"
    BY <1>14, ChangeAttrMoves DEF Moves
  <2> DEFINE l == AccessLevel(req.arg.mode)
             m == req.arg.mode
  <2>2. \/ UNCHANGED <<obj, shown>>
        \/ /\ "mode" \in req.arg.set /\ obj' = [obj EXCEPT !.acl = l]
           /\ shown' = [asked |-> {m}, listed |-> FALSE]
    BY <1>14 DEF changeAttr
  <2>3. l \in Levels /\ ("mode" \in req.arg.set => m \in Mode)
    BY <2>1, LevelType DEF Arguments
  <2> HIDE DEF l, m
  <2>4. obj' \in Objects
    BY <1>0, <2>2, <2>3 DEF Objects
  <2>5. shown' \in [asked : SUBSET Mode, listed : BOOLEAN]
    <3>1. CASE UNCHANGED shown
      BY <1>0, <3>1
    <3>2. CASE "mode" \in req.arg.set /\ shown' = [asked |-> {m}, listed |-> FALSE]
      <4>1. {m} \in SUBSET Mode
        BY <2>3, <3>2
      <4> QED
        BY <3>2, <4>1
    <3> QED
      BY <2>2, <3>1, <3>2
  <2> QED
    BY <1>0, <1>a, <1>14, <2>4, <2>5 DEF changeAttr, Types
<1>15. CASE Outsider
  <2>1. ASSUME NEW n \in 0..MaxSize PROVE [i \in 1..n |-> "o"] \in Seq(Bytes)
    <3>1. n \in Nat /\ "o" \in Bytes
      BY RodsAssumption DEF Bytes
    <3>2. [i \in 1..n |-> "o"] \in [1..n -> Bytes]
      BY <3>1
    <3> QED
      BY <3>1, <3>2
  <2>2. obj' \in Objects
    <3>1. CASE \E n \in 0..MaxSize : obj' = [there |-> TRUE, data |-> [i \in 1..n |-> "o"], acl |-> "own", shared |-> {}]
      <4>1. PICK n \in 0..MaxSize : obj' = [there |-> TRUE, data |-> [i \in 1..n |-> "o"], acl |-> "own", shared |-> {}]
        BY <3>1
      <4> DEFINE d == [i \in 1..n |-> "o"]
      <4>2. d \in Seq(Bytes) /\ obj' = [there |-> TRUE, data |-> d, acl |-> "own", shared |-> {}]
        BY <2>1, <4>1
      <4> HIDE DEF d
      <4> QED
        BY <4>2 DEF Objects, Levels
    <3>2. CASE obj' = [obj EXCEPT !.there = FALSE]
      BY <1>0, <3>2 DEF Objects
    <3>3. CASE obj' = [obj EXCEPT !.shared = {"read"}]
      BY <1>0, <3>3 DEF Objects, Levels
    <3> QED
      BY <1>15, <3>1, <3>2, <3>3 DEF Outsider
  <2>3. agree' \in BOOLEAN /\ quiet' \in BOOLEAN /\ shown' \in [asked : SUBSET Mode, listed : BOOLEAN]
    <3>1. \/ UNCHANGED <<agree, quiet, shown>>
          \/ agree' = FALSE /\ quiet' = FALSE /\ shown' = [asked |-> {}, listed |-> FALSE]
      BY <1>15 DEF Outsider
    <3>2. {} \in SUBSET Mode
      OBVIOUS
    <3>3. CASE UNCHANGED <<agree, quiet, shown>>
      BY <1>0, <3>3
    <3>4. CASE agree' = FALSE /\ quiet' = FALSE /\ shown' = [asked |-> {}, listed |-> FALSE]
      BY <3>2, <3>4
    <3> QED
      BY <3>1, <3>3, <3>4
  <2> QED
    BY <1>0, <1>a, <1>15, <2>2, <2>3 DEF Outsider, Types
<1>16. CASE LocalProcess
  <2>1. PICK i \in Inos \ {mir.ino}, k \in {"reg", "dev"} :
            mir' = [there |-> TRUE, ino |-> i, kind |-> k, mode |-> <<6, 0, 0>>, data |-> <<"x">>]
    BY <1>16 DEF LocalProcess
  <2> DEFINE m == <<6, 0, 0>>
             d == <<"x">>
  <2>2. m \in Mode
    BY DEF Mode, Digit
  <2>3. d \in Seq(Bytes)
    <3>1. \A S : \A x \in S : <<x>> \in Seq(S)
      OBVIOUS
    <3> QED
      BY <3>1 DEF Bytes
  <2>4. mir' = [there |-> TRUE, ino |-> i, kind |-> k, mode |-> m, data |-> d]
    BY <2>1
  <2> HIDE DEF m, d
  <2>5. mir' \in Files
    BY <2>2, <2>3, <2>4 DEF Files
  <2>6. agree' \in BOOLEAN /\ shown' \in [asked : SUBSET Mode, listed : BOOLEAN]
    BY <1>0, <1>16 DEF LocalProcess
  <2> QED
    BY <1>0, <1>a, <1>16, <2>5, <2>6 DEF LocalProcess, Types
<1>17. CASE ReadAgain
  BY <1>0, <1>a, <1>17, EmptySeq DEF ReadAgain, Types
<1> QED
  BY <1>1, <1>2, <1>3, <1>4, <1>5, <1>6, <1>7, <1>8, <1>9, <1>10, <1>11, <1>12, <1>13, <1>14,
     <1>15, <1>16, <1>17 DEF Next, Serve

----------------------------------------------------------------------------
(* The parts of the invariant, one after the other *)

LEMMA PathsSame ==
  ASSUME UNCHANGED conf, NEW op, NEW uid, NEW arg
  PROVE  /\ RealPath(op, uid, arg)' = RealPath(op, uid, arg)
         /\ RodsPaths(op, uid, arg)' = RodsPaths(op, uid, arg)
         /\ MirrorPath' = MirrorPath /\ ObjectPath' = ObjectPath
<1>1. isPublic' = isPublic
  BY DEF isPublic
<1>2. DirPath' = DirPath /\ ObjectPath' = ObjectPath
  BY <1>1, Zenon DEF DirPath, ObjectPath
<1>3. MirrorPath' = MirrorPath
  BY <1>2, Zenon DEF MirrorPath
<1>4. HandlePath(op, arg)' = HandlePath(op, arg)
  BY <1>2, <1>3, Zenon DEF HandlePath
<1>6. RealPath(op, uid, arg)' = RealPath(op, uid, arg)
  BY <1>1, <1>4, Zenon DEF RealPath, getRealPathNFS
<1>7. RodsPaths(op, uid, arg)' = RodsPaths(op, uid, arg)
  BY <1>1, <1>3, <1>4, Zenon DEF RodsPaths, getRodsPath, getIRODSpathGetAttr, getRealPathNFS
<1> QED
  BY <1>2, <1>3, <1>6, <1>7

LEMMA TranslatedStep ==
  ASSUME Types, Planning, Arguments, Translated, [Next]_vars
  PROVE  Translated'
<1>1. Goes /\ UNCHANGED conf
  BY Evolves
<1>2. CASE UNCHANGED req
  BY <1>1, <1>2, PathsSame DEF Translated
<1>3. CASE req' = NoReq
  BY <1>3 DEF Translated
<1>4. CASE SameCall(req', req) /\ req # NoReq
  BY <1>1, <1>4, PathsSame DEF Translated, SameCall
<1>5. CASE \E op \in Ops, uid \in Uids : \E arg \in Args(op) :
              \E rods \in RodsPaths(op, uid, arg) :
                Begin(op, uid, arg, rods) /\ req' = Request(op, uid, arg, rods)
  <2>1. PICK op \in Ops, uid \in Uids :
            \E arg \in Args(op) : \E rods \in RodsPaths(op, uid, arg) : 
              Begin(op, uid, arg, rods) /\ req' = Request(op, uid, arg, rods)
    BY <1>5, Zenon
  <2>2a. PICK arg \in Args(op) : \E rods \in RodsPaths(op, uid, arg) : Begin(op, uid, arg, rods) /\ req' = Request(op, uid, arg, rods)
    BY <2>1, Zenon
  <2>2. PICK rods \in RodsPaths(op, uid, arg) : Begin(op, uid, arg, rods) /\ req' = Request(op, uid, arg, rods)
    BY <2>2a, Zenon
  <2>3. /\ req'.op = op /\ req'.uid = uid /\ req'.arg = arg
        /\ req'.real = RealPath(op, uid, arg) /\ req'.rods = rods
    BY <2>2, BeginMoves
  <2> QED
    BY <1>1, <2>3, PathsSame DEF Translated
<1> QED
  BY <1>1, <1>2, <1>3, <1>4, <1>5 DEF Goes

LEMMA ArgumentsStep ==
  ASSUME Types, Planning, Arguments, [Next]_vars
  PROVE  Arguments'
<1>1. Goes
  BY Evolves
<1>2. CASE UNCHANGED <<req, reader>>
  BY <1>2 DEF Arguments
<1>3. CASE req' = NoReq
  BY <1>3 DEF Arguments
<1>4. CASE SameCall(req', req) /\ req # NoReq /\ UNCHANGED reader
  BY <1>4 DEF Arguments, SameCall
<1>5. CASE /\ UNCHANGED reader
           /\ \E op \in Ops, uid \in Uids : \E arg \in Args(op) :
              \E rods \in RodsPaths(op, uid, arg) :
                Begin(op, uid, arg, rods) /\ req' = Request(op, uid, arg, rods)
  <2>1. PICK op \in Ops, uid \in Uids :
            \E arg \in Args(op) : \E rods \in RodsPaths(op, uid, arg) : 
              Begin(op, uid, arg, rods) /\ req' = Request(op, uid, arg, rods)
    BY <1>5, Zenon
  <2>2a. PICK arg \in Args(op) : \E rods \in RodsPaths(op, uid, arg) : Begin(op, uid, arg, rods) /\ req' = Request(op, uid, arg, rods)
    BY <2>1, Zenon
  <2>2. PICK rods \in RodsPaths(op, uid, arg) : Begin(op, uid, arg, rods) /\ req' = Request(op, uid, arg, rods)
    BY <2>2a, Zenon
  <2>3. req'.op = op /\ req'.arg = arg
    BY <2>2, BeginMoves
  <2>4. op = "WRITE" => arg.offset \in Nat /\ arg.len \in Nat
    BY RodsAssumption DEF Args
  <2>5. op = "READ" => arg.offset = Len(reader.got) /\ arg.count \in Nat /\ ~reader.eof
    BY <2>2, RodsAssumption DEF Args, Begin
  <2>6. op = "SETATTR" /\ "mode" \in arg.set => arg.mode \in Mode
    <3> SUFFICES ASSUME op = "SETATTR", "mode" \in arg.set PROVE arg.mode \in Mode
      OBVIOUS
    <3>1. arg \in [set : {a \in AttrSets : "mode" \in a}, mode : Modes] \cup [set : {a \in AttrSets : "mode" \notin a}]
      BY DEF Args
    <3> QED
      BY <3>1, RodsAssumption
  <2> QED
    BY <1>5, <2>3, <2>4, <2>5, <2>6 DEF Arguments
<1> QED
  BY <1>1, <1>2, <1>3, <1>4, <1>5 DEF Goes

LEMMA CountingStep ==
  ASSUME Types, Planning, Arguments, Counting, [Next]_vars
  PROVE  Counting'
<1> USE DEF hist
<1>0. /\ conns \in Nat /\ kept \in Nat /\ conns <= MaxConns
      /\ conns = kept + (IF req # NoReq /\ req.comm \in {"open", "in"} THEN 1 ELSE 0)
  BY DEF Counting, ConnectionsReturned
<1>a. MaxConns \in Nat
  BY RodsAssumption
<1>1. ASSUME UNCHANGED <<conns, kept, req>> PROVE Counting'
  BY <1>1 DEF Counting, ConnectionsReturned
<1>2. CASE Dies
  BY <1>a, <1>2 DEF Dies, Counting, ConnectionsReturned
<1>3. ASSUME UNCHANGED <<conns, kept>>, req # NoReq, req' # NoReq, req'.comm = req.comm PROVE Counting'
  BY <1>0, <1>3 DEF Counting, ConnectionsReturned
<1>4. ASSUME UNCHANGED <<conns, kept>>, req = NoReq \/ req.comm \notin {"open", "in"},
             req' = NoReq \/ req'.comm \notin {"open", "in"}
      PROVE  Counting'
  BY <1>0, <1>4 DEF Counting, ConnectionsReturned
<1>5. CASE UNCHANGED vars
  BY <1>1, <1>5 DEF vars
<1>6. CASE \E op \in conf.ops, uid \in Uids : \E arg \in Args(op) :
              \E rods \in RodsPaths(op, uid, arg) :
                Begin(op, uid, arg, rods)
  <2>1. PICK op \in conf.ops, uid \in Uids :
            \E arg \in Args(op) : \E rods \in RodsPaths(op, uid, arg) : 
              Begin(op, uid, arg, rods)
    BY <1>6, Zenon
  <2>2a. PICK arg \in Args(op) : \E rods \in RodsPaths(op, uid, arg) : Begin(op, uid, arg, rods)
    BY <2>1, Zenon
  <2>2. PICK rods \in RodsPaths(op, uid, arg) : Begin(op, uid, arg, rods)
    BY <2>2a, Zenon
  <2>3. op \in Ops
    BY RodsAssumption DEF Types
  <2>4. UNCHANGED <<conns, kept>> /\ req = NoReq /\ (UNCHANGED req \/ req' = Request(op, uid, arg, rods))
    BY <2>2 DEF Begin
  <2>5. UNCHANGED req \/ req'.comm = "null"
    BY <2>3, <2>4, BeginMoves
  <2> QED
    BY <1>4, <2>4, <2>5
<1>7. CASE rodsConnecUser
  <2>1. CASE /\ req # NoReq /\ req' # NoReq /\ UNCHANGED kept /\ req.comm = "null"
             /\ \/ req'.comm = "open" /\ conns < MaxConns /\ conns' = conns + 1
                \/ req'.comm = "null" /\ conns' = conns
    BY <1>0, <1>a, <2>1 DEF Counting, ConnectionsReturned
  <2> QED
    BY <1>2, <1>7, <2>1, ConnectMoves DEF Moves, SameCall
<1>8. CASE rodsLogin
  <2>1. /\ req # NoReq /\ req' # NoReq /\ UNCHANGED kept
        /\ \/ req.comm = "null" /\ req'.comm = "null" /\ conns' = conns
           \/ req.comm = "open" /\ req'.comm = "in" /\ conns' = conns
           \/ req.comm = "open" /\ req'.comm = "freed" /\ conns' = conns - 1
    BY <1>8, LoginMoves DEF Moves, SameCall
  <2> QED
    BY <1>0, <1>a, <2>1 DEF Counting, ConnectionsReturned
<1>9. CASE rcDisconnect
  <2>1. CASE /\ req # NoReq /\ req' # NoReq /\ UNCHANGED kept
             /\ req.comm \in {"null", "in", "freed"} /\ req'.comm = "closed"
             /\ conns' = IF req.comm = "in" THEN conns - 1 ELSE conns
    BY <1>0, <1>a, <2>1 DEF Counting, ConnectionsReturned
  <2> QED
    BY <1>2, <1>9, <2>1, DisconnectMoves DEF Moves, SameCall
<1>10. CASE CallDies \/ Restart
  BY <1>2, <1>10 DEF CallDies, Restart
<1>11. CASE fileSize
  BY <1>3, <1>11, FileSizeMoves DEF Moves, SameCall, SameMarks
<1>b. CASE iWrite
  BY <1>3, <1>b, IWriteMoves DEF Moves, SameCall, SameMarks
<1>12. CASE getFile \/ OtherCall
  <2>1. PICK call \in {"getFile", "call"} : At(call) /\ Done /\ UNCHANGED <<conns, kept>>
    BY <1>12 DEF getFile, OtherCall
  <2>2. Moves(call, {"disconnect"}) /\ SameMarks
    BY <2>1, CallDone
  <2> QED
    BY <1>3, <2>1, <2>2 DEF Moves, SameCall, SameMarks
<1>13. CASE READ
  <2>1. req # NoReq /\ Head(req.todo) = "read" /\ req' = NoReq /\ UNCHANGED conns
    BY <1>13 DEF READ, At, Finish
  <2>2. req.op \in Ops /\ "read" \in StepsOf(req) /\ req.comm \in CommAt(req, "read")
    BY <2>1, Working
  <2>3. "read" = CallOf(req.op)
    BY <2>2, StepOp DEF CallOf
  <2>4. req.comm \in {"null", "in", "freed"}
    BY <2>2, <2>3, CommOf
  <2>5. kept' = IF req.comm = "in" THEN kept + 1 ELSE kept
    BY <1>13 DEF READ
  <2> QED
    BY <1>0, <2>1, <2>4, <2>5 DEF Counting, ConnectionsReturned
<1>14. CASE pwrite
  <2>1. UNCHANGED <<conns, kept>>
    BY <1>14 DEF pwrite
  <2>2. req.comm = "null" /\ (req' = NoReq \/ req'.comm = "null")
    BY <1>14, PwriteMoves DEF Finish, SameMarks
  <2> QED
    BY <1>4, <2>1, <2>2
<1>15. CASE listCollection
  <2>1. CASE At("listCollection") /\ Done /\ UNCHANGED <<conns, kept>>
    <3>1. Moves("listCollection", {"disconnect"}) /\ SameMarks
      BY <2>1, CallDone
    <3> QED
      BY <1>3, <2>1, <3>1 DEF Moves, SameCall, SameMarks
  <2> QED
    BY <1>2, <1>15, <2>1 DEF listCollection
<1>16. CASE Reply
  <2>1. req # NoReq /\ Head(req.todo) \in {"done", "close"} /\ req' = NoReq /\ UNCHANGED <<conns, kept>>
    BY <1>16 DEF Reply, At, Finish
  <2>2. req.op \in Ops /\ req.comm \in CommAt(req, Head(req.todo))
    BY <2>1, Working
  <2>3. req.comm = "closed"
    BY <2>1, <2>2, CommOf
  <2> QED
    BY <1>4, <2>1, <2>3
<1>17. ASSUME NEW from, NEW to, SetMoves(from, to), UNCHANGED <<conns, kept>> PROVE Counting'
  BY <1>3, <1>17 DEF SetMoves, Moves, SameCall
<1>18. CASE SetAttrOpens \/ SetAttrElsewhere \/ SetAttrCloses
  <2>1. UNCHANGED <<conns, kept>>
    BY <1>18 DEF SetAttrOpens, SetAttrElsewhere, SetAttrCloses
  <2> QED
    BY <1>17, <1>18, <2>1, OpensMoves, ElsewhereMoves, ClosesMoves
<1>19. CASE SetAttrChecks
  <2>1. UNCHANGED <<conns, kept>>
    BY <1>19 DEF SetAttrChecks
  <2> QED
    BY <1>17, <1>19, <2>1, ChecksMoves
<1>20. CASE SetAttrSets
  <2>1. UNCHANGED <<conns, kept>>
    BY <1>20 DEF SetAttrSets
  <2> QED
    BY <1>17, <1>20, <2>1, SetsMoves
<1>21. CASE set_time
  <2>1. UNCHANGED <<conns, kept>>
    BY <1>21 DEF set_time
  <2> QED
    BY <1>17, <1>21, <2>1, TimesMoves
<1>22. CASE changeAttr
  <2>1. UNCHANGED <<conns, kept>>
    BY <1>22 DEF changeAttr
  <2> QED
    BY <1>3, <1>22, <2>1, ChangeAttrMoves DEF Moves, SameCall, SameMarks
<1>23. CASE Outsider \/ LocalProcess \/ ReadAgain
  BY <1>1, <1>23 DEF Outsider, LocalProcess, ReadAgain
<1> QED
  BY <1>5, <1>6, <1>7, <1>8, <1>9, <1>10, <1>11, <1>12, <1>13, <1>14, <1>15, <1>16, <1>18, <1>19,
     <1>20, <1>21, <1>22, <1>23, <1>b DEF Next, Serve

LEMMA AgreementKept ==
  ASSUME Agreement, agree' => agree, mir'.data = mir.data, obj'.data = obj.data,
         HalfWritten' <=> HalfWritten, HalfWritten => req'.arg = req.arg
  PROVE  Agreement'
BY DEF Agreement

LEMMA HalfWrittenNow ==
  ASSUME UNCHANGED conf, req # NoReq, SameCall(req', req)
  PROVE  /\ HalfWritten' <=> /\ req.op = "WRITE" /\ Head(req'.todo) \in {"connect", "login", "iWrite"}
                             /\ OnMirror
         /\ OnMirror' <=> OnMirror
<1>1. MirrorPath' = MirrorPath
  BY PathsSame
<1>2. OnMirror' <=> OnMirror
  BY <1>1 DEF OnMirror, SameCall
<1> QED
  BY <1>2 DEF HalfWritten, SameCall

LEMMA AgreementStep ==
  ASSUME Types, Planning, Arguments, Agreement, [Next]_vars
  PROVE  Agreement'
<1> USE DEF hist
<1>0. UNCHANGED conf /\ mir \in Files /\ obj \in Objects /\ agree \in BOOLEAN
  BY Evolves DEF Types
<1>m. MirrorPath' = MirrorPath
  BY <1>0, PathsSame
<1>1. ASSUME UNCHANGED req, agree' => agree, mir'.data = mir.data, obj'.data = obj.data PROVE Agreement'
  <2>1. OnMirror' <=> OnMirror
    BY <1>1, <1>m DEF OnMirror
  <2>2. HalfWritten' <=> HalfWritten
    BY <1>1, <2>1 DEF HalfWritten
  <2> QED
    BY <1>1, <2>2, AgreementKept
<1>2. ASSUME agree' = FALSE PROVE Agreement'
  BY <1>2 DEF Agreement
<1>3. ASSUME NEW from, NEW to, Moves(from, to), req.op # "WRITE",
             agree' => agree, mir'.data = mir.data, obj'.data = obj.data
      PROVE  Agreement'
  <2>1. ~HalfWritten /\ ~HalfWritten'
    BY <1>0, <1>3, HalfWrittenNow DEF HalfWritten, Moves
  <2> QED
    BY <1>3, <2>1, AgreementKept
<1>4. CASE UNCHANGED vars
  BY <1>1, <1>4 DEF vars
<1>5. CASE \E op \in conf.ops, uid \in Uids : \E arg \in Args(op) :
              \E rods \in RodsPaths(op, uid, arg) :
                Begin(op, uid, arg, rods)
  <2>1. PICK op \in conf.ops, uid \in Uids :
            \E arg \in Args(op) : \E rods \in RodsPaths(op, uid, arg) : 
              Begin(op, uid, arg, rods)
    BY <1>5, Zenon
  <2>2a. PICK arg \in Args(op) : \E rods \in RodsPaths(op, uid, arg) : Begin(op, uid, arg, rods)
    BY <2>1, Zenon
  <2>2. PICK rods \in RodsPaths(op, uid, arg) : Begin(op, uid, arg, rods)
    BY <2>2a, Zenon
  <2>3. op \in Ops
    BY RodsAssumption DEF Types
  <2>4. /\ UNCHANGED <<mir, obj, agree>> /\ req = NoReq
        /\ UNCHANGED req \/ req' = Request(op, uid, arg, rods)
    BY <2>2 DEF Begin
  <2>5. CASE UNCHANGED req
    BY <1>1, <2>4, <2>5
  <2>6. CASE req' = Request(op, uid, arg, rods)
    <3>1. /\ req'.op = op /\ IsRequest(req') /\ req'.todo = Steps(op)
          /\ Head(req'.todo) \in {"connect", "pwrite", "set_attr"}
      BY <2>3, <2>6, BeginMoves
    <3>2. op = "WRITE" => Head(req'.todo) = "pwrite"
      BY <3>1 DEF Steps
    <3>3. ~HalfWritten' /\ ~HalfWritten
      BY <2>4, <3>1, <3>2 DEF HalfWritten
    <3> QED
      BY <2>4, <3>3, AgreementKept
  <2> QED
    BY <2>4, <2>5, <2>6
<1>6. CASE Dies
  BY <1>2, <1>6 DEF Dies
<1>7. CASE rodsConnecUser
  <2>1. CASE Moves("connect", {"login"}) /\ UNCHANGED <<mir, obj, agree>>
    <3>1. HalfWritten' <=> HalfWritten
      BY <1>0, <2>1, HalfWrittenNow DEF HalfWritten, Moves
    <3>2. req'.arg = req.arg
      BY <2>1 DEF Moves, SameCall
    <3> QED
      BY <2>1, <3>1, <3>2, AgreementKept
  <2> QED
    BY <1>6, <1>7, <2>1, ConnectMoves
<1>8. CASE rodsLogin
  <2>1. Moves("login", {CallOf(req.op)}) /\ UNCHANGED <<mir, obj, agree>>
    BY <1>8, LoginMoves
  <2>2. req.op = "WRITE" => Head(req'.todo) = "iWrite"
    BY <2>1 DEF Moves, CallOf
  <2>3. HalfWritten' <=> HalfWritten
    BY <1>0, <2>1, <2>2, HalfWrittenNow DEF HalfWritten, Moves
  <2>4. req'.arg = req.arg
    BY <2>1 DEF Moves, SameCall
  <2> QED
    BY <2>1, <2>3, <2>4, AgreementKept
<1>9. CASE rcDisconnect
  <2>1. CASE Moves("disconnect", {LastOf(req.op)}) /\ UNCHANGED <<mir, obj, agree>>
    <3>1. Head(req'.todo) \in {"read", "done", "close"}
      BY <2>1 DEF Moves, LastOf
    <3>2. ~HalfWritten' /\ ~HalfWritten
      BY <1>0, <2>1, <3>1, HalfWrittenNow DEF HalfWritten, Moves
    <3> QED
      BY <2>1, <3>2, AgreementKept
  <2> QED
    BY <1>6, <1>9, <2>1, DisconnectMoves
<1>10. CASE CallDies \/ Restart
  BY <1>6, <1>10 DEF CallDies, Restart
<1>11. CASE fileSize
  <2>1. Moves("fileSize", {"disconnect"}) /\ UNCHANGED <<mir, obj, agree>> /\ "fileSize" = CallOf(req.op)
    BY <1>11, FileSizeMoves
  <2>2. req.op # "WRITE"
    BY <2>1 DEF CallOf
  <2> QED
    BY <1>3, <2>1, <2>2
<1>12. CASE OtherCall
  <2>1. At("call") /\ Done /\ UNCHANGED <<mir, obj, agree>>
    BY <1>12 DEF OtherCall
  <2>2. Moves("call", {"disconnect"}) /\ "call" = CallOf(req.op)
    BY <2>1, CallDone
  <2>3. req.op # "WRITE"
    BY <2>2 DEF CallOf
  <2> QED
    BY <1>3, <2>1, <2>2, <2>3
<1>13. CASE getFile
  <2>1. At("getFile") /\ Done /\ UNCHANGED obj
    BY <1>13 DEF getFile
  <2>2. Moves("getFile", {"disconnect"}) /\ "getFile" = CallOf(req.op)
    BY <2>1, CallDone
  <2>3. req.op # "WRITE"
    BY <2>2 DEF CallOf
  <2>4. CASE UNCHANGED <<mir, agree>>
    BY <1>3, <2>1, <2>2, <2>3, <2>4
  <2>5. CASE agree' = FALSE
    BY <1>2, <2>5
  <2>6. CASE mir' = [mir EXCEPT !.data = obj.data]
    <3>1. mir'.data = obj.data
      BY <1>0, <2>6 DEF Files
    <3>2. ~HalfWritten'
      BY <1>0, <2>2, <2>3, HalfWrittenNow DEF Moves
    <3> QED
      BY <2>1, <3>1, <3>2 DEF Agreement
  <2> QED
    BY <1>13, <2>4, <2>5, <2>6 DEF getFile
<1>14. CASE READ
  <2>1. req # NoReq /\ Head(req.todo) = "read" /\ req' = NoReq /\ UNCHANGED <<mir, obj, agree>>
    BY <1>14 DEF READ, At, Finish
  <2>2. ~HalfWritten' /\ ~HalfWritten
    BY <2>1 DEF HalfWritten
  <2> QED
    BY <2>1, <2>2, AgreementKept
<1>15. CASE pwrite
  <2>1. req # NoReq /\ Head(req.todo) = "pwrite" /\ UNCHANGED obj
    BY <1>15 DEF pwrite, At
  <2>2. ~HalfWritten
    BY <2>1 DEF HalfWritten
  <2>3. agree => mir.data = obj.data
    BY <2>2 DEF Agreement
  <2>4. CASE Finish("ERR", 0, {}) /\ UNCHANGED <<mir, agree>>
    <3>1. ~HalfWritten'
      BY <2>4 DEF HalfWritten, Finish
    <3> QED
      BY <2>1, <2>2, <2>4, <3>1, AgreementKept
  <2>5. CASE Moves("pwrite", {"connect"})
    <3>1. ~Finish("ERR", 0, {})
      BY <2>5 DEF Moves, SameCall, Finish
    <3>2. req.op = "WRITE" /\ req'.arg = req.arg
      BY <2>1, <2>5, Working, StepOp DEF Moves, SameCall
    <3>3. HalfWritten' <=> OnMirror
      BY <1>0, <2>5, <3>2, HalfWrittenNow DEF Moves
    <3>4. CASE OnMirror /\ \E n \in 1..req.arg.len :
                 /\ mir' = [mir EXCEPT !.data = Put(@, req.arg.offset, n)]
                 /\ agree' = (agree /\ OnObject /\ n = req.arg.len)
      <4>0. PICK n \in 1..req.arg.len :
                 /\ mir' = [mir EXCEPT !.data = Put(@, req.arg.offset, n)]
                 /\ agree' = (agree /\ OnObject /\ n = req.arg.len)
        BY <3>4
      <4>1. mir'.data = Put(mir.data, req.arg.offset, n)
        BY <1>0, <4>0 DEF Files
      <4>2. agree' => mir'.data = Put(obj.data, req.arg.offset, req.arg.len)
        BY <2>3, <4>0, <4>1
      <4>3. Put(obj.data, req.arg.offset, req.arg.len)' = Put(obj.data, req.arg.offset, req.arg.len)
        BY <2>1, <3>2 DEF Put
      <4> QED
        BY <3>3, <3>4, <4>2, <4>3 DEF Agreement
    <3>5. CASE ~OnMirror /\ UNCHANGED <<mir, agree>>
      BY <2>1, <2>2, <3>3, <3>5, AgreementKept
    <3>6. CASE agree' = (agree /\ ~OnMirror /\ ~OnObject) /\ UNCHANGED mir
      <4>1. CASE OnMirror
        BY <1>2, <3>6, <4>1
      <4>2. CASE ~OnMirror
        BY <2>1, <2>2, <3>3, <3>6, <4>2, AgreementKept
      <4> QED
        BY <4>1, <4>2
    <3> QED
      BY <1>15, <3>1, <3>4, <3>5, <3>6 DEF pwrite
  <2> QED
    BY <1>15, <2>4, <2>5, PwriteMoves
<1>16. CASE iWrite
  <2>1. UNCHANGED mir /\ Moves("iWrite", {"disconnect"}) /\ req.op = "WRITE"
    BY <1>16, IWriteMoves
  <2>4. (HalfWritten <=> OnMirror) /\ ~HalfWritten'
    BY <1>0, <2>1, HalfWrittenNow DEF HalfWritten, Moves
  <2>5. req.arg.offset \in Nat
    BY <2>1 DEF Arguments, Moves
  <2>6. CASE \E n \in 1..req.arg.len :
             /\ obj' = [obj EXCEPT !.data = Put(@, IntOffset(req.arg.offset), n)]
             /\ agree' = (agree /\ OnMirror /\ req.arg.offset < INT_LIMIT /\ n = req.arg.len)
    <3>0. PICK n \in 1..req.arg.len :
             /\ obj' = [obj EXCEPT !.data = Put(@, IntOffset(req.arg.offset), n)]
             /\ agree' = (agree /\ OnMirror /\ req.arg.offset < INT_LIMIT /\ n = req.arg.len)
      BY <2>6
    <3>1. obj'.data = Put(obj.data, IntOffset(req.arg.offset), n)
      BY <1>0, <3>0 DEF Objects
    <3>2. agree' => /\ mir.data = Put(obj.data, req.arg.offset, req.arg.len) /\ n = req.arg.len
                    /\ IntOffset(req.arg.offset) = req.arg.offset
      BY <2>4, <2>5, <3>0, IntOffsetType DEF Agreement
    <3>3. agree' => mir'.data = obj'.data
      BY <2>1, <3>1, <3>2
    <3> QED
      BY <2>4, <3>3 DEF Agreement
  <2>7. CASE agree' = (agree /\ ~OnMirror) /\ UNCHANGED obj
    <3>1. agree' => mir'.data = obj'.data
      BY <2>1, <2>4, <2>7 DEF Agreement
    <3> QED
      BY <2>4, <3>1 DEF Agreement
  <2> QED
    BY <1>16, <2>6, <2>7 DEF iWrite
<1>17. CASE listCollection
  <2>1. CASE agree' = FALSE
    BY <1>2, <2>1
  <2>2. CASE At("listCollection") /\ Done /\ UNCHANGED <<obj, mir, agree>>
    <3>1. Moves("listCollection", {"disconnect"}) /\ "listCollection" = CallOf(req.op)
      BY <2>2, CallDone
    <3>2. req.op # "WRITE"
      BY <3>1 DEF CallOf
    <3> QED
      BY <1>3, <2>2, <3>1, <3>2
  <2> QED
    BY <1>6, <1>17, <2>1, <2>2 DEF listCollection
<1>18. CASE Reply
  <2>1. /\ req # NoReq /\ Head(req.todo) \in {"done", "close"} /\ req' = NoReq
        /\ UNCHANGED <<mir, obj, agree>>
    BY <1>18 DEF Reply, At, Finish
  <2>2. ~HalfWritten' /\ ~HalfWritten
    BY <2>1 DEF HalfWritten
  <2> QED
    BY <2>1, <2>2, AgreementKept
<1>19. ASSUME NEW from, NEW to, SetMoves(from, to), agree' => agree, mir'.data = mir.data, obj'.data = obj.data
       PROVE  Agreement'
  BY <1>3, <1>19 DEF SetMoves
<1>20. CASE SetAttrOpens \/ SetAttrElsewhere \/ SetAttrCloses
  <2>1. UNCHANGED <<mir, obj, agree>>
    BY <1>20 DEF SetAttrOpens, SetAttrElsewhere, SetAttrCloses
  <2> QED
    BY <1>19, <1>20, <2>1, OpensMoves, ElsewhereMoves, ClosesMoves
<1>21. CASE SetAttrChecks
  <2>1. UNCHANGED <<mir, obj, agree>>
    BY <1>21 DEF SetAttrChecks
  <2> QED
    BY <1>19, <1>21, <2>1, ChecksMoves
<1>22. ASSUME NEW from, NEW to, SetMoves(from, to), UNCHANGED obj, NEW a, SetOne(a),
              a = "mode" => "mode" \in req.arg.set
       PROVE  Agreement'
  <2>1. a = "mode" => req.arg.mode \in Mode
    BY <1>22 DEF Arguments, SetMoves, Moves
  <2>2. agree' = (agree /\ a # "size") /\ (a # "size" => mir'.data = mir.data)
    BY <1>22, <2>1, SetOneFile
  <2>3. CASE a = "size"
    BY <1>2, <2>2, <2>3
  <2>4. CASE a # "size"
    BY <1>19, <1>22, <2>2, <2>4
  <2> QED
    BY <2>3, <2>4
<1>23. CASE SetAttrSets
  <2>1. UNCHANGED obj
    BY <1>23 DEF SetAttrSets
  <2>2. PICK a \in Attrs : \/ SetMoves(a, {"closefd", "times"} \cup Attrs) /\ SetOne(a) /\ a \in req.arg.set
                           \/ SetMoves(a, {"connect"}) /\ UNCHANGED <<mir, touched, agree, shown>>
    BY <1>23, SetsMoves
  <2> QED
    BY <1>19, <1>22, <2>1, <2>2
<1>24. CASE set_time
  <2>1. UNCHANGED obj
    BY <1>24 DEF set_time
  <2>2. /\ SetMoves("times", {"connect"})
        /\ SetOne("times") \/ UNCHANGED <<mir, touched, agree, shown>>
    BY <1>24, TimesMoves
  <2> QED
    BY <1>19, <1>22, <2>1, <2>2
<1>25. CASE changeAttr
  <2>1. UNCHANGED <<mir, agree>>
    BY <1>25 DEF changeAttr
  <2>2. obj'.data = obj.data
    <3> DEFINE l == AccessLevel(req.arg.mode)
    <3>1. UNCHANGED obj \/ obj' = [obj EXCEPT !.acl = l]
      BY <1>25 DEF changeAttr
    <3> HIDE DEF l
    <3> QED
      BY <1>0, <3>1 DEF Objects
  <2>3. Moves("changeAttr", {"disconnect"}) /\ req.op = "SETATTR"
    BY <1>25, ChangeAttrMoves
  <2> QED
    BY <1>3, <2>1, <2>2, <2>3
<1>26. CASE Outsider
  <2>1. CASE agree' = FALSE
    BY <1>2, <2>1
  <2>2. CASE obj' = [obj EXCEPT !.shared = {"read"}] /\ UNCHANGED <<agree, quiet>>
    <3>1. obj'.data = obj.data
      BY <1>0, <2>2 DEF Objects
    <3> QED
      BY <1>1, <1>26, <2>2, <3>1 DEF Outsider
  <2> QED
    BY <1>26, <2>1, <2>2 DEF Outsider
<1>27. CASE LocalProcess
  BY <1>2, <1>27 DEF LocalProcess
<1>28. CASE ReadAgain
  BY <1>1, <1>28 DEF ReadAgain
<1> QED
  BY <1>4, <1>5, <1>7, <1>8, <1>9, <1>10, <1>11, <1>12, <1>13, <1>14, <1>15, <1>16, <1>17, <1>18,
     <1>20, <1>21, <1>23, <1>24, <1>25, <1>26, <1>27, <1>28 DEF Next, Serve

LEMMA HoldingStep ==
  ASSUME Types, Planning, Arguments, Holding, [Next]_vars
  PROVE  Holding'
<1> USE DEF hist
<1>0. \/ req = NoReq
      \/ /\ Head(req.todo) \in Attrs /\ req.fd # 0 => req.fd = req.ino
         /\ req.op = "SETATTR" => \A t \in touched : t.by = "fd" => t.ino = req.ino
  BY DEF Holding, OnlyHandlesObject
<1>1. ASSUME UNCHANGED <<req, touched>> PROVE Holding'
  BY <1>1 DEF Holding, OnlyHandlesObject
<1>2. ASSUME req' = NoReq PROVE Holding'
  <2>1. req'.op # "SETATTR"
    BY <1>2 DEF NoReq
  <2> QED
    BY <1>2, <2>1 DEF Holding, OnlyHandlesObject
<1>3. ASSUME NEW from, NEW to, Moves(from, to), to \cap Attrs = {}, touched' \in {touched, {}}
      PROVE  Holding'
  <2>1. req # NoReq /\ req'.op = req.op /\ req'.ino = req.ino /\ Head(req'.todo) \notin Attrs
    BY <1>3 DEF Moves, SameCall
  <2>2. req'.op = "SETATTR" => \A t \in touched' : t.by = "fd" => t.ino = req'.ino
    BY <1>0, <1>3, <2>1
  <2> QED
    BY <2>1, <2>2 DEF Holding, OnlyHandlesObject
<1>4. CASE UNCHANGED vars
  BY <1>1, <1>4 DEF vars
<1>5. CASE \E op \in conf.ops, uid \in Uids : \E arg \in Args(op) :
              \E rods \in RodsPaths(op, uid, arg) :
                Begin(op, uid, arg, rods)
  <2>1. PICK op \in conf.ops, uid \in Uids :
            \E arg \in Args(op) : \E rods \in RodsPaths(op, uid, arg) : 
              Begin(op, uid, arg, rods)
    BY <1>5, Zenon
  <2>2a. PICK arg \in Args(op) : \E rods \in RodsPaths(op, uid, arg) : Begin(op, uid, arg, rods)
    BY <2>1, Zenon
  <2>2. PICK rods \in RodsPaths(op, uid, arg) : Begin(op, uid, arg, rods)
    BY <2>2a, Zenon
  <2>3. op \in Ops
    BY RodsAssumption DEF Types
  <2>4. touched' = {} /\ req = NoReq /\ (UNCHANGED req \/ req' = Request(op, uid, arg, rods))
    BY <2>2 DEF Begin
  <2>5. CASE UNCHANGED req
    BY <1>2, <2>4, <2>5
  <2>6. CASE req' = Request(op, uid, arg, rods)
    <3>1. req'.fd = 0
      BY <2>3, <2>6, BeginMoves
    <3> QED
      BY <2>4, <3>1 DEF Holding, OnlyHandlesObject
  <2> QED
    BY <2>4, <2>5, <2>6
<1>6. CASE Dies
  BY <1>2, <1>6 DEF Dies
<1>7. CASE rodsConnecUser
  <2>1. CASE Moves("connect", {"login"}) /\ touched' = {}
    BY <1>3, <2>1 DEF Attrs
  <2> QED
    BY <1>6, <1>7, <2>1, ConnectMoves
<1>8. CASE rodsLogin
  <2>1. Moves("login", {CallOf(req.op)}) /\ UNCHANGED touched
    BY <1>8, LoginMoves
  <2>2. req.op \in Ops
    BY <2>1, Working DEF Moves
  <2>3. {CallOf(req.op)} \cap Attrs = {}
    BY <2>2 DEF CallOf, Attrs, Ops
  <2> QED
    BY <1>3, <2>1, <2>3
<1>9. CASE rcDisconnect
  <2>1. CASE Moves("disconnect", {LastOf(req.op)}) /\ UNCHANGED touched
    <3>1. {LastOf(req.op)} \cap Attrs = {}
      BY DEF LastOf, Attrs
    <3> QED
      BY <1>3, <2>1, <3>1
  <2> QED
    BY <1>6, <1>9, <2>1, DisconnectMoves
<1>10. CASE CallDies \/ Restart
  BY <1>6, <1>10 DEF CallDies, Restart
<1>11. {"disconnect"} \cap Attrs = {} /\ {"connect"} \cap Attrs = {}
  BY DEF Attrs
<1>12. CASE fileSize
  BY <1>3, <1>11, <1>12, FileSizeMoves
<1>a. CASE iWrite
  BY <1>3, <1>11, <1>a, IWriteMoves
<1>13. CASE getFile \/ OtherCall
  <2>1. PICK call \in {"getFile", "call"} : At(call) /\ Done /\ UNCHANGED touched
    BY <1>13 DEF getFile, OtherCall
  <2>2. Moves(call, {"disconnect"})
    BY <2>1, CallDone
  <2> QED
    BY <1>3, <1>11, <2>1, <2>2
<1>14. CASE READ \/ Reply
  BY <1>2, <1>14 DEF READ, Reply, Finish
<1>15. CASE pwrite
  <2>1. UNCHANGED touched
    BY <1>15 DEF pwrite
  <2>2. CASE Finish("ERR", 0, {})
    BY <1>2, <2>2 DEF Finish
  <2>3. CASE Moves("pwrite", {"connect"})
    BY <1>3, <1>11, <2>1, <2>3
  <2> QED
    BY <1>15, <2>2, <2>3, PwriteMoves
<1>16. CASE listCollection
  <2>1. CASE At("listCollection") /\ Done /\ UNCHANGED touched
    <3>1. Moves("listCollection", {"disconnect"})
      BY <2>1, CallDone
    <3> QED
      BY <1>3, <1>11, <2>1, <3>1
  <2> QED
    BY <1>6, <1>16, <2>1 DEF listCollection
<1>17. CASE SetAttrOpens \/ SetAttrElsewhere \/ SetAttrCloses
  <2>1. UNCHANGED touched
    BY <1>17 DEF SetAttrOpens, SetAttrElsewhere, SetAttrCloses
  <2>2. PICK from, to : Moves(from, to) /\ to \subseteq {"connect", "fstat", "unsafe", "times"}
    <3>1. CASE SetAttrOpens
      BY <3>1, OpensMoves DEF SetMoves
    <3>2. CASE SetAttrElsewhere
      BY <3>2, ElsewhereMoves DEF SetMoves
    <3>3. CASE SetAttrCloses
      BY <3>3, ClosesMoves DEF SetMoves
    <3> QED
      BY <1>17, <3>1, <3>2, <3>3
  <2>3. to \cap Attrs = {}
    BY <2>2 DEF Attrs
  <2> QED
    BY <1>3, <2>1, <2>2, <2>3
<1>18. CASE SetAttrChecks
  <2>1. UNCHANGED touched
    BY <1>18 DEF SetAttrChecks
  <2>2. PICK h : SetMoves(h, {"connect", "closefd", "times"} \cup Attrs) /\ (req'.fd = 0 \/ req'.fd = req.ino)
    BY <1>18, ChecksMoves
  <2>3. req # NoReq /\ req'.op = req.op /\ req'.ino = req.ino
    BY <2>2 DEF SetMoves, Moves, SameCall
  <2> QED
    BY <1>0, <2>1, <2>2, <2>3 DEF Holding, OnlyHandlesObject
<1>19. CASE SetAttrSets
  <2>1. PICK a \in Attrs :
            \/ /\ SetMoves(a, {"closefd", "times"} \cup Attrs) /\ req'.fd = req.fd /\ SetOne(a)
            \/ SetMoves(a, {"connect"}) /\ UNCHANGED <<mir, touched, agree, shown>>
    BY <1>19, SetsMoves
  <2>2. CASE SetMoves(a, {"connect"}) /\ UNCHANGED touched
    BY <1>3, <1>11, <2>2 DEF SetMoves
  <2>3. CASE /\ SetMoves(a, {"closefd", "times"} \cup Attrs) /\ req'.fd = req.fd /\ SetOne(a)
    <3>1. /\ req # NoReq /\ req'.op = req.op /\ req'.ino = req.ino /\ Head(req.todo) = a
          /\ req.op = "SETATTR"
      BY <2>3 DEF SetMoves, Moves, SameCall
    <3>2. req.fd # 0 => req.fd = req.ino
      BY <1>0, <3>1
    <3>3. a # "times"
      BY DEF Attrs
    <3>4. \A t \in touched' : t \in touched \/ (t.by = "fd" => req.fd # 0 /\ t.ino = req.fd)
      BY <2>3, <3>3 DEF SetOne
    <3>5. \A t \in touched' : t.by = "fd" => t.ino = req.ino
      BY <1>0, <3>1, <3>2, <3>4
    <3> QED
      BY <2>3, <3>1, <3>2, <3>5 DEF Holding, OnlyHandlesObject
  <2> QED
    BY <2>1, <2>2, <2>3
<1>20. CASE set_time
  <2>1. /\ SetMoves("times", {"connect"}) /\ req'.fd = 0
        /\ SetOne("times") \/ UNCHANGED <<mir, touched, agree, shown>>
    BY <1>20, TimesMoves
  <2>2. /\ req # NoReq /\ req'.op = req.op /\ req'.ino = req.ino /\ req.op = "SETATTR"
    BY <2>1 DEF SetMoves, Moves, SameCall
  <2>3. \A t \in touched' : t \in touched \/ t.by = "path"
    BY <2>1 DEF SetOne
  <2>4. \A t \in touched' : t.by = "fd" => t.ino = req.ino
    BY <1>0, <2>2, <2>3
  <2> QED
    BY <2>1, <2>2, <2>4 DEF Holding, OnlyHandlesObject
<1>21. CASE changeAttr
  <2>1. UNCHANGED touched
    BY <1>21 DEF changeAttr
  <2> QED
    BY <1>3, <1>11, <1>21, <2>1, ChangeAttrMoves
<1>22. CASE Outsider \/ LocalProcess \/ ReadAgain
  BY <1>1, <1>22 DEF Outsider, LocalProcess, ReadAgain
<1> QED
  BY <1>4, <1>5, <1>7, <1>8, <1>9, <1>10, <1>12, <1>13, <1>14, <1>15, <1>16, <1>17, <1>18, <1>19,
     <1>20, <1>21, <1>22, <1>a DEF Next, Serve

LEMMA InitInv ==
  ASSUME Init
  PROVE  Inv
<1>1. <<>> \in Seq(Bytes)
  BY EmptySeq
<1>2. <<"o", "x">> \in Seq(Bytes)
  <2>1. \A S : \A x, y \in S : <<x, y>> \in Seq(S)
    OBVIOUS
  <2>2. "o" \in Bytes /\ "x" \in Bytes
    BY DEF Bytes
  <2> QED
    BY <2>1, <2>2
<1>3. <<0, 0, 0>> \in Mode
  BY DEF Mode, Digit
<1>4. (CHOOSE i \in Inos : TRUE) \in Inos
  BY RodsAssumption
<1>5. obj \in Objects
  <2> DEFINE d == <<"o", "x">>
  <2>1. obj = [there |-> TRUE, data |-> d, acl |-> "own", shared |-> {}] /\ d \in Seq(Bytes)
    BY <1>2 DEF Init
  <2> HIDE DEF d
  <2> QED
    BY <2>1 DEF Objects, Levels
<1>6. mir \in Files /\ mir.there = FALSE
  <2> DEFINE d == <<>>
             m == <<0, 0, 0>>
             j == CHOOSE i \in Inos : TRUE
  <2>1. /\ mir = [there |-> FALSE, ino |-> j, kind |-> "reg", mode |-> m, data |-> d]
        /\ d \in Seq(Bytes) /\ m \in Mode /\ j \in Inos
    BY <1>1, <1>3, <1>4 DEF Init
  <2> HIDE DEF d, m, j
  <2> QED
    BY <2>1 DEF Files
<1>7. reader \in [got : Seq(Bytes), eof : BOOLEAN] /\ reader.got = <<>> /\ reader.eof = FALSE
  <2> DEFINE d == <<>>
  <2>1. reader = [got |-> d, eof |-> FALSE] /\ d \in Seq(Bytes)
    BY <1>1 DEF Init
  <2>2. d = <<>>
    OBVIOUS
  <2> HIDE DEF d
  <2> QED
    BY <2>1, <2>2
<1>8. shown \in [asked : SUBSET Mode, listed : BOOLEAN] /\ shown.asked = {} /\ shown.listed = FALSE
  BY DEF Init
<1>9. reply.status \in Reports /\ reply.size \in Nat /\ reply.seen = {}
  BY DEF Init, NoReply, Reports
<1>10. Types
  BY <1>5, <1>6, <1>7, <1>8, <1>9 DEF Types, Init
<1>11. req = NoReq /\ req.op # "SETATTR"
  BY DEF Init, NoReq
<1>12. MaxConns \in Nat
  BY RodsAssumption
<1>13. Counting
  BY <1>11, <1>12 DEF Counting, ConnectionsReturned, Init
<1>15. Planning /\ Arguments /\ Translated
  BY <1>11 DEF Planning, Arguments, Translated
<1>16. Agreement
  BY DEF Agreement, Init
<1>17. Holding
  BY <1>11 DEF Holding, OnlyHandlesObject
<1> QED
  BY <1>10, <1>13, <1>15, <1>16, <1>17 DEF Inv

LEMMA InvStep ==
  ASSUME Inv, [Next]_vars
  PROVE  Inv'
<1>1. /\ Types /\ Planning /\ Counting /\ Arguments /\ Translated
      /\ Agreement /\ Holding
  BY DEF Inv
<1>2. Planning'
  BY <1>1, Evolves
<1>3. Types' /\ Counting' /\ Arguments' /\ Translated'
  BY <1>1, TypesStep, CountingStep, ArgumentsStep, TranslatedStep
<1>4. Agreement' /\ Holding'
  BY <1>1, AgreementStep, HoldingStep
<1> QED
  BY <1>2, <1>3, <1>4 DEF Inv

----------------------------------------------------------------------------
(* Paths: a name behind a slash, and what follows it *)

Chars == STRING \cup {"/", "f", "public"}

LEMMA OneChar ==
  ASSUME NEW c \in Chars
  PROVE  <<c>> \in Seq(Chars) /\ Len(<<c>>) = 1 /\ <<c>>[1] = c
OBVIOUS

LEMMA PlainType ==
  ASSUME NEW name, Plain(name)
  PROVE  name \in Seq(Chars) /\ Len(name) \in Nat
<1>1. name \in Seq(STRING) /\ STRING \subseteq Chars
  BY DEF Plain, Chars
<1> QED
  BY <1>1, SeqMonotonic, LenProperties

LEMMA Joined ==
  ASSUME NEW n \in Seq(Chars), NEW p \in Seq(Chars)
  PROVE  LET j == (Slash \o n) \o p
         IN  /\ j \in Seq(Chars) /\ Len(j) = Len(n) + 1 + Len(p) /\ Len(j) \in Nat
             /\ Len(n) \in Nat /\ Len(p) \in Nat
             /\ \A i \in 1..Len(n) : j[i + 1] = n[i]
             /\ \A i \in 1..Len(p) : j[Len(n) + 1 + i] = p[i]
             /\ Slash \o n \in Seq(Chars) /\ Len(Slash \o n) = Len(n) + 1
             /\ \A i \in 1..(Len(n) + 1) : j[i] = (Slash \o n)[i]
<1> DEFINE h == Slash \o n
           j == h \o p
<1>1. Slash \in Seq(Chars) /\ Len(Slash) = 1
  <2>1. "/" \in Chars
    BY DEF Chars
  <2> QED
    BY <2>1, OneChar DEF Slash
<1>2. Len(n) \in Nat /\ Len(p) \in Nat
  BY LenProperties
<1>3. /\ h \in Seq(Chars) /\ Len(h) = Len(n) + 1
      /\ \A i \in 1..(1 + Len(n)) : h[i] = IF i <= 1 THEN Slash[i] ELSE n[i - 1]
  <2>1. /\ h \in Seq(Chars) /\ Len(h) = Len(Slash) + Len(n)
        /\ \A i \in 1..(Len(Slash) + Len(n)) : h[i] = IF i <= Len(Slash) THEN Slash[i] ELSE n[i - Len(Slash)]
    BY <1>1, ConcatProperties
  <2> QED
    BY <1>1, <1>2, <2>1
<1>4. \A i \in 1..Len(n) : h[i + 1] = n[i]
  BY <1>2, <1>3
<1> HIDE DEF h
<1>5. /\ j \in Seq(Chars) /\ Len(j) = Len(h) + Len(p)
      /\ \A i \in 1..(Len(h) + Len(p)) : j[i] = IF i <= Len(h) THEN h[i] ELSE p[i - Len(h)]
  BY <1>3, ConcatProperties
<1> HIDE DEF j
<1>6. ASSUME NEW i \in 1..Len(p) PROVE j[Len(n) + 1 + i] = p[i]
  <2> DEFINE k == Len(n) + 1 + i
  <2>1. k \in 1..(Len(h) + Len(p)) /\ ~(k <= Len(h)) /\ k - Len(h) = i
    BY <1>2, <1>3
  <2> HIDE DEF k
  <2>2. j[k] = p[k - Len(h)]
    BY <1>5, <2>1
  <2> QED
    BY <2>1, <2>2 DEF k
<1>7. \A i \in 1..(Len(n) + 1) : j[i] = h[i]
  BY <1>2, <1>3, <1>5
<1>8. \A i \in 1..Len(n) : j[i + 1] = n[i]
  BY <1>2, <1>4, <1>7
<1> QED
  BY <1>2, <1>3, <1>5, <1>6, <1>7, <1>8 DEF h, j

(* What is put in front is a prefix.                                         *)
LEMMA InFront ==
  ASSUME NEW h \in Seq(Chars), NEW p \in Seq(Chars)
  PROVE  IsPrefix(h, h \o p)
<1> DEFINE j == h \o p
           s == SubSeq(j, 1, Len(h))
<1>1. /\ j \in Seq(Chars) /\ Len(j) = Len(h) + Len(p)
      /\ \A i \in 1..(Len(h) + Len(p)) : j[i] = IF i <= Len(h) THEN h[i] ELSE p[i - Len(h)]
  BY ConcatProperties
<1>2. Len(h) \in Nat /\ Len(p) \in Nat
  BY LenProperties
<1> HIDE DEF j
<1>3. \A i \in 1..Len(h) : j[i] = h[i] /\ j[i] \in Chars
  BY <1>1, <1>2, ElementOfSeq
<1>4. /\ s \in Seq(Chars) /\ Len(s) = IF 1 <= Len(h) THEN Len(h) - 1 + 1 ELSE 0
      /\ \A i \in 1..(Len(h) - 1 + 1) : s[i] = j[1 + i - 1]
  <2>1. 1 \in Int /\ Len(h) \in Int
    BY <1>2
  <2> QED
    BY <1>3, <2>1, SubSeqProperties
<1> HIDE DEF s
<1>5. Len(s) = Len(h)
  BY <1>2, <1>4
<1>6. ASSUME NEW i \in 1..Len(s) PROVE s[i] = h[i]
  <2>1. i \in 1..(Len(h) - 1 + 1) /\ 1 + i - 1 = i /\ i \in 1..Len(h)
    BY <1>2, <1>5
  <2> QED
    BY <1>3, <1>4, <2>1
<1>7. s = h
  BY <1>4, <1>5, <1>6, SeqEqual
<1>8. SubSeq(h, 1, Len(h)) = h
  BY SubSeqFull
<1>9. Len(h) <= Len(j) /\ SubSeq(h, 1, Len(h)) = SubSeq(j, 1, Len(h))
  BY <1>1, <1>2, <1>7, <1>8 DEF s
<1> QED
  BY <1>9 DEF IsPrefix, j

(* Cutting its length off is undoing it.                                     *)
LEMMA Undone ==
  ASSUME NEW n \in Seq(Chars), NEW p \in Seq(Chars)
  PROVE  LET j == (Slash \o n) \o p
         IN  SubSeq(j, Len(n) + 2, Len(j)) = p
<1> DEFINE h == Slash \o n
           j == h \o p
           cut == SubSeq(j, Len(n) + 2, Len(j))
<1>1. /\ j \in Seq(Chars) /\ Len(j) = Len(n) + 1 + Len(p) /\ Len(n) \in Nat /\ Len(p) \in Nat
      /\ \A i \in 1..Len(p) : j[Len(n) + 1 + i] = p[i]
  BY Joined
<1> HIDE DEF h, j
<1>2. \A i \in 1..Len(j) : j[i] \in Chars
  BY <1>1, ElementOfSeq
<1>3. /\ cut \in Seq(Chars)
      /\ Len(cut) = IF Len(n) + 2 <= Len(j) THEN Len(j) - (Len(n) + 2) + 1 ELSE 0
      /\ \A i \in 1..(Len(j) - (Len(n) + 2) + 1) : cut[i] = j[Len(n) + 2 + i - 1]
  <2>1. \A i \in (Len(n) + 2)..Len(j) : j[i] \in Chars
    BY <1>1, <1>2
  <2>2. Len(n) + 2 \in Int /\ Len(j) \in Int
    BY <1>1
  <2> QED
    BY <2>1, <2>2, SubSeqProperties
<1>4. Len(cut) = Len(p) /\ \A i \in 1..Len(p) : cut[i] = p[i]
  <2>1. Len(cut) = Len(p)
    BY <1>1, <1>3
  <2>2. ASSUME NEW i \in 1..Len(p) PROVE cut[i] = p[i]
    <3>1. i \in 1..(Len(j) - (Len(n) + 2) + 1) /\ Len(n) + 2 + i - 1 = Len(n) + 1 + i
      BY <1>1
    <3>2. cut[i] = j[Len(n) + 2 + i - 1]
      BY <1>3, <3>1
    <3> QED
      BY <1>1, <3>1, <3>2
  <2> QED
    BY <2>1, <2>2
<1>5. cut = p
  <2> HIDE DEF cut
  <2> QED
    BY <1>3, <1>4, SeqEqual
<1> QED
  BY <1>5 DEF h, j

(* "/a/b..." with something behind "/b" is not "/c" with one name less.       *)
LEMMA OneNameMore ==
  ASSUME NEW a, Plain(a), NEW b, Plain(b), NEW c, Plain(c), NEW p \in Seq(Chars)
  PROVE  (Slash \o a) \o ((Slash \o b) \o p) # (Slash \o c) \o p
<1> DEFINE m == (Slash \o b) \o p
           x == (Slash \o a) \o m
           y == (Slash \o c) \o p
<1>1. /\ a \in Seq(Chars) /\ b \in Seq(Chars) /\ c \in Seq(Chars)
      /\ Len(a) \in Nat /\ Len(b) \in Nat /\ Len(c) \in Nat
      /\ \A i \in 1..Len(c) : c[i] # "/"
  BY PlainType DEF Plain
<1>2. /\ m \in Seq(Chars) /\ Len(m) = Len(b) + 1 + Len(p) /\ Len(p) \in Nat /\ m[1] = "/"
  <2>1. /\ m \in Seq(Chars) /\ Len(m) = Len(b) + 1 + Len(p) /\ Len(p) \in Nat
        /\ \A i \in 1..(Len(b) + 1) : m[i] = (Slash \o b)[i]
    BY <1>1, Joined
  <2>2. (Slash \o b)[1] = "/"
    <3>1. Slash \in Seq(Chars) /\ Len(Slash) = 1 /\ Slash[1] = "/"
      <4>1. "/" \in Chars
        BY DEF Chars
      <4> QED
        BY <4>1, OneChar DEF Slash
    <3>2. \A i \in 1..(Len(Slash) + Len(b)) : (Slash \o b)[i] = IF i <= Len(Slash) THEN Slash[i] ELSE b[i - Len(Slash)]
      BY <1>1, <3>1, ConcatProperties
    <3>3. 1 \in 1..(Len(Slash) + Len(b)) /\ 1 <= Len(Slash)
      BY <1>1, <3>1
    <3> QED
      BY <3>1, <3>2, <3>3
  <2>3. 1 \in 1..(Len(b) + 1)
    BY <1>1
  <2> QED
    BY <2>1, <2>2, <2>3
<1> HIDE DEF m
<1>3. /\ Len(x) = Len(a) + 1 + Len(m)
      /\ \A i \in 1..Len(m) : x[Len(a) + 1 + i] = m[i]
  BY <1>1, <1>2, Joined
<1>4. /\ Len(y) = Len(c) + 1 + Len(p)
      /\ \A i \in 1..Len(c) : y[i + 1] = c[i]
  BY <1>1, Joined
<1> HIDE DEF x, y
<1> SUFFICES ASSUME x = y PROVE FALSE
  BY DEF x, y, m
<1>5. Len(a) + 1 + Len(b) = Len(c)
  BY <1>1, <1>2, <1>3, <1>4
<1>6. 1 \in 1..Len(m) /\ Len(a) + 1 \in 1..Len(c)
  BY <1>1, <1>2, <1>5
<1>7. x[Len(a) + 1 + 1] = "/" /\ y[(Len(a) + 1) + 1] = c[Len(a) + 1]
  BY <1>2, <1>3, <1>4, <1>6
<1> QED
  BY <1>1, <1>6, <1>7

LEMMA Letters ==
  /\ Slash \in Seq(Chars) /\ File \in Seq(Chars) /\ <<"public">> \in Seq(Chars) /\ <<>> \in Seq(Chars)
  /\ export_path \in Seq(Chars)
  /\ \A c \in Configurations : c.dir \in Seq(Chars)
<1>1. "/" \in Chars /\ "f" \in Chars /\ "public" \in Chars /\ STRING \subseteq Chars
  BY DEF Chars
<1>2. Slash \in Seq(Chars) /\ <<"public">> \in Seq(Chars) /\ <<>> \in Seq(Chars)
  BY <1>1, OneChar, EmptySeq DEF Slash
<1>3. File \in Seq(Chars)
  <2>1. \A S : \A x, y \in S : <<x, y>> \in Seq(S)
    OBVIOUS
  <2> QED
    BY <1>1, <2>1 DEF File
<1>4. export_path \in Seq(STRING) /\ \A c \in Configurations : c.dir \in Seq(STRING)
  BY RodsAssumption
<1> QED
  BY <1>1, <1>2, <1>3, <1>4, SeqMonotonic

LEMMA Assoc ==
  ASSUME NEW a \in Seq(Chars), NEW b \in Seq(Chars), NEW c \in Seq(Chars)
  PROVE  (a \o b) \o c = a \o (b \o c)
BY ConcatAssociative

(* A path that begins with the user's directory is left alone.               *)
LEMMA OwnInPath ==
  ASSUME NEW uid \in Seq(Chars), NEW rest \in Seq(Chars)
  PROVE  InPath((Slash \o uid) \o rest, uid)
<1> DEFINE d == Slash \o uid
           t == export_path \o Slash \o uid
           s == export_path \o (d \o rest)
<1>1. d \in Seq(Chars) /\ d \o rest \in Seq(Chars)
  BY Letters, ConcatProperties
<1>2. t = export_path \o d
  BY Letters, ConcatAssociative
<1> HIDE DEF d
<1>3. s = t \o rest /\ t \in Seq(Chars)
  <2>0. export_path \in Seq(Chars) /\ d \in Seq(Chars) /\ rest \in Seq(Chars)
    BY <1>1, Letters
  <2>1. export_path \o (d \o rest) = (export_path \o d) \o rest
    BY <2>0, Assoc
  <2>2. export_path \o d \in Seq(Chars)
    BY <1>1, Letters, ConcatProperties
  <2> QED
    BY <1>2, <2>1, <2>2, Zenon
<1> HIDE DEF t
<1>4. s \in Seq(Chars)
  BY <1>1, Letters, ConcatProperties
<1>5. IsPrefix(t, s)
  BY <1>3, InFront
<1> HIDE DEF s
<1>6. SubSeq(s, 1, Len(s)) = s /\ Len(s) \in Nat
  BY <1>4, SubSeqFull, LenProperties
<1>7. 0 \in 0..Len(s) /\ IsPrefix(t, SubSeq(s, 0 + 1, Len(s)))
  <2>1. 0 + 1 = 1 /\ 0 \in 0..Len(s)
    BY <1>6
  <2>2. SubSeq(s, 0 + 1, Len(s)) = s
    BY <1>6, <2>1
  <2> QED
    BY <1>5, <2>1, <2>2, Zenon
<1>8. strstr(s, t)
  BY <1>7 DEF strstr
<1> QED
  BY <1>8, Zenon DEF InPath, s, t, d

(* Where a request goes that need not be led elsewhere.                      *)
LEMMA OwnPaths ==
  ASSUME conf \in Configurations, NEW op, NEW uid, NEW arg,
         op = "READDIR" => ~arg.root, isPublic \/ uid = Me
  PROVE  /\ RealPath(op, uid, arg) = MirrorPath
         /\ RodsPaths(op, uid, arg) = {ObjectPath}
<1> DEFINE front == IF isPublic THEN <<>> ELSE Slash \o Me
           name == IF isPublic THEN <<"public">> ELSE UserNames[Me]
           d == IF op = "READDIR" THEN conf.dir ELSE conf.dir \o File
           e == EntryOf(op)
<1>0. Plain(Me) /\ Plain(UserNames[Me]) /\ Me \in DOMAIN UserNames
  BY RodsAssumption
<1>1. Me \in Seq(Chars) /\ UserNames[Me] \in Seq(Chars) /\ Len(Me) \in Nat
  BY <1>0, PlainType
<1>2. /\ front \in Seq(Chars) /\ name \in Seq(Chars) /\ conf.dir \in Seq(Chars) /\ File \in Seq(Chars)
      /\ d \in Seq(Chars) /\ e \in Seq(Chars) /\ Slash \o name \in Seq(Chars)
  <2>1. front \in Seq(Chars) /\ name \in Seq(Chars)
    BY <1>1, Letters, ConcatProperties
  <2>2. conf.dir \in Seq(Chars) /\ File \in Seq(Chars) /\ e \in Seq(Chars)
    BY Letters DEF EntryOf
  <2>3. d \in Seq(Chars)
    BY <2>2, ConcatProperties
  <2> HIDE DEF name
  <2>4. Slash \o name \in Seq(Chars)
    BY <2>1, Letters, ConcatProperties
  <2> QED
    BY <2>1, <2>2, <2>3, <2>4
<1>3. d \o e = conf.dir \o File
  <2>1. CASE op = "READDIR"
    BY <2>1 DEF EntryOf
  <2>2. CASE op # "READDIR"
    <3>1. d = conf.dir \o File /\ e = <<>>
      BY <2>2, Zenon DEF EntryOf
    <3> QED
      BY <1>2, <3>1, ConcatEmptySeq
  <2> QED
    BY <2>1, <2>2
<1>4. DirPath = front \o conf.dir /\ MirrorPath = (front \o conf.dir) \o File
  BY Zenon DEF DirPath, MirrorPath
<1>5. ObjectPath = ((Slash \o name) \o conf.dir) \o File
  BY Zenon DEF ObjectPath
<1>6. HandlePath(op, arg) = front \o d
  <2>1. CASE op = "READDIR"
    BY <1>4, <2>1, Zenon DEF HandlePath
  <2>2. CASE op # "READDIR"
    <3>1. HandlePath(op, arg) = (front \o conf.dir) \o File /\ d = conf.dir \o File
      BY <1>4, <2>2, Zenon DEF HandlePath
    <3> HIDE DEF front, d
    <3>2. front \in Seq(Chars) /\ conf.dir \in Seq(Chars) /\ File \in Seq(Chars)
      BY <1>2
    <3>3. (front \o conf.dir) \o File = front \o (conf.dir \o File)
      BY <3>2, Assoc
    <3> QED
      BY <3>1, <3>3, Zenon
  <2> QED
    BY <2>1, <2>2
<1>a. getRodsPath(uid, d) = (Slash \o name) \o d
  BY <1>0, Zenon DEF getRodsPath, getUserName
<1> HIDE DEF name
<1>7. ASSUME NEW x \in Seq(Chars) PROVE getRealPathNFS(front \o x, uid) = front \o x
  <2>1. CASE isPublic
    BY <2>1, Zenon DEF getRealPathNFS
  <2>2. CASE ~isPublic
    <3>1. uid = Me /\ front \o x = (Slash \o Me) \o x
      BY <2>2
    <3>2. InPath(front \o x, uid)
      BY <1>1, <3>1, OwnInPath
    <3> QED
      BY <3>2, Zenon DEF getRealPathNFS
  <2> QED
    BY <2>1, <2>2
<1>8. getIRODSpathGetAttr(front \o d, uid) = {d}
  <2> HIDE DEF d
  <2>1. CASE isPublic
    <3>1. front \o d = d
      BY <1>2, <2>1, ConcatEmptySeq
    <3> QED
      BY <2>1, <3>1, Zenon DEF getIRODSpathGetAttr
  <2>2. CASE ~isPublic
    <3> DEFINE j == (Slash \o Me) \o d
    <3>1. uid = Me /\ front \o d = j
      BY <2>2
    <3>2. Len(j) = Len(Me) + 1 + Len(d) /\ Len(d) \in Nat /\ SubSeq(j, Len(Me) + 2, Len(j)) = d
      BY <1>1, <1>2, Joined, Undone
    <3> HIDE DEF j
    <3>3. Len(j) > Len(Me)
      BY <1>1, <3>2
    <3>4. getIRODSpathGetAttr(j, Me) = {d}
      BY <2>2, <3>2, <3>3, Zenon DEF getIRODSpathGetAttr
    <3> QED
      BY <3>1, <3>4
  <2> QED
    BY <2>1, <2>2
<1>9. MirrorPath = front \o (conf.dir \o File) /\ conf.dir \o File \in Seq(Chars)
  <2> HIDE DEF front, d
  <2>1. front \in Seq(Chars) /\ conf.dir \in Seq(Chars) /\ File \in Seq(Chars)
    BY <1>2
  <2>2. conf.dir \o File \in Seq(Chars)
    BY <2>1, ConcatProperties
  <2>3. (front \o conf.dir) \o File = front \o (conf.dir \o File)
    BY <2>1, Assoc
  <2> QED
    BY <1>4, <2>2, <2>3, Zenon
<1>10. MirrorPath = (front \o d) \o e
  <2> HIDE DEF front, d, e
  <2>1. front \in Seq(Chars) /\ d \in Seq(Chars) /\ e \in Seq(Chars)
    BY <1>2
  <2>2. (front \o d) \o e = front \o (d \o e)
    BY <2>1, Assoc
  <2> QED
    BY <1>3, <1>9, <2>2, Zenon
<1>11. ObjectPath = ((Slash \o name) \o d) \o e
  <2>1. ObjectPath = (Slash \o name) \o (conf.dir \o File)
    <3> DEFINE n == Slash \o name
    <3>1. n \in Seq(Chars) /\ ObjectPath = (n \o conf.dir) \o File
      BY <1>2, <1>5
    <3> HIDE DEF n
    <3>2. ObjectPath = n \o (conf.dir \o File)
      BY <1>2, <3>1, Assoc
    <3> QED
      BY <3>2 DEF n
  <2> DEFINE n == Slash \o name
  <2>2. n \in Seq(Chars) /\ ObjectPath = n \o (d \o e)
    BY <1>2, <1>3, <2>1
  <2> HIDE DEF n, d, e
  <2>3. ObjectPath = (n \o d) \o e
    BY <1>2, <2>2, Assoc
  <2> QED
    BY <2>3 DEF n
<1>12. RealPath(op, uid, arg) = MirrorPath
  <2>1. getRealPathNFS(front \o d, uid) = front \o d
    BY <1>2, <1>7
  <2> QED
    BY <1>6, <1>10, <2>1, Zenon DEF RealPath
<1>13. RodsPaths(op, uid, arg) = {ObjectPath}
  <2>1. getRealPathNFS(MirrorPath, uid) = MirrorPath
    BY <1>7, <1>9
  <2>2. op \notin Untranslated => HandlePath(op, arg) = MirrorPath
    BY Zenon DEF Untranslated, HandlePath
  <2> DEFINE path == IF op \in Untranslated THEN HandlePath(op, arg) ELSE getRealPathNFS(MirrorPath, uid)
  <2>3. path = front \o d
    BY <1>6, <2>1, <2>2, Zenon
  <2>4. RodsPaths(op, uid, arg) = {getRodsPath(uid, p) \o e : p \in getIRODSpathGetAttr(path, uid)}
    BY Zenon DEF RodsPaths
  <2> HIDE DEF path
  <2>5. RodsPaths(op, uid, arg) = {getRodsPath(uid, p) \o e : p \in {d}}
    BY <1>8, <2>3, <2>4, Zenon
  <2> HIDE DEF e, d
  <2>6. RodsPaths(op, uid, arg) = {getRodsPath(uid, d) \o e}
    BY <2>5
  <2> QED
    BY <1>11, <1>a, <2>6, Zenon
<1> QED
  BY <1>12, <1>13

(* Where another user's request goes.                                        *)
LEMMA OtherPaths ==
  ASSUME conf \in Configurations, NEW op, NEW uid \in Uids, NEW arg,
         ~isPublic, op \notin Untranslated, ~InPath(MirrorPath, uid)
  PROVE  RealPath(op, uid, arg) # MirrorPath /\ ObjectPath \notin RodsPaths(op, uid, arg)
<1> DEFINE name == getUserName(uid)
           tail == conf.dir \o File
           j == (Slash \o uid) \o MirrorPath
<1>0. Plain(Me) /\ Plain(UserNames[Me]) /\ Plain(uid)
  BY RodsAssumption
<1>1. /\ Me \in Seq(Chars) /\ UserNames[Me] \in Seq(Chars) /\ uid \in Seq(Chars) /\ Len(uid) \in Nat
      /\ Slash \o Me \in Seq(Chars) /\ Slash \o UserNames[Me] \in Seq(Chars)
      /\ conf.dir \in Seq(Chars) /\ File \in Seq(Chars) /\ tail \in Seq(Chars)
  BY <1>0, PlainType, Letters, ConcatProperties
<1>2. MirrorPath = (Slash \o Me) \o tail
  <2>1. MirrorPath = ((Slash \o Me) \o conf.dir) \o File
    BY Zenon DEF MirrorPath, DirPath
  <2> DEFINE n == Slash \o Me
  <2>2. n \in Seq(Chars) /\ conf.dir \in Seq(Chars) /\ File \in Seq(Chars)
    BY <1>1
  <2> HIDE DEF n
  <2>3. (n \o conf.dir) \o File = n \o (conf.dir \o File)
    BY <2>2, Assoc
  <2> QED
    BY <2>1, <2>3, Zenon DEF n, tail
<1>3. ObjectPath = (Slash \o UserNames[Me]) \o tail
  <2>1. ObjectPath = ((Slash \o UserNames[Me]) \o conf.dir) \o File
    BY Zenon DEF ObjectPath
  <2> DEFINE n == Slash \o UserNames[Me]
  <2>2. n \in Seq(Chars) /\ ObjectPath = (n \o conf.dir) \o File
    BY <1>1, <2>1
  <2> HIDE DEF n
  <2>3. ObjectPath = n \o (conf.dir \o File)
    BY <1>1, <2>2, Assoc
  <2> QED
    BY <2>3 DEF n
<1> HIDE DEF tail
<1>4. MirrorPath \in Seq(Chars) /\ Len(MirrorPath) \in Nat
  BY <1>1, <1>2, Joined
<1>5. /\ j \in Seq(Chars) /\ Len(j) = Len(uid) + 1 + Len(MirrorPath)
      /\ SubSeq(j, Len(uid) + 2, Len(j)) = MirrorPath
  BY <1>1, <1>4, Joined, Undone
<1>6. op # "READDIR" /\ HandlePath(op, arg) = MirrorPath /\ EntryOf(op) = <<>>
  BY Zenon DEF Untranslated, HandlePath, EntryOf
<1>7. getRealPathNFS(MirrorPath, uid) = j
  BY Zenon DEF getRealPathNFS
<1>a. getRodsPath(uid, MirrorPath) = (Slash \o name) \o MirrorPath
  BY Zenon DEF getRodsPath
<1> HIDE DEF j
<1>8. j # MirrorPath /\ Len(j) > Len(uid)
  <2>1. Len(j) # Len(MirrorPath) /\ Len(j) > Len(uid)
    BY <1>1, <1>4, <1>5
  <2> QED
    BY <2>1, Zenon
<1>9. RealPath(op, uid, arg) = j
  <2>1. RealPath(op, uid, arg) = j \o <<>>
    BY <1>6, <1>7, Zenon DEF RealPath
  <2> QED
    BY <1>5, <2>1, ConcatEmptySeq
<1>10. getIRODSpathGetAttr(j, uid) = {MirrorPath}
  BY <1>5, <1>8, Zenon DEF getIRODSpathGetAttr
<1>11. Plain(name)
  <2>1. CASE uid \in DOMAIN UserNames
    BY <2>1, RodsAssumption DEF getUserName
  <2>2. CASE uid \notin DOMAIN UserNames
    <3>1. name = <<>>
      BY <2>2 DEF getUserName
    <3>2. <<>> \in Seq(STRING) /\ Len(<<>>) = 0
      BY EmptySeq
    <3>3. \A i \in 1..Len(<<>>) : <<>>[i] # "/"
      BY <3>2
    <3> QED
      BY <3>1, <3>2, <3>3 DEF Plain
  <2> QED
    BY <2>1, <2>2
<1> HIDE DEF name
<1>12. (Slash \o name) \o MirrorPath # ObjectPath
  BY <1>0, <1>1, <1>2, <1>3, <1>11, OneNameMore
<1>13. RodsPaths(op, uid, arg) = {(Slash \o name) \o MirrorPath}
  <2> DEFINE path == IF op \in Untranslated THEN HandlePath(op, arg) ELSE getRealPathNFS(MirrorPath, uid)
             r == getRodsPath(uid, MirrorPath)
  <2>1. path = j
    BY <1>7, Zenon
  <2>2. RodsPaths(op, uid, arg) = {getRodsPath(uid, p) \o EntryOf(op) : p \in getIRODSpathGetAttr(path, uid)}
    BY Zenon DEF RodsPaths
  <2> HIDE DEF path
  <2>3. RodsPaths(op, uid, arg) = {getRodsPath(uid, p) \o <<>> : p \in {MirrorPath}}
    BY <1>6, <1>10, <2>1, <2>2, Zenon
  <2>4. RodsPaths(op, uid, arg) = {r \o <<>>}
    BY <2>3
  <2>5. Slash \o name \in Seq(Chars)
    BY <1>11, PlainType, Letters, ConcatProperties
  <2>6. (Slash \o name) \o MirrorPath \in Seq(Chars)
    BY <1>4, <2>5, ConcatProperties
  <2>7. r = (Slash \o name) \o MirrorPath
    BY <1>a
  <2> HIDE DEF r
  <2>8. r \o <<>> = r
    BY <2>6, <2>7, ConcatEmptySeq
  <2> QED
    BY <2>4, <2>7, <2>8, Zenon
<1> QED
  BY <1>8, <1>9, <1>12, <1>13

(* Own requests meet the file and its object, others' neither.               *)
LEMMA SameFileNow ==
  ASSUME Types, Planning, Translated
  PROVE  SameFile
<1> SUFFICES ASSUME req # NoReq, req.op = "READDIR" => ~req.arg.root
             PROVE  /\ isPublic \/ req.uid = Me => OnMirror /\ OnObject
                    /\ ~isPublic /\ req.op \notin Untranslated /\ ~InPath(MirrorPath, req.uid)
                       => ~OnMirror /\ ~OnObject
  BY DEF SameFile
<1>1. /\ req.real = RealPath(req.op, req.uid, req.arg)
      /\ req.rods \in RodsPaths(req.op, req.uid, req.arg)
      /\ req.uid \in Uids /\ conf \in Configurations
  BY Working, RequestType DEF Translated, Types
<1>2. CASE isPublic \/ req.uid = Me
  <2>1. /\ RealPath(req.op, req.uid, req.arg) = MirrorPath
        /\ RodsPaths(req.op, req.uid, req.arg) = {ObjectPath}
    BY <1>1, <1>2, OwnPaths
  <2>2. OnMirror /\ OnObject
    BY <1>1, <2>1 DEF OnMirror, OnObject
  <2>4. ~isPublic /\ ~InPath(MirrorPath, req.uid) => FALSE
    <3> SUFFICES ASSUME ~isPublic, ~InPath(MirrorPath, req.uid) PROVE FALSE
      OBVIOUS
    <3>1. req.uid = Me /\ Me \in Seq(Chars) /\ conf.dir \in Seq(Chars) /\ File \in Seq(Chars)
      BY <1>1, <1>2, RodsAssumption, PlainType, Letters
    <3>2. MirrorPath = ((Slash \o Me) \o conf.dir) \o File
      BY Zenon DEF MirrorPath, DirPath
    <3>3. Slash \o Me \in Seq(Chars) /\ conf.dir \o File \in Seq(Chars)
      BY <3>1, Letters, ConcatProperties
    <3>4. MirrorPath = (Slash \o Me) \o (conf.dir \o File)
      <4> DEFINE n == Slash \o Me
      <4>1. n \in Seq(Chars) /\ conf.dir \in Seq(Chars) /\ File \in Seq(Chars)
        BY <3>1, <3>3
      <4> HIDE DEF n
      <4>2. (n \o conf.dir) \o File = n \o (conf.dir \o File)
        BY <4>1, Assoc
      <4> QED
        BY <3>2, <4>2, Zenon DEF n
    <3>5. InPath((Slash \o Me) \o (conf.dir \o File), Me)
      BY <3>1, <3>3, OwnInPath
    <3> QED
      BY <3>1, <3>4, <3>5
  <2> QED
    BY <2>2, <2>4
<1>3. CASE ~(isPublic \/ req.uid = Me)
  <2> SUFFICES ASSUME req.op \notin Untranslated, ~InPath(MirrorPath, req.uid)
               PROVE  ~OnMirror /\ ~OnObject
    BY <1>3
  <2>1. /\ RealPath(req.op, req.uid, req.arg) # MirrorPath
        /\ ObjectPath \notin RodsPaths(req.op, req.uid, req.arg)
    BY <1>1, <1>3, OtherPaths
  <2> QED
    BY <1>1, <2>1 DEF OnMirror, OnObject
<1> QED
  BY <1>2, <1>3

----------------------------------------------------------------------------
(* Modes *)

LEMMA OwnerPermission ==
  ASSUME NEW mode \in Mode, mode[1] \notin {0, 1}, mode[2] \notin {2, 3}, mode[3] \notin {2, 3}
  PROVE  permission(mode) = IF mode[1] \in {2, 3} THEN 2 ELSE IF mode[1] \in {6, 7} THEN 3 ELSE 1
<1> DEFINE granting == {i \in 1..3 : mode[i] # 0}
           first == CHOOSE i \in granting : \A j \in granting : i <= j
<1>1. mode[1] \in 0..7 /\ 1 \in granting
  BY DEF Mode, Digit
<1>2. \A i \in granting : 1 <= i /\ i \in Nat
  OBVIOUS
<1>3. first = 1
  <2> HIDE DEF granting
  <2>1. \E i \in granting : \A j \in granting : i <= j
    BY <1>1, <1>2
  <2>2. first \in granting /\ \A j \in granting : first <= j
    BY <2>1
  <2> HIDE DEF first
  <2> QED
    BY <1>1, <1>2, <2>2
<1>4. permission(mode) = IF \E i \in 1..3 : mode[i] \in {2, 3} THEN 2
                         ELSE IF granting = {} THEN 0
                         ELSE IF mode[first] \in {6, 7} THEN 3 ELSE 1
  BY DEF permission
<1>5. granting # {}
  BY <1>1
<1>6. (\E i \in 1..3 : mode[i] \in {2, 3}) <=> mode[1] \in {2, 3}
  <2>1. \A i \in 1..3 : i = 1 \/ i = 2 \/ i = 3
    OBVIOUS
  <2> QED
    BY <2>1
<1> HIDE DEF granting, first
<1> QED
  BY <1>3, <1>4, <1>5, <1>6

(* SETATTR makes a mode an access level (changeModFile) and READDIR makes the  *)
(* level a mode (fileMode, chmod).  If nothing but that lies between, reading  *)
(* and writing by the owner come back as they were, for every mode in which    *)
(* the owner may read or write and neither group nor others may write without  *)
(* reading.                                                                    *)
THEOREM ModeRoundTrip ==
  ASSUME NEW mode \in Mode, mode[1] \notin {0, 1}, mode[2] \notin {2, 3}, mode[3] \notin {2, 3}
  PROVE  \A b \in {R, W} : Bit(ModeOf(AccessLevel(mode))[1], b) <=> Bit(mode[1], b)
<1>1. mode[1] \in {2, 3, 4, 5, 6, 7}
  BY DEF Mode, Digit
<1>2. permission(mode) = IF mode[1] \in {2, 3} THEN 2 ELSE IF mode[1] \in {6, 7} THEN 3 ELSE 1
  BY OwnerPermission
<1>3. ModeOf(AccessLevel(mode))[1] = IF mode[1] \in {2, 3} THEN 2 ELSE IF mode[1] \in {6, 7} THEN 6 ELSE 4
  <2>1. CASE mode[1] \in {2, 3}
    <3>1. AccessLevel(mode) = "write"
      BY <1>2, <2>1 DEF AccessLevel
    <3>2. ModeOf("write") = <<2, 0, 0>>
      BY DEF ModeOf
    <3> QED
      BY <2>1, <3>1, <3>2
  <2>2. CASE mode[1] \in {4, 5}
    <3>1. AccessLevel(mode) = "read"
      BY <1>2, <2>2 DEF AccessLevel
    <3>2. ModeOf("read") = <<4, 0, 0>>
      BY DEF ModeOf
    <3> QED
      BY <2>2, <3>1, <3>2
  <2>3. CASE mode[1] \in {6, 7}
    <3>1. AccessLevel(mode) = "own"
      BY <1>2, <2>3 DEF AccessLevel
    <3>2. ModeOf("own") = <<6, 0, 0>>
      BY DEF ModeOf
    <3> QED
      BY <2>3, <3>1, <3>2
  <2> QED
    BY <1>1, <2>1, <2>2, <2>3
<1> DEFINE d == ModeOf(AccessLevel(mode))[1]
           e == mode[1]
<1>4. \/ e \in {2, 3} /\ d = 2
      \/ e \in {4, 5} /\ d = 4
      \/ e \in {6, 7} /\ d = 6
  BY <1>1, <1>3
<1> HIDE DEF d, e
<1>5. (Bit(d, 4) <=> Bit(e, 4)) /\ (Bit(d, 2) <=> Bit(e, 2))
  BY <1>4 DEF Bit
<1> QED
  BY <1>5 DEF d, e, R, W

----------------------------------------------------------------------------
(* The theorems *)

LEMMA Always ==
  Spec => []Inv
<1>1. Init => Inv
  BY InitInv
<1>2. Inv /\ [Next]_vars => Inv'
  BY InvStep
<1> QED
  BY <1>1, <1>2, PTL DEF Spec

(* TypeOK: a request of nfs.c always has a step left to take, no more        *)
(* connections are open than iRODS accepts, and modes, inodes, access levels *)
(* and statuses are what they can be.                                        *)
THEOREM TypeCorrect ==
  Spec => []TypeOK
<1>1. Inv => TypeOK
  <2> SUFFICES ASSUME Inv PROVE TypeOK
    OBVIOUS
  <2>1. Types /\ Planning /\ Counting
    BY DEF Inv
  <2>2. req # NoReq => req.todo # <<>> /\ req.status \in Reports
    BY <2>1, RequestType DEF Planning, Planned
  <2>3. conns \in 0..MaxConns /\ kept \in 0..MaxConns
    BY <2>1, RodsAssumption DEF Counting, ConnectionsReturned
  <2> QED
    BY <2>1, <2>2, <2>3 DEF TypeOK, Types, Objects, Files
<1> QED
  BY <1>1, Always, PTL

(* Whatever fails on the way, and though the failed login of rodscapi.c has  *)
(* closed its connection already, every procedure but READ gives its          *)
(* connection back and every READ that got in keeps one: the connections open *)
(* are those and the present request's.                                       *)
THEOREM ConnectionsBalance ==
  Spec => []ConnectionsReturned
<1>1. Inv => ConnectionsReturned
  BY DEF Inv, Counting
<1> QED
  BY <1>1, Always, PTL

(* For every export path, user, name and directory: the translations of      *)
(* getRealPathNFS, getIRODSpathGetAttr and getRodsPath lead a user's own      *)
(* requests to the followed file and to its object, and lead an ACCESS, WRITE *)
(* or SETATTR of another user to neither, unless strstr finds that user's     *)
(* directory somewhere in the path.                                           *)
THEOREM PathsMeet ==
  Spec => []SameFile
<1>1. Inv => SameFile
  BY SameFileNow DEF Inv
<1> QED
  BY <1>1, Always, PTL

(* Once ACCESS has downloaded the whole object, the file and the object stay  *)
(* equal between requests as long as pwrite and iWrite do the whole of what   *)
(* WRITE asks for, whatever the lengths and the offsets below INT_LIMIT and    *)
(* whatever breaks off or falls short before.                                 *)
THEOREM WritesAgree ==
  Spec => []DataAgree
<1>1. Inv => DataAgree
  BY DEF Inv, Agreement, HalfWritten, DataAgree
<1> QED
  BY <1>1, Always, PTL

(* What SETATTR changes through its descriptor is the object of the handle,   *)
(* though a local process may put another file in its place at any moment.    *)
THEOREM HandlesObjectOnly ==
  Spec => []OnlyHandlesObject
<1>1. Inv => OnlyHandlesObject
  BY DEF Inv, Holding
<1> QED
  BY <1>1, Always, PTL

=============================================================================
