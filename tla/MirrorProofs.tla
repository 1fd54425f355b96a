---------------------------- MODULE MirrorProofs ----------------------------
(* Proofs about Mirror, for any set of names. *)
EXTENDS Mirror, TLAPS

(* TypeOK and Coherent are inductive together; DataSurvives follows from a  *)
(* single step.                                                             *)
IInv == TypeOK /\ Coherent

ReplyType == [op : Procedures, name : Names \cup NoNames, ok : BOOLEAN]

\* What the proofs use of the objects.
LEMMA Objects ==
    /\ None \in Object /\ EmptyFile \in Object /\ FullFile \in Object
    /\ EmptyDir \in Object /\ FullDir \in Object
    /\ None.kind = "none"
    /\ EmptyFile.kind = "file" /\ FullFile.kind = "file"
    /\ EmptyDir.kind = "dir" /\ FullDir.kind = "dir"
    /\ \A o \in Object : /\ o.kind = "none" <=> o = None
                         /\ o # None => Blank(o).kind = o.kind /\ Blank(o) \in Object
BY DEF Object, None, EmptyFile, FullFile, EmptyDir, FullDir, Blank

\* Every answer is well typed.
LEMMA AnswerType ==
    ASSUME NEW op \in Procedures, NEW n \in Names \cup NoNames,
           NEW ok \in BOOLEAN, Answer(op, n, ok)
    PROVE  reply' \in ReplyType
BY Zenon DEF Answer, ReplyType

\* The parts of TypeOK.
SidesOK == local \in [Names -> Object] /\ rods \in [Names -> Object]
FlagsOK == rw \in BOOLEAN /\ fresh \in BOOLEAN /\ suspect \subseteq Names

LEMMA TypeParts ==
    /\ TypeOK <=> SidesOK /\ FlagsOK /\ reply \in ReplyType
    /\ TypeOK' <=> SidesOK' /\ FlagsOK' /\ reply' \in ReplyType
BY DEF TypeOK, SidesOK, FlagsOK, ReplyType

LEMMA InitInv == Init => IInv
<1> SUFFICES ASSUME Init PROVE IInv
    OBVIOUS
<1>1. reply \in ReplyType
    BY Zenon DEF Init, ReplyType, Procedures, NoNames
<1>2. SidesOK
    BY Objects DEF Init, SidesOK
<1>3. FlagsOK
    BY DEF Init, FlagsOK
<1>4. Coherent
    BY DEF Init, Coherent
<1> QED
    BY <1>1, <1>2, <1>3, <1>4, TypeParts DEF IInv

\* Every step answers with a well-typed reply.
LEMMA ReplyStep == Next => reply' \in ReplyType
<1> SUFFICES ASSUME Next PROVE reply' \in ReplyType
    OBVIOUS
<1> DEFINE Typed == \E op \in Procedures, n \in Names \cup NoNames, ok \in BOOLEAN :
                     Answer(op, n, ok)
<1>1. ASSUME NEW n \in Names, NEW mode, CREATE(n, mode) PROVE Typed
    BY <1>1, Zenon DEF CREATE, Procedures, NoNames
<1>2. ASSUME NEW n \in Names, MKDIR(n) PROVE Typed
    BY <1>2, Zenon DEF MKDIR, Procedures, NoNames
<1>3. ASSUME NEW n \in Names, REMOVE(n) \/ RMDIR(n) PROVE Typed
    BY <1>3, Zenon DEF REMOVE, RMDIR, Procedures, NoNames
<1>4. ASSUME NEW n \in Names, NEW to \in Names, RENAME(n, to) PROVE Typed
    BY <1>4, Zenon DEF RENAME, Procedures, NoNames
<1>5. ASSUME NEW n \in Names, ReaddirBelow(n) \/ CreateBelow(n) \/ RemoveBelow(n) PROVE Typed
    BY <1>5, Zenon DEF ReaddirBelow, CreateBelow, RemoveBelow, Procedures, NoNames
<1>6. ASSUME NEW n \in Names, ACCESS(n) \/ WRITE(n) \/ SETATTR(n) \/ Outsider(n) PROVE Typed
    BY <1>6, Zenon DEF ACCESS, WRITE, SETATTR, Outsider, Procedures, NoNames
<1>7. ASSUME PREPRefuses \/ LOOKUP \/ Reload PROVE Typed
    BY <1>7, Zenon DEF PREPRefuses, LOOKUP, Reload, Procedures, NoNames
<1>8. ASSUME READDIR \/ ReaddirAbove \/ ReaddirExits PROVE Typed
    BY <1>8, Zenon DEF READDIR, ReaddirAbove, ReaddirExits, Procedures, NoNames
<1>9. ASSUME RmdirSelf \/ StrayName PROVE Typed
    BY <1>9, Zenon DEF RmdirSelf, StrayName, Procedures, NoNames
<1>10. Typed
    <2> HIDE DEF Typed
    <2> QED
        BY <1>1, <1>2, <1>3, <1>4, <1>5, <1>6, <1>7, <1>8, <1>9, Zenon DEF Next
<1> QED
    BY <1>10, AnswerType

\* Every step keeps the flags and the set of suspects well typed.
LEMMA FlagsStep == FlagsOK /\ Next => FlagsOK'
<1> SUFFICES ASSUME FlagsOK, Next PROVE FlagsOK'
    OBVIOUS
<1> USE DEF FlagsOK, Trust
<1>1. ASSUME NEW n \in Names, NEW mode, CREATE(n, mode) PROVE FlagsOK'
    BY <1>1 DEF CREATE
<1>2. ASSUME NEW n \in Names, MKDIR(n) \/ REMOVE(n) \/ RMDIR(n) PROVE FlagsOK'
    BY <1>2 DEF MKDIR, REMOVE, RMDIR
<1>3. ASSUME NEW n \in Names, NEW to \in Names, RENAME(n, to) PROVE FlagsOK'
    BY <1>3 DEF RENAME
<1>4. ASSUME StrayName PROVE FlagsOK'
    BY <1>4 DEF StrayName
<1>5. ASSUME READDIR \/ ReaddirAbove \/ ReaddirExits PROVE FlagsOK'
    BY <1>5 DEF READDIR, ReaddirAbove, ReaddirExits, Remade, Doubtful
<1>6. ASSUME NEW n \in Names,
             \/ ReaddirBelow(n) \/ CreateBelow(n) \/ RemoveBelow(n) \/ ACCESS(n)
             \/ WRITE(n) \/ SETATTR(n) \/ Outsider(n)
      PROVE  FlagsOK'
    BY <1>6 DEF ReaddirBelow, CreateBelow, RemoveBelow, ACCESS, WRITE, SETATTR, Outsider
<1>7. ASSUME PREPRefuses \/ LOOKUP \/ Reload \/ RmdirSelf PROVE FlagsOK'
    BY <1>7 DEF PREPRefuses, LOOKUP, Reload, RmdirSelf
<1> QED
    BY <1>1, <1>2, <1>3, <1>4, <1>5, <1>6, <1>7 DEF Next

\* Every step sets names to objects.
LEMMA SidesStep == SidesOK /\ Next => SidesOK'
<1> SUFFICES ASSUME SidesOK, Next PROVE SidesOK'
    OBVIOUS
<1> USE Objects DEF SidesOK, SetLocal
<1>1. ASSUME NEW n \in Names, NEW mode, CREATE(n, mode) PROVE SidesOK'
    BY <1>1 DEF CREATE, createFile
<1>2. ASSUME NEW n \in Names, MKDIR(n) PROVE SidesOK'
    BY <1>2 DEF MKDIR, makeCollection
<1>3. ASSUME NEW n \in Names, REMOVE(n) PROVE SidesOK'
    BY <1>3 DEF REMOVE, removeObj
<1>4. ASSUME NEW n \in Names, RMDIR(n) PROVE SidesOK'
    BY <1>4 DEF RMDIR, removeCollection
<1>5. ASSUME NEW n \in Names, NEW to \in Names, RENAME(n, to) PROVE SidesOK'
    BY <1>5 DEF RENAME, renameFile, Renamed
<1>6. ASSUME StrayName PROVE SidesOK'
    BY <1>6 DEF StrayName, createFile, removeObj, removeCollection
<1>7. ASSUME READDIR PROVE SidesOK'
    BY <1>7 DEF READDIR, listCollection
<1>8. ASSUME NEW n \in Names, ReaddirBelow(n) \/ CreateBelow(n) \/ RemoveBelow(n)
      PROVE  SidesOK'
    BY <1>8 DEF ReaddirBelow, CreateBelow, RemoveBelow
<1>9. ASSUME NEW n \in Names, ACCESS(n) \/ SETATTR(n) PROVE SidesOK'
    BY <1>9 DEF ACCESS, SETATTR, getFile, set_attr, is_reg
<1>10. ASSUME NEW n \in Names, WRITE(n) PROVE SidesOK'
    BY <1>10 DEF WRITE, iWrite, is_reg
<1>11. ASSUME NEW n \in Names, Outsider(n) PROVE SidesOK'
    BY <1>11 DEF Outsider
<1>12. ASSUME PREPRefuses \/ LOOKUP \/ Reload PROVE SidesOK'
    BY <1>12 DEF PREPRefuses, LOOKUP, Reload
<1>13. ASSUME ReaddirAbove \/ ReaddirExits PROVE SidesOK'
    BY <1>13 DEF ReaddirAbove, ReaddirExits, Leftovers
<1>14. ASSUME RmdirSelf PROVE SidesOK'
    BY <1>14 DEF RmdirSelf
<1> QED
    BY <1>1, <1>2, <1>3, <1>4, <1>5, <1>6, <1>7, <1>8, <1>9, <1>10, <1>11, <1>12,
       <1>13, <1>14 DEF Next

\* Every step keeps the two sides coherent: if both halves of a procedure were
\* done the sides agree on its name, and if one half was the name becomes suspect.
LEMMA CoherentStep == SidesOK /\ Coherent /\ Next => Coherent'
<1> SUFFICES ASSUME SidesOK, Coherent, Next PROVE Coherent'
    OBVIOUS
<1> USE Objects DEF SidesOK, Coherent, SetLocal, Trust
<1>1. ASSUME NEW n \in Names, NEW mode, CREATE(n, mode) PROVE Coherent'
    BY <1>1 DEF CREATE, createFile, is_reg
<1>2. ASSUME NEW n \in Names, MKDIR(n) PROVE Coherent'
    BY <1>2 DEF MKDIR, makeCollection
<1>3. ASSUME NEW n \in Names, REMOVE(n) PROVE Coherent'
    BY <1>3 DEF REMOVE, removeObj
<1>4. ASSUME NEW n \in Names, RMDIR(n) PROVE Coherent'
    BY <1>4 DEF RMDIR, removeCollection
<1>5. ASSUME NEW n \in Names, NEW to \in Names, RENAME(n, to) PROVE Coherent'
    BY <1>5 DEF RENAME, renameFile, Renamed
<1>6. ASSUME StrayName PROVE Coherent'
    BY <1>6 DEF StrayName, createFile, removeObj, removeCollection
<1>7. ASSUME READDIR PROVE Coherent'
    BY <1>7 DEF READDIR, listCollection, Doubtful, Place
<1>8. ASSUME NEW n \in Names, ReaddirBelow(n) \/ CreateBelow(n) \/ RemoveBelow(n)
      PROVE  Coherent'
    BY <1>8 DEF ReaddirBelow, CreateBelow, RemoveBelow
<1>9. ASSUME NEW n \in Names, ACCESS(n) \/ SETATTR(n) PROVE Coherent'
    BY <1>9 DEF ACCESS, SETATTR, getFile, set_attr, is_reg
<1>10. ASSUME NEW n \in Names, WRITE(n) PROVE Coherent'
    BY <1>10 DEF WRITE, iWrite, is_reg
<1>11. ASSUME NEW n \in Names, Outsider(n) PROVE Coherent'
    BY <1>11 DEF Outsider
<1>12. ASSUME PREPRefuses \/ LOOKUP \/ Reload PROVE Coherent'
    BY <1>12 DEF PREPRefuses, LOOKUP, Reload
<1>13. ASSUME ReaddirAbove \/ ReaddirExits PROVE Coherent'
    BY <1>13 DEF ReaddirAbove, ReaddirExits, Leftovers, Doubtful
<1>14. ASSUME RmdirSelf PROVE Coherent'
    BY <1>14 DEF RmdirSelf
<1> QED
    BY <1>1, <1>2, <1>3, <1>4, <1>5, <1>6, <1>7, <1>8, <1>9, <1>10, <1>11, <1>12,
       <1>13, <1>14 DEF Next

LEMMA InvStep == IInv /\ [Next]_vars => IInv'
<1>1. CASE Next
    BY <1>1, ReplyStep, FlagsStep, SidesStep, CoherentStep, TypeParts DEF IInv
<1>2. CASE UNCHANGED vars
    BY <1>2 DEF IInv, TypeOK, Coherent, vars
<1> QED
    BY <1>1, <1>2

\* The mirror and the collection stay well typed and coherent in every
\* behaviour of the procedures of nfs.c, for any set of names.
THEOREM MirrorSafe == Spec => []IInv
<1>1. Init => IInv
    BY InitInv
<1> QED
    BY <1>1, InvStep, PTL DEF Spec

\* Type correctness of the model of nfs.c.
THEOREM TypeCorrect == Spec => []TypeOK
<1>1. IInv => TypeOK
    BY DEF IInv
<1> QED
    BY <1>1, MirrorSafe, PTL

\* The mirror and iRODS disagree about a name only after a half-done procedure on
\* it, a faulty listing or a change by another iRODS client: nothing else that
\* nfs.c does moves one side away from the other.
THEOREM DriftHasCause == Spec => []Coherent
<1>1. IInv => Coherent
    BY DEF IInv
<1> QED
    BY <1>1, MirrorSafe, PTL

\* Every step keeps the data in iRODS, but for requests to remove it and other
\* iRODS clients.
LEMMA DataStep ==
    ASSUME SidesOK, Next, NEW m \in Names
    PROVE  DataKept(m)
<1>0. /\ ~None.full /\ ~EmptyDir.full /\ ~EmptyFile.full
      /\ \A o \in Object : o.full /\ o.kind = "file" => o = FullFile
      /\ \A o \in Object : o.full /\ o.kind = "dir" => o = FullDir
    BY DEF Object, FullFile, FullDir, None, EmptyDir, EmptyFile
<1> USE <1>0, Objects DEF SidesOK, DataKept
<1>1. ASSUME NEW n \in Names, NEW mode, CREATE(n, mode) PROVE DataKept(m)
    BY <1>1 DEF CREATE, createFile
<1>2. ASSUME NEW n \in Names, MKDIR(n) PROVE DataKept(m)
    BY <1>2 DEF MKDIR, makeCollection
<1>3. ASSUME NEW n \in Names, REMOVE(n) PROVE DataKept(m)
    BY <1>3 DEF REMOVE, removeObj, Answer
<1>4. ASSUME NEW n \in Names, RMDIR(n) PROVE DataKept(m)
    BY <1>4 DEF RMDIR, removeCollection, Answer
<1>5. ASSUME NEW n \in Names, NEW to \in Names, RENAME(n, to) PROVE DataKept(m)
    BY <1>5 DEF RENAME, renameFile, Answer
<1>6. ASSUME StrayName PROVE DataKept(m)
    <2>1. PICK n \in Names, op \in {"CREATE", "REMOVE", "RMDIR"}, done \in BOOLEAN :
            /\ CASE op = "CREATE" -> createFile(n, done)
                 [] op = "REMOVE" -> removeObj(n, done)
                 [] op = "RMDIR" -> removeCollection(n, done)
            /\ Answer(op, BadName, FALSE)
        BY <1>6, Zenon DEF StrayName
    <2>2. CASE op = "CREATE"
        BY <2>1, <2>2 DEF createFile
    <2>3. CASE op = "REMOVE"
        BY <2>1, <2>3 DEF removeObj, Answer
    <2>4. CASE op = "RMDIR"
        BY <2>1, <2>4 DEF removeCollection, Answer
    <2> QED
        BY <2>1, <2>2, <2>3, <2>4
<1>7. ASSUME NEW n \in Names, WRITE(n) PROVE DataKept(m)
    BY <1>7 DEF WRITE, iWrite, is_reg
<1>8. ASSUME NEW n \in Names, CreateBelow(n) PROVE DataKept(m)
    BY <1>8 DEF CreateBelow
<1>9. ASSUME NEW n \in Names, Outsider(n) PROVE DataKept(m)
    BY <1>9 DEF Outsider, Answer
<1>10. ASSUME NEW n \in Names,
              \/ PREPRefuses \/ LOOKUP \/ Reload
              \/ READDIR \/ ReaddirAbove \/ ReaddirExits
              \/ ReaddirBelow(n) \/ ACCESS(n) \/ SETATTR(n)
       PROVE  DataKept(m)
    BY <1>10 DEF PREPRefuses, LOOKUP, Reload, READDIR, ReaddirAbove, ReaddirExits,
                 ReaddirBelow, ACCESS, SETATTR
<1>11. ASSUME NEW n \in Names, RemoveBelow(n) PROVE DataKept(m)
    BY <1>11 DEF RemoveBelow, Answer
<1>12. ASSUME RmdirSelf PROVE DataKept(m)
    BY <1>12 DEF RmdirSelf, Answer
<1> QED
    BY <1>1, <1>2, <1>3, <1>4, <1>5, <1>6, <1>7, <1>8, <1>9, <1>10, <1>11, <1>12 DEF Next

\* Among the procedures of nfs.c only requests to remove it make iRODS give up the
\* clients' data, the members of collections included.
THEOREM DataIsKept == Spec => DataSurvives
<1>1. IInv /\ [Next]_vars => [\A n \in Names : DataKept(n)]_vars
    <2> SUFFICES ASSUME IInv, Next, NEW m \in Names PROVE DataKept(m)
        OBVIOUS
    <2> QED
        BY DataStep, TypeParts DEF IInv
<1> QED
    BY <1>1, MirrorSafe, PTL DEF Spec, DataSurvives
=============================================================================
