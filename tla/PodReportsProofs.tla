-------------------------- MODULE PodReportsProofs --------------------------
(***************************************************************************)
(* Proofs about PodReports: what names are good for, whatever namespaces,  *)
(* pods and containers there are, and why a status that is put together    *)
(* from many calls still tells how the pod's processes have ended.         *)
(***************************************************************************)
EXTENDS PodReports, DataLemmas

-----------------------------------------------------------------------------
(* Names.                                                                  *)

LEMMA UnitType ==
    ASSUME NEW u \in Names!Unit
    PROVE  /\ u[1] \in Names!PodIds /\ u[2] \in Containers /\ u = <<u[1], u[2]>>
           /\ u[1][1] \in Namespaces /\ u[1][2] \in PodNames /\ u[1] = <<u[1][1], u[1][2]>>
  BY DEF Names!Unit, Names!PodIds

LEMMA PodNameType ==
    ASSUME NEW p \in PodNames
    PROVE  p \in Seq(Label) /\ Len(p) \in Nat /\ Len(p) # 0
  BY NamesAssumption

LEMMA LabelsOfSystemk == "systemk" \in Label /\ "service" \in Label
  BY DEF Label

LEMMA PrefixLabels ==
    ASSUME NEW pod \in Names!PodIds
    PROVE  /\ Names!unitPrefix(pod) \in Seq(Label)
           /\ Len(Names!unitPrefix(pod)) = Len(pod[2]) + 2
           /\ Names!unitPrefix(pod)[1] = "systemk"
           /\ Names!unitPrefix(pod)[2] = pod[1]
           /\ \A i \in 1..Len(pod[2]) : Names!unitPrefix(pod)[i + 2] = pod[2][i]
  <1> DEFINE two == <<"systemk", pod[1]>>
             q == pod[2]
  <1>1. pod[1] \in Label /\ q \in Seq(Label) /\ Len(q) \in Nat
    <2>1. pod[1] \in Namespaces /\ q \in PodNames
      BY DEF Names!PodIds
    <2> QED  BY <2>1, PodNameType DEF Label
  <1>2. two \in Seq(Label) /\ Len(two) = 2 /\ two[1] = "systemk" /\ two[2] = pod[1]
    BY <1>1, LabelsOfSystemk
  <1>3. Names!unitPrefix(pod) = two \o q
    BY DEF Names!unitPrefix
  <1> HIDE DEF two, q
  <1>4. /\ two \o q \in Seq(Label) /\ Len(two \o q) = 2 + Len(q)
        /\ \A i \in 1..(2 + Len(q)) : (two \o q)[i] = IF i <= 2 THEN two[i] ELSE q[i - 2]
    <2>1. /\ two \o q \in Seq(Label) /\ Len(two \o q) = Len(two) + Len(q)
          /\ \A i \in 1..(Len(two) + Len(q)) :
                (two \o q)[i] = IF i <= Len(two) THEN two[i] ELSE q[i - Len(two)]
      BY <1>1, <1>2, ConcatProperties
    <2> QED  BY <1>2, <2>1
  <1>5. \A i \in 1..Len(q) : (two \o q)[i + 2] = q[i]
    <2> SUFFICES ASSUME NEW i \in 1..Len(q)  PROVE (two \o q)[i + 2] = q[i]
      OBVIOUS
    <2>1. i + 2 \in 1..(2 + Len(q)) /\ ~(i + 2 <= 2) /\ (i + 2) - 2 = i
      BY <1>1
    <2> QED  BY <1>4, <2>1
  <1>6. (two \o q)[1] = "systemk" /\ (two \o q)[2] = pod[1] /\ Len(two \o q) = Len(q) + 2
    BY <1>1, <1>2, <1>4
  <1> QED  BY <1>3, <1>4, <1>5, <1>6 DEF q

\* The labels of the name of a unit.
LEMMA NameLabels ==
    ASSUME NEW u \in Names!Unit
    PROVE  /\ Names!NameOf(u) \in Seq(Label)
           /\ Len(Names!NameOf(u)) = Len(u[1][2]) + 4
           /\ Names!NameOf(u)[1] = "systemk"
           /\ Names!NameOf(u)[2] = u[1][1]
           /\ \A i \in 1..Len(u[1][2]) : Names!NameOf(u)[i + 2] = u[1][2][i]
           /\ Names!NameOf(u)[Len(u[1][2]) + 3] = u[2]
           /\ Names!NameOf(u)[Len(u[1][2]) + 4] = "service"
  <1> DEFINE p == Names!unitPrefix(u[1])
             two == <<u[2], "service">>
             q == u[1][2]
  <1>1. /\ p \in Seq(Label) /\ Len(p) = Len(q) + 2 /\ p[1] = "systemk" /\ p[2] = u[1][1]
        /\ \A i \in 1..Len(q) : p[i + 2] = q[i]
    BY UnitType, PrefixLabels
  <1>2. u[2] \in Label /\ Len(q) \in Nat
    BY UnitType, PodNameType DEF Label
  <1>3. two \in Seq(Label) /\ Len(two) = 2 /\ two[1] = u[2] /\ two[2] = "service"
    BY <1>2, LabelsOfSystemk
  <1>4. Names!NameOf(u) = p \o two
    BY DEF Names!NameOf, Names!podToUnitName
  <1> HIDE DEF p, two, q
  <1>5. /\ p \o two \in Seq(Label) /\ Len(p \o two) = Len(q) + 4
        /\ \A i \in 1..(Len(q) + 4) :
              (p \o two)[i] = IF i <= Len(q) + 2 THEN p[i] ELSE two[i - (Len(q) + 2)]
    <2>1. /\ p \o two \in Seq(Label) /\ Len(p \o two) = Len(p) + Len(two)
          /\ \A i \in 1..(Len(p) + Len(two)) :
                (p \o two)[i] = IF i <= Len(p) THEN p[i] ELSE two[i - Len(p)]
      BY <1>1, <1>3, ConcatProperties
    <2>2. Len(p) + Len(two) = Len(q) + 4
      BY <1>1, <1>2, <1>3
    <2> QED  BY <1>1, <2>1, <2>2
  <1>6. \A i \in 1..Len(q) : (p \o two)[i + 2] = q[i]
    <2> SUFFICES ASSUME NEW i \in 1..Len(q)  PROVE (p \o two)[i + 2] = q[i]
      OBVIOUS
    <2>1. i + 2 \in 1..(Len(q) + 4) /\ i + 2 <= Len(q) + 2
      BY <1>2
    <2>2. (p \o two)[i + 2] = p[i + 2]
      BY <1>5, <2>1
    <2> QED  BY <1>1, <2>2
  <1>7. (p \o two)[1] = "systemk" /\ (p \o two)[2] = u[1][1]
    <2>1. 1 \in 1..(Len(q) + 4) /\ 1 <= Len(q) + 2 /\ 2 \in 1..(Len(q) + 4) /\ 2 <= Len(q) + 2
      BY <1>2
    <2> QED  BY <1>1, <1>5, <2>1
  <1>8. (p \o two)[Len(q) + 3] = u[2] /\ (p \o two)[Len(q) + 4] = "service"
    <2>1. /\ Len(q) + 3 \in 1..(Len(q) + 4) /\ ~(Len(q) + 3 <= Len(q) + 2)
          /\ (Len(q) + 3) - (Len(q) + 2) = 1
          /\ Len(q) + 4 \in 1..(Len(q) + 4) /\ ~(Len(q) + 4 <= Len(q) + 2)
          /\ (Len(q) + 4) - (Len(q) + 2) = 2
      BY <1>2
    <2> QED  BY <1>3, <1>5, <2>1
  <1> QED  BY <1>4, <1>5, <1>6, <1>7, <1>8 DEF q

\* A prefix, label by label.
LEMMA PrefixIsPointwise ==
    ASSUME NEW s \in Seq(Label), NEW t \in Seq(Label)
    PROVE  Names!HasPrefix(s, t) <=>
              /\ Len(s) <= Len(t) /\ s # t
              /\ \A i \in 1..Len(s) : s[i] = t[i]
  <1>1. Len(s) <= Len(t) =>
          (SubSeq(s, 1, Len(s)) = SubSeq(t, 1, Len(s)) <=> \A i \in 1..Len(s) : s[i] = t[i])
    <2> SUFFICES ASSUME Len(s) <= Len(t)
                 PROVE  SubSeq(s, 1, Len(s)) = SubSeq(t, 1, Len(s)) <=> \A i \in 1..Len(s) : s[i] = t[i]
      OBVIOUS
    <2>1. /\ SubSeq(s, 1, Len(s)) \in Seq(Label) /\ SubSeq(t, 1, Len(s)) \in Seq(Label)
          /\ Len(SubSeq(s, 1, Len(s))) = Len(s) /\ Len(SubSeq(t, 1, Len(s))) = Len(s)
          /\ \A i \in 1..Len(s) : SubSeq(s, 1, Len(s))[i] = s[i] /\ SubSeq(t, 1, Len(s))[i] = t[i]
      OBVIOUS
    <2>2. (\A i \in 1..Len(s) : s[i] = t[i]) => SubSeq(s, 1, Len(s)) = SubSeq(t, 1, Len(s))
      BY <2>1, SeqEqual
    <2> QED  BY <2>1, <2>2
  <1> QED  BY <1>1 DEF Names!HasPrefix, Names!IsStrictPrefix, Names!IsPrefix

\* Names are equal only of the same pod and container.
LEMMA NamesDiffer ==
    ASSUME NEW u \in Names!Unit, NEW v \in Names!Unit, Names!NameOf(u) = Names!NameOf(v)
    PROVE  u = v
  <1>1. /\ u[1][2] \in Seq(Label) /\ v[1][2] \in Seq(Label)
        /\ Len(u[1][2]) \in Nat /\ Len(v[1][2]) \in Nat
    BY UnitType, PodNameType
  <1>2. Len(u[1][2]) = Len(v[1][2])
    BY <1>1, NameLabels
  <1>3. u[1][1] = v[1][1]
    BY NameLabels
  <1>4. u[2] = v[2]
    BY <1>2, NameLabels
  <1>5. u[1][2] = v[1][2]
    <2>1. ASSUME NEW i \in 1..Len(u[1][2])  PROVE u[1][2][i] = v[1][2][i]
      <3>1. Names!NameOf(u)[i + 2] = u[1][2][i]
        BY NameLabels
      <3>2. Names!NameOf(v)[i + 2] = v[1][2][i]
        BY <1>2, NameLabels
      <3> QED  BY <3>1, <3>2
    <2> QED  BY <1>1, <1>2, <2>1, SeqEqual
  <1> QED  BY <1>3, <1>4, <1>5, UnitType

\* No name of a pod continues the name of another one.
NamesApart == \A p, q \in PodNames : ~Names!IsStrictPrefix(p, q)

\* A prefix is of the names of the pod's own units.
LEMMA PrefixIsOfOwn ==
    ASSUME NEW u \in Names!Unit
    PROVE  Names!HasPrefix(Names!unitPrefix(u[1]), Names!NameOf(u))
  <1> DEFINE s == Names!unitPrefix(u[1])
             t == Names!NameOf(u)
             q == u[1][2]
  <1>1. /\ s \in Seq(Label) /\ Len(s) = Len(q) + 2 /\ s[1] = "systemk" /\ s[2] = u[1][1]
        /\ \A i \in 1..Len(q) : s[i + 2] = q[i]
    BY UnitType, PrefixLabels
  <1>2. /\ t \in Seq(Label) /\ Len(t) = Len(q) + 4 /\ t[1] = "systemk" /\ t[2] = u[1][1]
        /\ \A i \in 1..Len(q) : t[i + 2] = q[i]
    BY NameLabels
  <1>3. Len(q) \in Nat
    BY UnitType, PodNameType
  <1> HIDE DEF s, t, q
  <1>4. Len(s) <= Len(t) /\ s # t
    BY <1>1, <1>2, <1>3
  <1>5. ASSUME NEW i \in 1..Len(s)  PROVE s[i] = t[i]
    <2>1. CASE i = 1 \/ i = 2
      BY <1>1, <1>2, <2>1
    <2>2. CASE i # 1 /\ i # 2
      <3>1. i - 2 \in 1..Len(q) /\ (i - 2) + 2 = i
        BY <1>1, <1>3, <2>2
      <3> QED  BY <1>1, <1>2, <3>1
    <2> QED  BY <2>1, <2>2
  <1> QED  BY <1>1, <1>2, <1>4, <1>5, PrefixIsPointwise DEF s, t

\* And of no others if no name continues another.
LEMMA PrefixIsOfNoOther ==
    ASSUME NamesApart, NEW u \in Names!Unit, NEW pod \in Names!PodIds,
           Names!HasPrefix(Names!unitPrefix(pod), Names!NameOf(u))
    PROVE  u[1] = pod
  <1> DEFINE s == Names!unitPrefix(pod)
             t == Names!NameOf(u)
             p == pod[2]
             q == u[1][2]
  <1>0. /\ p \in PodNames /\ q \in PodNames /\ p \in Seq(Label) /\ q \in Seq(Label)
        /\ Len(p) \in Nat /\ Len(q) \in Nat
        /\ u[1] \in Names!PodIds /\ pod = <<pod[1], p>> /\ u[1] = <<u[1][1], q>>
    BY UnitType, PodNameType DEF Names!PodIds
  <1>1. /\ s \in Seq(Label) /\ Len(s) = Len(p) + 2 /\ s[1] = "systemk" /\ s[2] = pod[1]
        /\ \A i \in 1..Len(p) : s[i + 2] = p[i]
    BY PrefixLabels
  <1>2. /\ t \in Seq(Label) /\ Len(t) = Len(q) + 4 /\ t[1] = "systemk" /\ t[2] = u[1][1]
        /\ \A i \in 1..Len(q) : t[i + 2] = q[i]
    BY NameLabels
  <1>3. Len(s) <= Len(t) /\ \A i \in 1..Len(s) : s[i] = t[i]
    BY <1>1, <1>2, PrefixIsPointwise
  <1>4. pod[1] = u[1][1]
    <2>1. 2 \in 1..Len(s)
      BY <1>0, <1>1
    <2> QED  BY <1>1, <1>2, <1>3, <2>1
  <1>5. \A i \in Nat : 1 <= i /\ i <= Len(p) /\ i <= Len(q) => p[i] = q[i]
    <2> SUFFICES ASSUME NEW i \in Nat, 1 <= i, i <= Len(p), i <= Len(q)  PROVE p[i] = q[i]
      OBVIOUS
    <2>1. i \in 1..Len(p) /\ i \in 1..Len(q) /\ i + 2 \in 1..Len(s)
      BY <1>0, <1>1
    <2>2. s[i + 2] = p[i] /\ t[i + 2] = q[i] /\ s[i + 2] = t[i + 2]
      BY <1>1, <1>2, <1>3, <2>1
    <2> QED  BY <2>2
  <1>6. p = q
    <2>1. CASE Len(p) = Len(q)
      <3>1. \A i \in 1..Len(p) : p[i] = q[i]
        BY <1>0, <1>5, <2>1
      <3> QED  BY <1>0, <2>1, <3>1, SeqEqual
    <2>2. CASE Len(p) < Len(q)
      <3>1. Len(p) <= Len(q) /\ p # q /\ \A i \in 1..Len(p) : p[i] = q[i]
        BY <1>0, <1>5, <2>2
      <3>2. Names!HasPrefix(p, q)
        BY <1>0, <3>1, PrefixIsPointwise
      <3> QED  BY <1>0, <3>2 DEF Names!HasPrefix, NamesApart
    <2>3. CASE Len(q) < Len(p)
      <3>1. Len(q) <= Len(p) /\ q # p /\ \A i \in 1..Len(q) : q[i] = p[i]
        BY <1>0, <1>5, <2>3
      <3>2. Names!HasPrefix(q, p)
        BY <1>0, <3>1, PrefixIsPointwise
      <3> QED  BY <1>0, <3>2 DEF Names!HasPrefix, NamesApart
    <2> QED  BY <1>0, <2>1, <2>2, <2>3
  <1> QED  BY <1>0, <1>4, <1>6

-----------------------------------------------------------------------------
(* What systemd lists.                                                     *)

LoadedInv == loaded \subseteq Names!Unit

LEMMA LoadedStep == LoadedInv /\ [Next]_allVars => LoadedInv'
  BY DEF LoadedInv, Next, LoadUnit, UnloadUnit, GetPod, SystemdStep, ReportUnit, allVars,
         Names!Load, Names!Unload

LEMMA LoadedIsUnits == Spec => []LoadedInv
  <1>1. InitAll => LoadedInv
    BY DEF InitAll, Names!Init, LoadedInv
  <1> QED  BY <1>1, LoadedStep, PTL DEF Spec

\* podToUnitName: two containers never have one unit, so that no unit file is written
\* over another, for names of pods with dots too.
THEOREM UnitsAreDistinct == Spec => []NamesDistinct
  <1>1. LoadedInv => NamesDistinct
    BY NamesDiffer DEF LoadedInv, NamesDistinct, Names!NamesDistinct
  <1> QED  BY <1>1, LoadedIsUnits, PTL

\* GetPod: the units with the pod's prefix are those of the pod, if no name of a pod
\* continues that of another.
THEOREM PrefixFindsItsUnits == ASSUME NamesApart PROVE Spec => []GetPodSeesItsUnits
  <1>1. ASSUME LoadedInv  PROVE GetPodSeesItsUnits
    <2> SUFFICES ASSUME NEW pod \in Names!PodIds
                 PROVE  Names!States(Names!unitPrefix(pod)) =
                          {Names!NameOf(u) : u \in {v \in loaded : v[1] = pod}}
      BY DEF GetPodSeesItsUnits, Names!GetPodSeesItsUnits
    <2>1. ASSUME NEW u \in loaded
          PROVE  Names!HasPrefix(Names!unitPrefix(pod), Names!NameOf(u)) <=> u[1] = pod
      BY <1>1, PrefixIsOfOwn, PrefixIsOfNoOther DEF LoadedInv
    <2> QED  BY <2>1 DEF Names!States
  <1> QED  BY <1>1, LoadedIsUnits, PTL

\* Of the name of a pod without dots the labels are where GetPods and GetPod take
\* them from.
LEMMA PlainName ==
    ASSUME NEW u \in Names!Unit, Len(u[1][2]) = 1
    PROVE  /\ <<Names!Namespace(Names!NameOf(u)), <<Names!Pod(Names!NameOf(u))>>>> = u[1]
           /\ Names!Container(Names!NameOf(u)) = u[2]
  <1> DEFINE t == Names!NameOf(u)
             q == u[1][2]
  <1>1. /\ Len(q) = 1 /\ q \in Seq(Label) /\ u[1] = <<u[1][1], q>>
    BY UnitType, PodNameType
  <1>2. t[2] = u[1][1] /\ t[3] = q[1] /\ t[4] = u[2]
    <2>1. /\ \A i \in 1..Len(q) : t[i + 2] = q[i]
          /\ t[Len(q) + 3] = u[2] /\ t[2] = u[1][1]
      BY NameLabels
    <2> HIDE DEF t, q
    <2>2. t[1 + 2] = q[1] /\ t[1 + 3] = u[2]
      BY <1>1, <2>1
    <2> QED  BY <2>1, <2>2
  <1>3. <<q[1]>> = q
    <2> HIDE DEF q
    <2>1. q[1] \in Label /\ <<q[1]>> \in Seq(Label) /\ Len(<<q[1]>>) = 1 /\ <<q[1]>>[1] = q[1]
      BY <1>1
    <2> QED  BY <1>1, <2>1, SeqEqual
  <1> QED  BY <1>1, <1>2, <1>3 DEF Names!Namespace, Names!Pod, Names!Container

LEMMA AllAreSystemks ==
    ASSUME LoadedInv
    PROVE  Names!States(<<"systemk">>) = {Names!NameOf(u) : u \in loaded}
  <1> SUFFICES ASSUME NEW u \in loaded  PROVE Names!HasPrefix(<<"systemk">>, Names!NameOf(u))
    BY DEF Names!States
  <1>1. u \in Names!Unit /\ Len(u[1][2]) \in Nat
    BY UnitType, PodNameType DEF LoadedInv
  <1>2. /\ Names!NameOf(u) \in Seq(Label) /\ Len(Names!NameOf(u)) = Len(u[1][2]) + 4
        /\ Names!NameOf(u)[1] = "systemk"
    BY <1>1, NameLabels
  <1> DEFINE s == <<"systemk">>
             t == Names!NameOf(u)
  <1>3. s \in Seq(Label) /\ Len(s) = 1 /\ s[1] = "systemk"
    BY LabelsOfSystemk
  <1> HIDE DEF s, t
  <1>4. Len(s) <= Len(t) /\ s # t
    <2>1. Len(t) = Len(u[1][2]) + 4 /\ Len(u[1][2]) \in Nat /\ Len(s) = 1
      BY <1>1, <1>2, <1>3 DEF t
    <2>2. Len(s) <= Len(t) /\ Len(s) # Len(t)
      BY <2>1
    <2> QED  BY <2>2
  <1>5. \A i \in 1..Len(s) : s[i] = t[i]
    BY <1>2, <1>3 DEF t
  <1>6. Names!HasPrefix(s, t)
    BY <1>2, <1>3, <1>4, <1>5, PrefixIsPointwise DEF t
  <1> QED  BY <1>6 DEF s, t

\* GetPods: it asks for every pod that has units and a name without dots, for no
\* other if there are no dots at all, and containers get their own names back.
THEOREM PlainNamesParse == Spec => []NamesParse
  <1>1. ASSUME LoadedInv  PROVE NamesParse
    <2> DEFINE plain == {u \in loaded : Len(u[1][2]) = 1}
               pods == {u[1] : u \in plain}
    <2>1. Names!Asked = {<<Names!Namespace(Names!NameOf(u)), <<Names!Pod(Names!NameOf(u))>>>> : u \in loaded}
      BY <1>1, AllAreSystemks DEF Names!Asked
    <2>2. \A u \in plain :
             /\ <<Names!Namespace(Names!NameOf(u)), <<Names!Pod(Names!NameOf(u))>>>> = u[1]
             /\ Names!Container(Names!NameOf(u)) = u[2]
      BY <1>1, PlainName DEF LoadedInv
    <2>3. pods \subseteq Names!Asked
      BY <2>1, <2>2
    <2>4. plain = loaded => Names!Asked = pods
      BY <2>1, <2>2
    <2> QED  BY <2>2, <2>3, <2>4 DEF NamesParse, Names!NamesParse
  <1> QED  BY <1>1, LoadedIsUnits, PTL

-----------------------------------------------------------------------------
(* The status of a pod.                                                    *)

\* The name of the pod that is asked for has no dot, and no name continues another:
\* the units listed then bear the names of containers.
MineIsPlain == NamesApart /\ Len(Mine[2]) = 1

LEMMA ListedAreContainers ==
    ASSUME MineIsPlain, LoadedInv
    PROVE  {Names!Container(n) : n \in Names!States(Names!unitPrefix(Mine))} \subseteq Containers
  <1> SUFFICES ASSUME NEW u \in loaded, Names!HasPrefix(Names!unitPrefix(Mine), Names!NameOf(u))
               PROVE  Names!Container(Names!NameOf(u)) \in Containers
    BY DEF Names!States
  <1>1. u \in Names!Unit /\ u[1] = Mine
    BY MineAssumption, PrefixIsOfNoOther DEF LoadedInv, MineIsPlain
  <1> QED  BY <1>1, PlainName, UnitType DEF MineIsPlain

LEMMA SystemdType ==
    ASSUME TypeOK, NEW c \in Containers, Systemd(c) \/ Forget(c)
    PROVE  TypeOK'
  <1> USE DEF TypeOK, readerVars
  <1>1. ASSUME NEW s \in SubStates, Begin(c, s)  PROVE TypeOK'
    BY <1>1, ExitCodesAssumption DEF Begin
  <1>2. ASSUME NEW s \in SubStates, NEW x \in ExitCodes, End(c, s, x)  PROVE TypeOK'
    BY <1>2 DEF End
  <1>3. ASSUME NEW s \in SubStates, Become(c, s)  PROVE TypeOK'
    BY <1>3 DEF Become
  <1> USE DEF SubStates
  <1>4. CASE Forget(c)
    BY <1>4, ExitCodesAssumption DEF Forget
  <1>5. CASE StartJob(c) \/ AutoRestart(c)
    BY <1>1, <1>5 DEF StartJob, AutoRestart
  <1>6. CASE StartupOver(c) \/ StopJob(c) \/ LastProcessGone(c) \/ ResetFailed(c)
    BY <1>3, <1>6 DEF StartupOver, StopJob, LastProcessGone, ResetFailed
  <1>7. CASE ProcessExits(c)
    BY <1>2, <1>7 DEF ProcessExits
  <1>8. CASE StopJobEnds(c)
    BY <1>2, <1>8 DEF StopJobEnds
  <1> QED  BY <1>4, <1>5, <1>6, <1>7, <1>8 DEF Systemd

States == {Waiting, Running, Unhandled} \cup [kind : {"terminated"}, code : ExitCodes]

LEMMA AnswerType ==
    ASSUME TypeOK, NEW c \in Containers, NEW state \in States,
           NEW how \in {"done", "guessed"}, Answer(c, state, how)
    PROVE  TypeOK'
  BY DEF TypeOK, States, Answer, systemdVars

LEMMA ReaderType ==
    ASSUME TypeOK, NEW c \in Containers, ContainerState(c)
    PROVE  TypeOK'
  <1>1. /\ {Waiting, Running, Unhandled} \subseteq States
        /\ Terminated(code[c]) \in States /\ Terminated(0) \in States
    BY ExitCodesAssumption DEF States, TypeOK, Terminated
  <1>2. ASSUME CodeIsRead(c) \/ CodeIsGuessed(c) \/ StampIsGuessed(c)  PROVE TypeOK'
    BY <1>1, <1>2, AnswerType DEF CodeIsRead, CodeIsGuessed, StampIsGuessed
  <1>3. CASE StateOfEnded(c) \/ CodeOfDead(c)
    BY <1>2, <1>3 DEF StateOfEnded, CodeOfDead
  <1>4. CASE StateOfLive(c)
    BY <1>1, <1>4, AnswerType DEF StateOfLive
  <1>5. CASE StateOfDead(c)
    <2>1. CASE stamp[c] /\ read' = [read EXCEPT ![c] = "stamped"]
               /\ UNCHANGED <<systemdVars, snap, listed, report, started>>
      BY <2>1 DEF TypeOK, systemdVars
    <2>2. CASE Answer(c, Waiting, "done")
      BY <1>1, <2>2, AnswerType
    <2> QED  BY <1>2, <1>5, <2>1, <2>2 DEF StateOfDead
  <1> QED  BY <1>3, <1>4, <1>5 DEF ContainerState

LEMMA StatusTypeStep ==
    ASSUME MineIsPlain, TypeOK, LoadedInv, [Next]_allVars
    PROVE  TypeOK'
  <1>1. ASSUME NEW u \in Names!Unit, LoadUnit(u) \/ UnloadUnit(u)  PROVE TypeOK'
    <2>1. u[2] \in Containers
      BY UnitType
    <2>2. CASE UNCHANGED vars
      BY <2>2 DEF TypeOK, vars, systemdVars, readerVars
    <2>3. CASE Forget(u[2])
      BY <2>1, <2>3, SystemdType
    <2> QED  BY <1>1, <2>2, <2>3 DEF LoadUnit, UnloadUnit
  <1>2. CASE GetPod
    <2>1. listed' \subseteq Containers
      BY <1>2, ListedAreContainers DEF GetPod, ListUnits
    <2> QED  BY <1>2, <2>1 DEF GetPod, ListUnits, TypeOK, systemdVars
  <1>3. ASSUME NEW c \in Containers, SystemdStep(c) \/ ReportUnit(c)  PROVE TypeOK'
    BY <1>3, SystemdType, ReaderType DEF SystemdStep, ReportUnit
  <1>4. CASE UNCHANGED allVars
    BY <1>4 DEF TypeOK, allVars, vars, systemdVars, readerVars
  <1> QED  BY <1>1, <1>2, <1>3, <1>4 DEF Next

\* A process has ended, or had before its unit was started again or forgotten.
Ended(c) == stamp[c] \/ c \in started

\* A unit is over only after its process; and what was seen of it stays true of it,
\* or the unit is started again.
EndedInv ==
    \A c \in Containers :
        /\ sub[c] \in {"exited", "failed", "final-sigterm"} => stamp[c]
        /\ snap[c] \in {"exited", "failed"} => Ended(c)
        /\ read[c] = "stamped" => Ended(c)
        /\ report[c].kind = "terminated" => Ended(c) \/ snap[c] = "stop-sigterm"

LEMMA SystemdEnded ==
    ASSUME TypeOK, EndedInv, NEW c \in Containers, Systemd(c) \/ Forget(c)
    PROVE  EndedInv'
  <1> SUFFICES ASSUME NEW d \in Containers
               PROVE  /\ sub'[d] \in {"exited", "failed", "final-sigterm"} => stamp'[d]
                      /\ Ended(d) => Ended(d)'
                      /\ UNCHANGED readerVars
    BY DEF EndedInv, readerVars
  <1>0. /\ sub \in [Containers -> SubStates] /\ stamp \in [Containers -> BOOLEAN]
        /\ sub[d] \in {"exited", "failed", "final-sigterm"} => stamp[d]
        /\ sub[c] \in {"exited", "failed", "final-sigterm"} => stamp[c]
    BY DEF TypeOK, EndedInv
  <1> DEFINE Goal == /\ sub'[d] \in {"exited", "failed", "final-sigterm"} => stamp'[d]
                     /\ Ended(d) => Ended(d)'
                     /\ UNCHANGED readerVars
  <1>1. ASSUME NEW s, s \notin {"exited", "failed", "final-sigterm"}, Begin(c, s)  PROVE Goal
    BY <1>0, <1>1 DEF Begin, Ended
  <1>2. ASSUME NEW s, NEW x, End(c, s, x)  PROVE Goal
    BY <1>0, <1>2 DEF End, Ended
  <1>3. ASSUME NEW s, s \in {"exited", "failed", "final-sigterm"} => stamp[c], Become(c, s)
        PROVE  Goal
    BY <1>0, <1>3 DEF Become, Ended
  <1>4. ASSUME Forget(c)  PROVE Goal
    BY <1>0, <1>4 DEF Forget, Ended
  <1> HIDE DEF Goal
  <1>5. ASSUME StartJob(c) \/ AutoRestart(c)  PROVE Goal
    BY <1>1, <1>5 DEF StartJob, AutoRestart
  <1>6. ASSUME StartupOver(c) \/ StopJob(c) \/ LastProcessGone(c) \/ ResetFailed(c)  PROVE Goal
    BY <1>0, <1>3, <1>6 DEF StartupOver, StopJob, LastProcessGone, ResetFailed
  <1>7. ASSUME ProcessExits(c)  PROVE Goal
    BY <1>2, <1>7 DEF ProcessExits
  <1>8. ASSUME StopJobEnds(c)  PROVE Goal
    BY <1>2, <1>8 DEF StopJobEnds
  <1>9. Goal
    BY <1>4, <1>5, <1>6, <1>7, <1>8 DEF Systemd
  <1> QED  BY <1>9 DEF Goal

LEMMA ReaderEnded ==
    ASSUME TypeOK, EndedInv, NEW c \in Containers, ContainerState(c)
    PROVE  EndedInv'
  <1> SUFFICES ASSUME NEW d \in Containers
               PROVE  /\ read'[d] = "stamped" => Ended(d)
                      /\ report'[d].kind = "terminated" => Ended(d) \/ snap[d] = "stop-sigterm"
                      /\ UNCHANGED <<sub, stamp, snap, started>>
    BY DEF EndedInv, Ended
  <1>0. /\ read \in [Containers -> {"no", "stamped", "done", "guessed"}]
        /\ report \in [Containers -> States]
        /\ snap[d] \in {"exited", "failed"} => Ended(d)
        /\ read[d] = "stamped" => Ended(d)
        /\ report[d].kind = "terminated" => Ended(d) \/ snap[d] = "stop-sigterm"
        /\ Waiting.kind = "waiting" /\ Running.kind = "running" /\ Unhandled.kind = "unhandled"
    BY DEF TypeOK, EndedInv, States, Waiting, Running, Unhandled
  <1> DEFINE Goal == /\ read'[d] = "stamped" => Ended(d)
                     /\ report'[d].kind = "terminated" => Ended(d) \/ snap[d] = "stop-sigterm"
                     /\ UNCHANGED <<sub, stamp, snap, started>>
  <1>1. ASSUME NEW state, NEW how \in {"done", "guessed"}, Answer(c, state, how),
               state.kind = "terminated" => Ended(c) \/ snap[c] = "stop-sigterm"
        PROVE  Goal
    <2>1. /\ read'[d] = IF d = c THEN how ELSE read[d]
          /\ report'[d] = IF d = c THEN state ELSE report[d]
          /\ UNCHANGED <<sub, stamp, snap, started>>
      BY <1>0, <1>1 DEF Answer, systemdVars
    <2> QED  BY <1>0, <1>1, <2>1
  <1> HIDE DEF Goal
  <1>2. ASSUME CodeIsRead(c) \/ CodeIsGuessed(c), Ended(c) \/ snap[c] = "stop-sigterm"  PROVE Goal
    BY <1>1, <1>2 DEF CodeIsRead, CodeIsGuessed
  <1>3. ASSUME StateOfEnded(c) \/ CodeOfDead(c)  PROVE Goal
    BY <1>2, <1>3 DEF StateOfEnded, CodeOfDead, EndedInv
  <1>4. ASSUME StateOfLive(c)  PROVE Goal
    BY <1>0, <1>1, <1>4 DEF StateOfLive
  <1>5. ASSUME StateOfDead(c)  PROVE Goal
    <2>1. CASE stamp[c] /\ read' = [read EXCEPT ![c] = "stamped"]
               /\ UNCHANGED <<systemdVars, snap, listed, report, started>>
      <3>1. /\ read'[d] = IF d = c THEN "stamped" ELSE read[d]
            /\ UNCHANGED <<sub, stamp, snap, started, report>>
        BY <1>0, <2>1 DEF systemdVars
      <3> QED  BY <1>0, <2>1, <3>1 DEF Ended, Goal
    <2>2. ASSUME NEW how \in {"done", "guessed"}, Answer(c, Waiting, how)  PROVE Goal
      BY <1>0, <1>1, <2>2
    <2> QED  BY <1>5, <2>1, <2>2 DEF StateOfDead, StampIsGuessed
  <1>6. Goal
    BY <1>3, <1>4, <1>5 DEF ContainerState
  <1> QED  BY <1>6 DEF Goal

LEMMA EndedStep ==
    ASSUME TypeOK, EndedInv, [Next]_allVars
    PROVE  EndedInv'
  <1>1. ASSUME NEW u \in Names!Unit, LoadUnit(u) \/ UnloadUnit(u)  PROVE EndedInv'
    <2>1. u[2] \in Containers
      BY UnitType
    <2>2. CASE UNCHANGED vars
      BY <2>2 DEF EndedInv, Ended, vars, systemdVars, readerVars
    <2>3. CASE Forget(u[2])
      BY <2>1, <2>3, SystemdEnded
    <2> QED  BY <1>1, <2>2, <2>3 DEF LoadUnit, UnloadUnit
  <1>2. CASE GetPod
    <2>1. /\ UNCHANGED <<sub, stamp>> /\ snap' = sub
          /\ read' = [c \in Containers |-> "no"] /\ report' = [c \in Containers |-> Waiting]
      BY <1>2 DEF GetPod, ListUnits, systemdVars
    <2> QED  BY <2>1 DEF EndedInv, Ended, Waiting
  <1>3. ASSUME NEW c \in Containers, SystemdStep(c) \/ ReportUnit(c)  PROVE EndedInv'
    BY <1>3, SystemdEnded, ReaderEnded DEF SystemdStep, ReportUnit
  <1>4. CASE UNCHANGED allVars
    BY <1>4 DEF EndedInv, Ended, allVars, vars, systemdVars, readerVars
  <1> QED  BY <1>1, <1>2, <1>3, <1>4 DEF Next

LEMMA StatusInit == InitAll => TypeOK /\ EndedInv
  BY ExitCodesAssumption DEF InitAll, Init, TypeOK, EndedInv, SubStates, Waiting

LEMMA StatusInvariant == ASSUME MineIsPlain PROVE Spec => [](TypeOK /\ EndedInv)
  <1>1. TypeOK /\ EndedInv /\ LoadedInv /\ [Next]_allVars => (TypeOK /\ EndedInv)'
    BY StatusTypeStep, EndedStep
  <1> QED  BY <1>1, StatusInit, LoadedIsUnits, PTL DEF Spec

\* The status of a pod without dots in its name is about its containers only.
THEOREM TypesAreOK == ASSUME MineIsPlain PROVE Spec => []TypesOK
  <1>1. TypeOK /\ LoadedInv => TypesOK
    BY DEF TypesOK, LoadedInv
  <1> QED  BY <1>1, StatusInvariant, LoadedIsUnits, PTL

\* toPhase: a pod is called Succeeded only if the process of each container listed has
\* ended, or is being stopped, however systemd goes on between one D-Bus call and the next.
THEOREM SucceededHasEnded == ASSUME MineIsPlain PROVE Spec => []SucceededMeansEnded
  <1>1. ASSUME TypeOK, EndedInv  PROVE SucceededMeansEnded
    <2> SUFFICES ASSUME toPhase = "Succeeded", NEW c \in listed
                 PROVE  stamp[c] \/ c \in started \/ snap[c] = "stop-sigterm"
      BY DEF SucceededMeansEnded
    <2>1. OfKind("terminated") = listed
      BY DEF toPhase
    <2>2. report[c].kind = "terminated"
      BY <2>1 DEF OfKind
    <2> QED  BY <1>1, <2>2 DEF TypeOK, EndedInv, Ended
  <1> QED  BY <1>1, StatusInvariant, PTL

-----------------------------------------------------------------------------
(* A status put together from different moments tells how a pod ended.     *)

Over == {"exited", "failed", "dead"}

\* A unit that was over when it was listed, and was not started since, is over and
\* has the exit code it had; so the answer about it still holds, or it was a guess.
AnswerHolds(c) ==
    c \notin started /\ snap[c] \in Over =>
        /\ sub[c] \in Over
        /\ read[c] = "done" /\ stamp[c] => report[c] = Terminated(code[c])
        /\ read[c] = "guessed" => \/ report[c] = Terminated(0)
                                  \/ report[c] = Waiting /\ snap[c] = "dead"

AnswersInv == \A c \in Containers : AnswerHolds(c)

LEMMA SystemdAnswers ==
    ASSUME TypeOK, AnswersInv, NEW c \in Containers, Systemd(c) \/ Forget(c)
    PROVE  AnswersInv'
  <1> SUFFICES ASSUME NEW d \in Containers
               PROVE  AnswerHolds(d)'
    BY DEF AnswersInv
  <1>0. /\ sub \in [Containers -> SubStates] /\ stamp \in [Containers -> BOOLEAN]
        /\ code \in [Containers -> ExitCodes] /\ AnswerHolds(d) /\ AnswerHolds(c)
    BY DEF TypeOK, AnswersInv
  <1> DEFINE Goal == AnswerHolds(d)'
  <1>1. ASSUME NEW s, Begin(c, s)  PROVE Goal
    <2>1. /\ started' = started \cup {c} /\ UNCHANGED readerVars
          /\ d # c => UNCHANGED <<sub[d], stamp[d], code[d]>>
      BY <1>0, <1>1 DEF Begin
    <2> QED  BY <1>0, <2>1 DEF AnswerHolds, readerVars
  <1>2. ASSUME NEW s, NEW x, sub[c] \notin Over, End(c, s, x)  PROVE Goal
    <2>1. /\ UNCHANGED <<readerVars, started>>
          /\ d # c => UNCHANGED <<sub[d], stamp[d], code[d]>>
      BY <1>0, <1>2 DEF End
    <2> QED  BY <1>0, <1>2, <2>1 DEF AnswerHolds, readerVars
  <1>3. ASSUME NEW s, sub[c] \in Over => s \in Over, Become(c, s)  PROVE Goal
    <2>1. /\ UNCHANGED <<readerVars, started, stamp, code>>
          /\ sub'[d] = IF d = c THEN s ELSE sub[d]
      BY <1>0, <1>3 DEF Become
    <2> QED  BY <1>0, <1>3, <2>1 DEF AnswerHolds, readerVars
  <1>4. ASSUME Forget(c)  PROVE Goal
    <2>1. /\ started' = started \cup {c} /\ UNCHANGED <<sub, readerVars>>
          /\ d # c => UNCHANGED <<stamp[d], code[d]>>
      BY <1>0, <1>4 DEF Forget
    <2> QED  BY <1>0, <2>1 DEF AnswerHolds, readerVars
  <1> HIDE DEF Goal
  <1>5. ASSUME StartJob(c) \/ AutoRestart(c)  PROVE Goal
    BY <1>1, <1>5 DEF StartJob, AutoRestart
  <1>6. ASSUME StartupOver(c) \/ StopJob(c) \/ LastProcessGone(c) \/ ResetFailed(c)  PROVE Goal
    BY <1>3, <1>6 DEF StartupOver, StopJob, LastProcessGone, ResetFailed, Over
  <1>7. ASSUME ProcessExits(c)  PROVE Goal
    BY <1>2, <1>7 DEF ProcessExits, Over
  <1>8. ASSUME StopJobEnds(c)  PROVE Goal
    BY <1>2, <1>8 DEF StopJobEnds, Over
  <1>9. Goal
    BY <1>4, <1>5, <1>6, <1>7, <1>8 DEF Systemd
  <1> QED  BY <1>9 DEF Goal

LEMMA ReaderAnswers ==
    ASSUME TypeOK, AnswersInv, NEW c \in Containers, ContainerState(c)
    PROVE  AnswersInv'
  <1> SUFFICES ASSUME NEW d \in Containers
               PROVE  AnswerHolds(d)'
    BY DEF AnswersInv
  <1>0. /\ read \in [Containers -> {"no", "stamped", "done", "guessed"}]
        /\ report \in [Containers -> States]
        /\ AnswerHolds(d)
    BY DEF TypeOK, AnswersInv, States
  <1> DEFINE Goal == AnswerHolds(d)'
  <1>1. ASSUME NEW state, NEW how \in {"done", "guessed"}, Answer(c, state, how),
               snap[c] \in Over => IF how = "done" THEN stamp[c] => state = Terminated(code[c])
                                   ELSE \/ state = Terminated(0)
                                        \/ state = Waiting /\ snap[c] = "dead"
        PROVE  Goal
    <2>1. /\ read'[d] = IF d = c THEN how ELSE read[d]
          /\ report'[d] = IF d = c THEN state ELSE report[d]
          /\ UNCHANGED <<sub, stamp, code, snap, started>>
      BY <1>0, <1>1 DEF Answer, systemdVars
    <2> QED  BY <1>0, <1>1, <2>1 DEF AnswerHolds, Terminated
  <1> HIDE DEF Goal
  <1>2. ASSUME CodeIsRead(c) \/ CodeIsGuessed(c)  PROVE Goal
    BY <1>1, <1>2 DEF CodeIsRead, CodeIsGuessed
  <1>3. ASSUME StateOfLive(c)  PROVE Goal
    BY <1>1, <1>3 DEF StateOfLive, Over
  <1>4. ASSUME StateOfDead(c)  PROVE Goal
    <2>1. CASE stamp[c] /\ read' = [read EXCEPT ![c] = "stamped"]
               /\ UNCHANGED <<systemdVars, snap, listed, report, started>>
      <3>1. /\ read'[d] = IF d = c THEN "stamped" ELSE read[d]
            /\ UNCHANGED <<sub, stamp, code, snap, started, report>>
        BY <1>0, <2>1 DEF systemdVars
      <3> QED  BY <1>0, <3>1 DEF AnswerHolds, Terminated, Goal
    <2>2. CASE ~stamp[c] /\ Answer(c, Waiting, "done")
      BY <1>1, <2>2
    <2>3. CASE StampIsGuessed(c)
      BY <1>1, <1>4, <2>3 DEF StampIsGuessed, StateOfDead
    <2> QED  BY <1>4, <2>1, <2>2, <2>3 DEF StateOfDead
  <1>5. Goal
    BY <1>2, <1>3, <1>4 DEF ContainerState, StateOfEnded, CodeOfDead
  <1> QED  BY <1>5 DEF Goal

LEMMA AnswersStep ==
    ASSUME TypeOK, AnswersInv, [Next]_allVars
    PROVE  AnswersInv'
  <1>1. ASSUME NEW u \in Names!Unit, LoadUnit(u) \/ UnloadUnit(u)  PROVE AnswersInv'
    <2>1. u[2] \in Containers
      BY UnitType
    <2>2. CASE UNCHANGED vars
      BY <2>2 DEF AnswersInv, AnswerHolds, Terminated, vars, systemdVars, readerVars
    <2>3. CASE Forget(u[2])
      BY <2>1, <2>3, SystemdAnswers
    <2> QED  BY <1>1, <2>2, <2>3 DEF LoadUnit, UnloadUnit
  <1>2. CASE GetPod
    <2>1. /\ sub' = sub /\ snap' = sub /\ read' = [c \in Containers |-> "no"]
      BY <1>2 DEF GetPod, ListUnits, systemdVars
    <2> QED  BY <2>1 DEF AnswersInv, AnswerHolds
  <1>3. ASSUME NEW c \in Containers, SystemdStep(c) \/ ReportUnit(c)  PROVE AnswersInv'
    BY <1>3, SystemdAnswers, ReaderAnswers DEF SystemdStep, ReportUnit
  <1>4. CASE UNCHANGED allVars
    BY <1>4 DEF AnswersInv, AnswerHolds, Terminated, allVars, vars, systemdVars, readerVars
  <1> QED  BY <1>1, <1>2, <1>3, <1>4 DEF Next

\* The sum toPhase takes is zero only if every exit code is: none is negative.
LEMMA SumOfCodes ==
    ASSUME TypeOK, \A c \in listed : report[c].code \in Nat
    PROVE  MapThenSumSet(LAMBDA c : report[c].code, listed) = 0
              <=> \A c \in listed : report[c].code = 0
  <1> DEFINE w == [c \in listed |-> report[c].code]
             Rec(F) == F = [s \in SUBSET listed |->
                              IF s = {} THEN 0
                              ELSE LET x == CHOOSE x \in s : TRUE
                                   IN  report[x].code + F[s \ {x}]]
             G == CHOOSE F : Rec(F)
  <1>1. IsFiniteSet(listed) /\ w \in [listed -> Nat]
    BY ContainersAssumption, FS_Subset DEF TypeOK
  <1>2. \A F : Sums(w, listed, F) <=> Rec(F)
    <2> SUFFICES ASSUME NEW F
                 PROVE  Sums(w, listed, F) <=> Rec(F)
      OBVIOUS
    <2>1. \A s \in SUBSET listed : s # {} => w[Some(s)] = report[Some(s)].code
      BY DEF Some
    <2> QED  BY <2>1 DEF Sums, Some
  <1>3. \E F : Sums(w, listed, F)
    BY <1>1, SumExists
  <1>4. Rec(G)
    <2> HIDE DEF Rec
    <2> QED  BY <1>2, <1>3
  <1>5. MapThenSumSet(LAMBDA c : report[c].code, listed) = G[listed]
    BY DEF MapThenSumSet, MapThenFoldSet
  <1>6. G[listed] = 0 <=> \A c \in listed : w[c] = 0
    <2> HIDE DEF G, Rec, w
    <2> QED  BY <1>1, <1>2, <1>4, SumIsZero
  <1> HIDE DEF G
  <1> QED  BY <1>5, <1>6

\* toPhase: once every container is over and none was started since, the phase tells
\* how the pod ended, though the answers it is made of are of different moments and
\* units may be stopped or reset meanwhile; with any number of containers.  A property
\* that cannot be read counts as 0: it may hide a failure, but not one that was read,
\* and it never makes one up.
THEOREM FinishedIsTold == ASSUME MineIsPlain PROVE Spec => []FinishedPhase
  <1>1. ASSUME TypeOK, AnswersInv  PROVE FinishedPhase
    <2> DEFINE sum == MapThenSumSet(LAMBDA c : report[c].code, listed)
    <2> SUFFICES ASSUME listed = Containers, Reported, started = {},
                        \A c \in Containers : stamp[c] /\ snap[c] \in Over
                 PROVE  /\ toPhase \in {"Pending", "Succeeded", "Failed"}
                        /\ toPhase = "Pending" => \E c \in Guessed : snap[c] = "dead"
                        /\ toPhase = "Succeeded" => \A c \in Containers \ Guessed : code[c] = 0
                        /\ toPhase = "Failed" => \E c \in Containers \ Guessed : code[c] # 0
      BY DEF FinishedPhase, Over
    <2>1. \A x : Terminated(x).kind = "terminated" /\ Terminated(x).code = x
      BY DEF Terminated
    <2>2. \A c \in Containers \ Guessed :
             report[c].kind = "terminated" /\ report[c].code = code[c] /\ code[c] \in Nat
      <3> SUFFICES ASSUME NEW c \in Containers \ Guessed
                   PROVE  /\ report[c].kind = "terminated" /\ report[c].code = code[c]
                          /\ code[c] \in Nat
        OBVIOUS
      <3>1. read[c] = "done"
        BY DEF Reported, Guessed
      <3>2. code[c] \in Nat
        BY <1>1, ExitCodesAssumption DEF TypeOK
      <3>3. report[c] = Terminated(code[c])
        BY <1>1, <3>1 DEF AnswersInv, AnswerHolds
      <3> QED  BY <2>1, <3>2, <3>3
    <2>3. \A c \in Guessed :
             /\ report[c].kind = "terminated" \/ (report[c].kind = "waiting" /\ snap[c] = "dead")
             /\ report[c].code = 0
      <3> SUFFICES ASSUME NEW c \in Guessed
                   PROVE  /\ \/ report[c].kind = "terminated"
                             \/ report[c].kind = "waiting" /\ snap[c] = "dead"
                          /\ report[c].code = 0
        OBVIOUS
      <3>1. c \in Containers /\ read[c] = "guessed"
        BY DEF Guessed
      <3>2. report[c] = Terminated(0) \/ (report[c] = Waiting /\ snap[c] = "dead")
        BY <1>1, <3>1 DEF AnswersInv, AnswerHolds
      <3>3. Waiting.kind = "waiting" /\ Waiting.code = 0
        BY DEF Waiting
      <3> QED  BY <2>1, <3>2, <3>3
    <2>4. Guessed \subseteq Containers
      BY DEF Guessed
    <2>5. OfKind("waiting") = {} => OfKind("running") # listed /\ OfKind("terminated") = listed
      BY <2>2, <2>3, <2>4, ContainersAssumption DEF OfKind
    <2>6. OfKind("waiting") # {} => \E c \in Guessed : snap[c] = "dead"
      BY <2>2, <2>3, <2>4 DEF OfKind
    <2>7. sum = 0 <=> \A c \in Containers : report[c].code = 0
      <3>1. \A c \in listed : report[c].code \in Nat
        BY <2>2, <2>3
      <3> QED  BY <1>1, <3>1, SumOfCodes
    <2>8. sum = 0 <=> \A c \in Containers \ Guessed : code[c] = 0
      BY <2>2, <2>3, <2>4, <2>7
    <2> HIDE DEF sum
    <2>9. toPhase = IF OfKind("waiting") # {} THEN "Pending"
                    ELSE IF sum = 0 THEN "Succeeded" ELSE "Failed"
      BY <2>5 DEF toPhase, sum
    <2> QED  BY <2>6, <2>8, <2>9
  <1>2. InitAll => AnswersInv
    BY DEF InitAll, Init, AnswersInv, AnswerHolds, Over
  <1>3. TypeOK /\ AnswersInv /\ [Next]_allVars => AnswersInv'
    BY AnswersStep
  <1> QED  BY <1>1, <1>2, <1>3, StatusInvariant, PTL DEF Spec
=============================================================================
