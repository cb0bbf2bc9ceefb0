-------------------------- MODULE PathSetup_proofs --------------------------
(***************************************************************************)
(* Proofs about PathSetup, for every trusting period, every number of      *)
(* clients, of commands typed by hand and of faults.                       *)
(*                                                                         *)
(* What a process may still do is in its list of steps.  The proofs rest   *)
(* on the shape these lists have at any time (WellFormed): which step can  *)
(* come before which other, and which ones are adjacent.                   *)
(***************************************************************************)
EXTENDS PathSetup, SequenceTheorems, WellFoundedInduction, TLAPS

-----------------------------------------------------------------------------
(* The shape of a list of steps *)

\* s may be some steps before t.
Precedes(s, t) ==
    /\ t.do # "load"
    /\ t.do = "check" => s.do \in {"load", "usePath"}
    /\ t.do = "addPath" => s.do = "load"
    /\ t.do = "send" => s.do \in {"open", "update", "send"}
    /\ t.do = "sync" => s.do \in {"open", "update", "send", "success", "sync",
                                  "truncate", "write"}
    /\ s.do = "send" => t.do \in {"send", "success", "sync", "truncate", "write"}
    /\ s.do = "refresh" => t.do \in {"refresh", "success"}
    /\ s.do = t.do /\ s.do \in {"send", "sync"} => s.at # t.at

\* t may be the step after s.
Adjoins(s, t) ==
    /\ s.do = "open" => t.do \in {"peek", "trust", "update"} /\ t.at = s.at
    /\ s.do = "sync" => t.do = "truncate"
    /\ s.do \in {"create", "truncate"} <=> t.do = "write"
    /\ t.do = "check" => s.do = "usePath"
    /\ t.do = "create" => s.do = "stat"

\* What is opened is used, what is truncated is written, and an identifier that
\* is asked for is recorded.
WellFormed(todo) ==
    /\ todo \in Seq(Steps)
    /\ \A i, j \in DOMAIN todo : i < j => Precedes(todo[i], todo[j])
    /\ \A i \in DOMAIN todo : i + 1 \in DOMAIN todo => Adjoins(todo[i], todo[i + 1])
    /\ \A i \in DOMAIN todo :
          /\ todo[i].do \in {"open", "sync", "create", "truncate"} => i + 1 \in DOMAIN todo
          /\ todo[i].do = "send" =>
                \E j \in DOMAIN todo : todo[j].do = "sync" /\ todo[j].at = todo[i].at

\* An argument that is used as an identifier, of the clients known, or as a height
\* is one.
Fits(s, known) ==
    /\ s.do = "edit" => s.arg \in {NoId, Typo} \cup known[s.at]
    /\ s.do \in {"update", "trust", "check"} => s.arg \in Heights

\* A list a process may have.
Allowed(todo, known) == WellFormed(todo) /\ \A i \in DOMAIN todo : Fits(todo[i], known)

\* Facts about the constants.
LEMMA ConstantTypes ==
    /\ Ids \subseteq Nat /\ NoId \notin Ids /\ 1 \in Ids /\ Typo \notin Ids /\ Typo # NoId
    /\ Ids \subseteq 0..Typo /\ NoId \in 0..Typo /\ Typo \in 0..Typo
    /\ 0..MaxClients = {NoId} \cup Ids /\ Ids \subseteq 0..MaxClients /\ NoId \in 0..MaxClients
    /\ 0..MaxClients \subseteq 0..Typo
    /\ Heights \subseteq Nat /\ 0 \in Heights /\ 1 \in Heights /\ MaxTime \in Nat
    /\ Typo \in Nat /\ NoId = 0
  BY SetupAssumption DEF Ids, NoId, Typo, Heights

\* The least of some numbers is one of them.
LEMMA MinIn ==
    ASSUME NEW S \in SUBSET Nat, S # {}
    PROVE  Min(S) \in S
<1> DEFINE Least(x) == \A y \in S : x <= y
<1>1. \E x \in S : \A y \in S : ~ (<<y, x>> \in OpToRel(<, Nat))
  BY NatLessThanWellFounded, WFMin, Zenon
<1>2. \E x \in S : \A y \in S : x <= y
  <2>1. ASSUME NEW x \in Nat, NEW y \in Nat, y < x
        PROVE  <<y, x>> \in {ss \in Nat \X Nat : ss[1] < ss[2]}
    BY <2>1
  <2>2. \A x, y \in Nat : y < x => <<y, x>> \in OpToRel(<, Nat)
    BY <2>1, Zenon DEF OpToRel
  <2>3. PICK x \in S : \A y \in S : ~ (<<y, x>> \in OpToRel(<, Nat))
    BY <1>1
  <2>4. \A y \in S : ~ (y < x)
    BY <2>2, <2>3
  <2> QED
    BY <2>4
<1>3. PICK x \in S : Least(x)
  BY <1>2
<1>4. (CHOOSE z \in S : Least(z)) \in S
  <2> HIDE DEF Least
  <2> QED
    BY <1>3
<1> QED
  BY <1>4, Zenon DEF Min

\* The steps of a list, its first and its second.
LEMMA ListFacts ==
    ASSUME NEW known, NEW todo, Allowed(todo, known)
    PROVE  /\ todo \in Seq(Steps) /\ DOMAIN todo = 1..Len(todo) /\ Len(todo) \in Nat
           /\ \A i \in DOMAIN todo : /\ todo[i] \in Steps
                                     /\ todo[i].do \in StepKinds /\ todo[i].at \in Chains
           /\ todo # <<>> => 1 \in DOMAIN todo /\ Head(todo) = todo[1]
           /\ todo # <<>> /\ Len(todo) # 1 =>
                 /\ 2 \in DOMAIN todo /\ Tail(todo) # <<>> /\ Head(Tail(todo)) = todo[2]
                 /\ Adjoins(todo[1], todo[2])
           /\ \A i \in DOMAIN todo : i # 1 => Precedes(todo[1], todo[i])
<1>1. todo \in Seq(Steps)
  BY DEF Allowed, WellFormed
<1>2. DOMAIN todo = 1..Len(todo) /\ Len(todo) \in Nat
  BY <1>1
<1>3. \A i \in DOMAIN todo : todo[i] \in Steps
  BY <1>1, <1>2
<1>4. \A i \in DOMAIN todo : todo[i].do \in StepKinds /\ todo[i].at \in Chains
  BY <1>3 DEF Steps
<1>5. todo # <<>> => 1 \in DOMAIN todo /\ Head(todo) = todo[1]
  BY <1>1, <1>2
<1>6. todo # <<>> /\ Len(todo) # 1 =>
         2 \in DOMAIN todo /\ Tail(todo) # <<>> /\ Head(Tail(todo)) = todo[2]
  <2> HAVE todo # <<>> /\ Len(todo) # 1
  <2>1. Len(todo) >= 2
    BY <1>1, <1>2
  <2>2. /\ Tail(todo) \in Seq(Steps) /\ Len(Tail(todo)) = Len(todo) - 1
        /\ \A i \in 1..Len(Tail(todo)) : Tail(todo)[i] = todo[i + 1]
    BY <1>1, HeadTailProperties
  <2>3. Tail(todo) # <<>> /\ 1 \in 1..Len(Tail(todo))
    <3>1. Len(Tail(todo)) \in Nat /\ Len(Tail(todo)) >= 1
      BY <1>2, <2>1, <2>2
    <3>2. Len(<<>>) = 0 /\ ~ (0 >= 1)
      OBVIOUS
    <3>3. Tail(todo) # <<>>
      BY <3>1, <3>2, Zenon
    <3> QED
      BY <3>1, <3>3
  <2>4. Head(Tail(todo)) = Tail(todo)[1]
    BY <2>2, <2>3
  <2> QED
    BY <1>2, <2>1, <2>2, <2>3, <2>4
<1>7. todo # <<>> /\ Len(todo) # 1 => Adjoins(todo[1], todo[2])
  <2>1. \A i \in DOMAIN todo : i + 1 \in DOMAIN todo => Adjoins(todo[i], todo[i + 1])
    BY DEF Allowed, WellFormed
  <2>2. 1 + 1 = 2
    OBVIOUS
  <2> QED
    BY <1>5, <1>6, <2>1, <2>2
<1>8. ASSUME NEW i \in DOMAIN todo, i # 1 PROVE Precedes(todo[1], todo[i])
  <2>1. \A k, j \in DOMAIN todo : k < j => Precedes(todo[k], todo[j])
    BY DEF Allowed, WellFormed
  <2>2. 1 \in DOMAIN todo /\ 1 < i
    BY <1>2, <1>8
  <2> QED
    BY <2>1, <2>2
<1> QED
  BY <1>1, <1>2, <1>3, <1>4, <1>5, <1>6, <1>7, <1>8

\* What is left of a list after its first step.
LEMMA TailAllowed ==
    ASSUME NEW known, NEW todo, Allowed(todo, known), todo # <<>>
    PROVE  /\ Allowed(Tail(todo), known)
           /\ DOMAIN Tail(todo) = 1..(Len(todo) - 1)
           /\ \A i \in DOMAIN Tail(todo) : Tail(todo)[i] = todo[i + 1]
<1>1. /\ todo \in Seq(Steps) /\ DOMAIN todo = 1..Len(todo) /\ Len(todo) \in Nat \ {0}
      /\ Tail(todo) \in Seq(Steps)
      /\ DOMAIN Tail(todo) = 1..(Len(todo) - 1)
      /\ \A i \in DOMAIN Tail(todo) : Tail(todo)[i] = todo[i + 1] /\ i + 1 \in DOMAIN todo
  BY DEF Allowed, WellFormed
<1>2. \A i, j \in DOMAIN Tail(todo) : i < j => Precedes(Tail(todo)[i], Tail(todo)[j])
  BY <1>1 DEF Allowed, WellFormed
<1>3. \A i \in DOMAIN Tail(todo) :
         i + 1 \in DOMAIN Tail(todo) => Adjoins(Tail(todo)[i], Tail(todo)[i + 1])
  BY <1>1 DEF Allowed, WellFormed
<1>4. \A i \in DOMAIN Tail(todo) :
         Tail(todo)[i].do \in {"open", "sync", "create", "truncate"} => i + 1 \in DOMAIN Tail(todo)
  BY <1>1 DEF Allowed, WellFormed
<1>5. ASSUME NEW i \in DOMAIN Tail(todo), Tail(todo)[i].do = "send"
      PROVE  \E j \in DOMAIN Tail(todo) :
                Tail(todo)[j].do = "sync" /\ Tail(todo)[j].at = Tail(todo)[i].at
  <2>1. PICK j \in DOMAIN todo : todo[j].do = "sync" /\ todo[j].at = todo[i + 1].at
    BY <1>1, <1>5 DEF Allowed, WellFormed
  <2>2. j # 1
    BY <1>1, <1>5, <2>1 DEF Allowed, WellFormed, Precedes
  <2>3. j - 1 \in DOMAIN Tail(todo) /\ Tail(todo)[j - 1] = todo[j]
    BY <1>1, <2>2
  <2> QED
    BY <1>1, <2>1, <2>3
<1>6. \A i \in DOMAIN Tail(todo) : Fits(Tail(todo)[i], known)
  BY <1>1 DEF Allowed
<1> QED
  BY <1>1, <1>2, <1>3, <1>4, <1>5, <1>6 DEF Allowed, WellFormed

-----------------------------------------------------------------------------
(* The lists of the commands *)

\* The list of a command that is started.
Startable(todo) == Allowed(todo, ours) /\ todo # <<>> /\ Head(todo).do = "load"

\* A list is allowed when its steps are, and those in every pair.
LEMMA AllowedBy ==
    ASSUME NEW known, NEW todo \in Seq(Steps),
           \A i, j \in DOMAIN todo : i < j => Precedes(todo[i], todo[j]),
           \A i \in DOMAIN todo : i + 1 \in DOMAIN todo => Adjoins(todo[i], todo[i + 1]),
           \A i \in DOMAIN todo :
              todo[i].do \in {"open", "sync", "create", "truncate"} => i + 1 \in DOMAIN todo,
           \A i \in DOMAIN todo : todo[i].do = "send" =>
              \E j \in DOMAIN todo : todo[j].do = "sync" /\ todo[j].at = todo[i].at,
           \A i \in DOMAIN todo : Fits(todo[i], known)
    PROVE  Allowed(todo, known)
  BY DEF Allowed, WellFormed

\* A step is well typed.
LEMMA StepType ==
    ASSUME NEW do \in StepKinds, NEW c \in Chains, NEW arg \in Nat
    PROVE  With(do, c, arg) \in Steps /\ At(do, c) \in Steps /\ Plain(do) \in Steps
  BY DEF With, At, Plain, Steps, Chains


\* config init.
LEMMA InitCommand ==
    Startable(configInitCmd)
<1> DEFINE todo == <<Plain("load"), Plain("stat"), Plain("create"), Plain("write")>>
<1>0. configInitCmd = todo
  BY DEF configInitCmd
<1>1. todo \in Seq(Steps) /\ DOMAIN todo = 1..4 /\ todo # <<>>
  BY StepType, ConstantTypes DEF StepKinds, Chains
<1>2. \A i, j \in DOMAIN todo : i < j => Precedes(todo[i], todo[j])
  BY <1>1 DEF Plain, At, With, Precedes
<1>3. \A i \in DOMAIN todo : i + 1 \in DOMAIN todo => Adjoins(todo[i], todo[i + 1])
  BY <1>1 DEF Plain, At, With, Adjoins
<1>4. \A i \in DOMAIN todo :
         todo[i].do \in {"open", "sync", "create", "truncate"} => i + 1 \in DOMAIN todo
  BY <1>1 DEF Plain, At, With
<1>5. \A i \in DOMAIN todo : todo[i].do = "send" =>
         \E j \in DOMAIN todo : todo[j].do = "sync" /\ todo[j].at = todo[i].at
  BY <1>1 DEF Plain, At, With
<1>6. \A i \in DOMAIN todo : Fits(todo[i], ours)
  BY <1>1, ConstantTypes DEF Plain, At, With, Fits
<1>7. Head(todo).do = "load"
  BY DEF Plain, At
<1>8. Allowed(todo, ours)
  <2> HIDE DEF todo
  <2> QED
    BY <1>1, <1>2, <1>3, <1>4, <1>5, <1>6, AllowedBy
<1> QED
  BY <1>0, <1>1, <1>7, <1>8 DEF Startable

\* keys add.
LEMMA KeysCommand ==
    ASSUME NEW c \in Chains
    PROVE  Startable(keysAddCmd(c))
<1> DEFINE todo == <<Plain("load"), At("useChain", c), At("addKey", c)>>
<1>0. keysAddCmd(c) = todo
  BY DEF keysAddCmd
<1>1. todo \in Seq(Steps) /\ DOMAIN todo = 1..3 /\ todo # <<>>
  BY StepType, ConstantTypes DEF StepKinds, Chains
<1>2. \A i, j \in DOMAIN todo : i < j => Precedes(todo[i], todo[j])
  BY <1>1 DEF Plain, At, With, Precedes
<1>3. \A i \in DOMAIN todo : i + 1 \in DOMAIN todo => Adjoins(todo[i], todo[i + 1])
  BY <1>1 DEF Plain, At, With, Adjoins
<1>4. \A i \in DOMAIN todo :
         todo[i].do \in {"open", "sync", "create", "truncate"} => i + 1 \in DOMAIN todo
  BY <1>1 DEF Plain, At, With
<1>5. \A i \in DOMAIN todo : todo[i].do = "send" =>
         \E j \in DOMAIN todo : todo[j].do = "sync" /\ todo[j].at = todo[i].at
  BY <1>1 DEF Plain, At, With
<1>6. \A i \in DOMAIN todo : Fits(todo[i], ours)
  BY <1>1, ConstantTypes DEF Plain, At, With, Fits
<1>7. Head(todo).do = "load"
  BY DEF Plain, At
<1>8. Allowed(todo, ours)
  <2> HIDE DEF todo
  <2> QED
    BY <1>1, <1>2, <1>3, <1>4, <1>5, <1>6, AllowedBy
<1> QED
  BY <1>0, <1>1, <1>7, <1>8 DEF Startable

\* light init.
LEMMA LightInitCommand ==
    ASSUME NEW c \in Chains, NEW h \in Heights
    PROVE  Startable(initLightCmd(c, h))
<1> DEFINE todo == <<Plain("load"), At("useChain", c), At("open", c), With("trust", c, h)>>
<1>0. initLightCmd(c, h) = todo
  BY DEF initLightCmd
<1>1. todo \in Seq(Steps) /\ DOMAIN todo = 1..4 /\ todo # <<>>
  BY StepType, ConstantTypes DEF StepKinds, Chains
<1>2. \A i, j \in DOMAIN todo : i < j => Precedes(todo[i], todo[j])
  BY <1>1 DEF Plain, At, With, Precedes
<1>3. \A i \in DOMAIN todo : i + 1 \in DOMAIN todo => Adjoins(todo[i], todo[i + 1])
  BY <1>1 DEF Plain, At, With, Adjoins
<1>4. \A i \in DOMAIN todo :
         todo[i].do \in {"open", "sync", "create", "truncate"} => i + 1 \in DOMAIN todo
  BY <1>1 DEF Plain, At, With
<1>5. \A i \in DOMAIN todo : todo[i].do = "send" =>
         \E j \in DOMAIN todo : todo[j].do = "sync" /\ todo[j].at = todo[i].at
  BY <1>1 DEF Plain, At, With
<1>6. \A i \in DOMAIN todo : Fits(todo[i], ours)
  BY <1>1, ConstantTypes DEF Plain, At, With, Fits
<1>7. Head(todo).do = "load"
  BY DEF Plain, At
<1>8. Allowed(todo, ours)
  <2> HIDE DEF todo
  <2> QED
    BY <1>1, <1>2, <1>3, <1>4, <1>5, <1>6, AllowedBy
<1> QED
  BY <1>0, <1>1, <1>7, <1>8 DEF Startable

\* light update.
LEMMA LightUpdateCommand ==
    ASSUME NEW c \in Chains
    PROVE  Startable(updateLightCmd(c))
<1> DEFINE todo == <<Plain("load"), At("useChain", c), At("open", c), At("peek", c),
                      At("open", c), At("update", c)>>
<1>0. updateLightCmd(c) = todo
  BY DEF updateLightCmd
<1>1. todo \in Seq(Steps) /\ DOMAIN todo = 1..6 /\ todo # <<>>
  BY StepType, ConstantTypes DEF StepKinds, Chains
<1>2. \A i, j \in DOMAIN todo : i < j => Precedes(todo[i], todo[j])
  BY <1>1 DEF Plain, At, With, Precedes
<1>3. \A i \in DOMAIN todo : i + 1 \in DOMAIN todo => Adjoins(todo[i], todo[i + 1])
  BY <1>1 DEF Plain, At, With, Adjoins
<1>4. \A i \in DOMAIN todo :
         todo[i].do \in {"open", "sync", "create", "truncate"} => i + 1 \in DOMAIN todo
  BY <1>1 DEF Plain, At, With
<1>5. \A i \in DOMAIN todo : todo[i].do = "send" =>
         \E j \in DOMAIN todo : todo[j].do = "sync" /\ todo[j].at = todo[i].at
  BY <1>1 DEF Plain, At, With
<1>6. \A i \in DOMAIN todo : Fits(todo[i], ours)
  BY <1>1, ConstantTypes DEF Plain, At, With, Fits
<1>7. Head(todo).do = "load"
  BY DEF Plain, At
<1>8. Allowed(todo, ours)
  <2> HIDE DEF todo
  <2> QED
    BY <1>1, <1>2, <1>3, <1>4, <1>5, <1>6, AllowedBy
<1> QED
  BY <1>0, <1>1, <1>7, <1>8 DEF Startable

\* light header.
LEMMA LightHeaderCommand ==
    ASSUME NEW c \in Chains
    PROVE  Startable(lightHeaderCmd(c))
<1> DEFINE todo == <<Plain("load"), At("useChain", c), At("open", c), At("peek", c),
                      At("open", c), At("peek", c)>>
<1>0. lightHeaderCmd(c) = todo
  BY DEF lightHeaderCmd
<1>1. todo \in Seq(Steps) /\ DOMAIN todo = 1..6 /\ todo # <<>>
  BY StepType, ConstantTypes DEF StepKinds, Chains
<1>2. \A i, j \in DOMAIN todo : i < j => Precedes(todo[i], todo[j])
  BY <1>1 DEF Plain, At, With, Precedes
<1>3. \A i \in DOMAIN todo : i + 1 \in DOMAIN todo => Adjoins(todo[i], todo[i + 1])
  BY <1>1 DEF Plain, At, With, Adjoins
<1>4. \A i \in DOMAIN todo :
         todo[i].do \in {"open", "sync", "create", "truncate"} => i + 1 \in DOMAIN todo
  BY <1>1 DEF Plain, At, With
<1>5. \A i \in DOMAIN todo : todo[i].do = "send" =>
         \E j \in DOMAIN todo : todo[j].do = "sync" /\ todo[j].at = todo[i].at
  BY <1>1 DEF Plain, At, With
<1>6. \A i \in DOMAIN todo : Fits(todo[i], ours)
  BY <1>1, ConstantTypes DEF Plain, At, With, Fits
<1>7. Head(todo).do = "load"
  BY DEF Plain, At
<1>8. Allowed(todo, ours)
  <2> HIDE DEF todo
  <2> QED
    BY <1>1, <1>2, <1>3, <1>4, <1>5, <1>6, AllowedBy
<1> QED
  BY <1>0, <1>1, <1>7, <1>8 DEF Startable

\* light delete.
LEMMA LightDeleteCommand ==
    ASSUME NEW c \in Chains
    PROVE  Startable(deleteLightCmd(c))
<1> DEFINE todo == <<Plain("load"), At("useChain", c), At("delete", c)>>
<1>0. deleteLightCmd(c) = todo
  BY DEF deleteLightCmd
<1>1. todo \in Seq(Steps) /\ DOMAIN todo = 1..3 /\ todo # <<>>
  BY StepType, ConstantTypes DEF StepKinds, Chains
<1>2. \A i, j \in DOMAIN todo : i < j => Precedes(todo[i], todo[j])
  BY <1>1 DEF Plain, At, With, Precedes
<1>3. \A i \in DOMAIN todo : i + 1 \in DOMAIN todo => Adjoins(todo[i], todo[i + 1])
  BY <1>1 DEF Plain, At, With, Adjoins
<1>4. \A i \in DOMAIN todo :
         todo[i].do \in {"open", "sync", "create", "truncate"} => i + 1 \in DOMAIN todo
  BY <1>1 DEF Plain, At, With
<1>5. \A i \in DOMAIN todo : todo[i].do = "send" =>
         \E j \in DOMAIN todo : todo[j].do = "sync" /\ todo[j].at = todo[i].at
  BY <1>1 DEF Plain, At, With
<1>6. \A i \in DOMAIN todo : Fits(todo[i], ours)
  BY <1>1, ConstantTypes DEF Plain, At, With, Fits
<1>7. Head(todo).do = "load"
  BY DEF Plain, At
<1>8. Allowed(todo, ours)
  <2> HIDE DEF todo
  <2> QED
    BY <1>1, <1>2, <1>3, <1>4, <1>5, <1>6, AllowedBy
<1> QED
  BY <1>0, <1>1, <1>7, <1>8 DEF Startable

\* tx clients.
LEMMA CreateCommand ==
    ASSUME NEW h \in Heights
    PROVE  Startable(createClientsCmd(h))
<1> DEFINE todo == <<Plain("load"), Plain("usePath"), With("check", "src", h)>>
<1>0. createClientsCmd(h) = todo
  BY DEF createClientsCmd
<1>1. todo \in Seq(Steps) /\ DOMAIN todo = 1..3 /\ todo # <<>>
  BY StepType, ConstantTypes DEF StepKinds, Chains
<1>2. \A i, j \in DOMAIN todo : i < j => Precedes(todo[i], todo[j])
  BY <1>1 DEF Plain, At, With, Precedes
<1>3. \A i \in DOMAIN todo : i + 1 \in DOMAIN todo => Adjoins(todo[i], todo[i + 1])
  BY <1>1 DEF Plain, At, With, Adjoins
<1>4. \A i \in DOMAIN todo :
         todo[i].do \in {"open", "sync", "create", "truncate"} => i + 1 \in DOMAIN todo
  BY <1>1 DEF Plain, At, With
<1>5. \A i \in DOMAIN todo : todo[i].do = "send" =>
         \E j \in DOMAIN todo : todo[j].do = "sync" /\ todo[j].at = todo[i].at
  BY <1>1 DEF Plain, At, With
<1>6. \A i \in DOMAIN todo : Fits(todo[i], ours)
  BY <1>1, ConstantTypes DEF Plain, At, With, Fits
<1>7. Head(todo).do = "load"
  BY DEF Plain, At
<1>8. Allowed(todo, ours)
  <2> HIDE DEF todo
  <2> QED
    BY <1>1, <1>2, <1>3, <1>4, <1>5, <1>6, AllowedBy
<1> QED
  BY <1>0, <1>1, <1>7, <1>8 DEF Startable

\* tx update-clients.
LEMMA UpdateCommand ==
    Startable(updateClientsCmd)
<1> DEFINE todo == <<Plain("load"), Plain("usePath"),
                      At("open", "src"), At("update", "src"),
                      At("open", "dst"), At("update", "dst"),
                      At("refresh", "src"), At("refresh", "dst"), Plain("success")>>
<1>0. updateClientsCmd = todo
  BY DEF updateClientsCmd
<1>1. todo \in Seq(Steps) /\ DOMAIN todo = 1..9 /\ todo # <<>>
  BY StepType, ConstantTypes DEF StepKinds, Chains
<1>2. \A i, j \in DOMAIN todo : i < j => Precedes(todo[i], todo[j])
  BY <1>1 DEF Plain, At, With, Precedes
<1>3. \A i \in DOMAIN todo : i + 1 \in DOMAIN todo => Adjoins(todo[i], todo[i + 1])
  BY <1>1 DEF Plain, At, With, Adjoins
<1>4. \A i \in DOMAIN todo :
         todo[i].do \in {"open", "sync", "create", "truncate"} => i + 1 \in DOMAIN todo
  BY <1>1 DEF Plain, At, With
<1>5. \A i \in DOMAIN todo : todo[i].do = "send" =>
         \E j \in DOMAIN todo : todo[j].do = "sync" /\ todo[j].at = todo[i].at
  BY <1>1 DEF Plain, At, With
<1>6. \A i \in DOMAIN todo : Fits(todo[i], ours)
  BY <1>1, ConstantTypes DEF Plain, At, With, Fits
<1>7. Head(todo).do = "load"
  BY DEF Plain, At
<1>8. Allowed(todo, ours)
  <2> HIDE DEF todo
  <2> QED
    BY <1>1, <1>2, <1>3, <1>4, <1>5, <1>6, AllowedBy
<1> QED
  BY <1>0, <1>1, <1>7, <1>8 DEF Startable

\* paths add, from a file.
LEMMA PathsAddCommand ==
    Startable(pathsAddCmd)
<1> DEFINE todo == <<Plain("load"), Plain("addPath"), Plain("truncate"), Plain("write")>>
<1>0. pathsAddCmd = todo
  <2>1. todo \in Seq(Steps) /\ Len(todo) = 4
    BY StepType, ConstantTypes DEF StepKinds, Chains
  <2>2. <<Plain("load"), Plain("addPath")>> \in Seq(Steps) /\ Rewrite \in Seq(Steps)
    BY StepType, ConstantTypes DEF StepKinds, Chains, Rewrite
  <2>3. pathsAddCmd \in Seq(Steps) /\ Len(pathsAddCmd) = 4
    BY <2>2 DEF pathsAddCmd, Rewrite
  <2>4. \A i \in 1..4 : pathsAddCmd[i] = todo[i]
    BY <2>2 DEF pathsAddCmd, Rewrite
  <2> QED
    BY <2>1, <2>3, <2>4, SeqEqual
<1>1. todo \in Seq(Steps) /\ DOMAIN todo = 1..4 /\ todo # <<>>
  BY StepType, ConstantTypes DEF StepKinds, Chains
<1>2. \A i, j \in DOMAIN todo : i < j => Precedes(todo[i], todo[j])
  BY <1>1 DEF Plain, At, With, Precedes
<1>3. \A i \in DOMAIN todo : i + 1 \in DOMAIN todo => Adjoins(todo[i], todo[i + 1])
  BY <1>1 DEF Plain, At, With, Adjoins
<1>4. \A i \in DOMAIN todo :
         todo[i].do \in {"open", "sync", "create", "truncate"} => i + 1 \in DOMAIN todo
  BY <1>1 DEF Plain, At, With
<1>5. \A i \in DOMAIN todo : todo[i].do = "send" =>
         \E j \in DOMAIN todo : todo[j].do = "sync" /\ todo[j].at = todo[i].at
  BY <1>1 DEF Plain, At, With
<1>6. \A i \in DOMAIN todo : Fits(todo[i], ours)
  BY <1>1, ConstantTypes DEF Plain, At, With, Fits
<1>7. Head(todo).do = "load"
  BY DEF Plain, At
<1>8. Allowed(todo, ours)
  <2> HIDE DEF todo
  <2> QED
    BY <1>1, <1>2, <1>3, <1>4, <1>5, <1>6, AllowedBy
<1> QED
  BY <1>0, <1>1, <1>7, <1>8 DEF Startable

\* paths add, with identifiers the operator types.
LEMMA PathsTypedCommand ==
    Startable(userInputPathAdd)
<1> DEFINE todo == <<Plain("load"), With("addPath", "src", Typo), Plain("truncate"), Plain("write")>>
<1>0. userInputPathAdd = todo
  <2>1. todo \in Seq(Steps) /\ Len(todo) = 4
    BY StepType, ConstantTypes DEF StepKinds, Chains
  <2>2. <<Plain("load"), With("addPath", "src", Typo)>> \in Seq(Steps) /\ Rewrite \in Seq(Steps)
    BY StepType, ConstantTypes DEF StepKinds, Chains, Rewrite
  <2>3. userInputPathAdd \in Seq(Steps) /\ Len(userInputPathAdd) = 4
    BY <2>2 DEF userInputPathAdd, Rewrite
  <2>4. \A i \in 1..4 : userInputPathAdd[i] = todo[i]
    BY <2>2 DEF userInputPathAdd, Rewrite
  <2> QED
    BY <2>1, <2>3, <2>4, SeqEqual
<1>1. todo \in Seq(Steps) /\ DOMAIN todo = 1..4 /\ todo # <<>>
  BY StepType, ConstantTypes DEF StepKinds, Chains
<1>2. \A i, j \in DOMAIN todo : i < j => Precedes(todo[i], todo[j])
  BY <1>1 DEF Plain, At, With, Precedes
<1>3. \A i \in DOMAIN todo : i + 1 \in DOMAIN todo => Adjoins(todo[i], todo[i + 1])
  BY <1>1 DEF Plain, At, With, Adjoins
<1>4. \A i \in DOMAIN todo :
         todo[i].do \in {"open", "sync", "create", "truncate"} => i + 1 \in DOMAIN todo
  BY <1>1 DEF Plain, At, With
<1>5. \A i \in DOMAIN todo : todo[i].do = "send" =>
         \E j \in DOMAIN todo : todo[j].do = "sync" /\ todo[j].at = todo[i].at
  BY <1>1 DEF Plain, At, With
<1>6. \A i \in DOMAIN todo : Fits(todo[i], ours)
  BY <1>1, ConstantTypes DEF Plain, At, With, Fits
<1>7. Head(todo).do = "load"
  BY DEF Plain, At
<1>8. Allowed(todo, ours)
  <2> HIDE DEF todo
  <2> QED
    BY <1>1, <1>2, <1>3, <1>4, <1>5, <1>6, AllowedBy
<1> QED
  BY <1>0, <1>1, <1>7, <1>8 DEF Startable

\* paths edit.
LEMMA PathsEditCommand ==
    ASSUME NEW c \in Chains, NEW id \in {NoId, Typo} \cup ours[c], id \in Nat
    PROVE  Startable(pathsEditCmd(c, id))
<1> DEFINE todo == <<Plain("load"), With("edit", c, id), Plain("truncate"), Plain("write")>>
<1>0. pathsEditCmd(c, id) = todo
  <2>1. todo \in Seq(Steps) /\ Len(todo) = 4
    BY StepType, ConstantTypes DEF StepKinds, Chains
  <2>2. <<Plain("load"), With("edit", c, id)>> \in Seq(Steps) /\ Rewrite \in Seq(Steps)
    BY StepType, ConstantTypes DEF StepKinds, Chains, Rewrite
  <2>3. pathsEditCmd(c, id) \in Seq(Steps) /\ Len(pathsEditCmd(c, id)) = 4
    BY <2>2 DEF pathsEditCmd, Rewrite
  <2>4. \A i \in 1..4 : pathsEditCmd(c, id)[i] = todo[i]
    BY <2>2 DEF pathsEditCmd, Rewrite
  <2> QED
    BY <2>1, <2>3, <2>4, SeqEqual
<1>1. todo \in Seq(Steps) /\ DOMAIN todo = 1..4 /\ todo # <<>>
  BY StepType, ConstantTypes DEF StepKinds, Chains
<1>2. \A i, j \in DOMAIN todo : i < j => Precedes(todo[i], todo[j])
  BY <1>1 DEF Plain, At, With, Precedes
<1>3. \A i \in DOMAIN todo : i + 1 \in DOMAIN todo => Adjoins(todo[i], todo[i + 1])
  BY <1>1 DEF Plain, At, With, Adjoins
<1>4. \A i \in DOMAIN todo :
         todo[i].do \in {"open", "sync", "create", "truncate"} => i + 1 \in DOMAIN todo
  BY <1>1 DEF Plain, At, With
<1>5. \A i \in DOMAIN todo : todo[i].do = "send" =>
         \E j \in DOMAIN todo : todo[j].do = "sync" /\ todo[j].at = todo[i].at
  BY <1>1 DEF Plain, At, With
<1>6. \A i \in DOMAIN todo : Fits(todo[i], ours)
  BY <1>1, ConstantTypes DEF Plain, At, With, Fits
<1>7. Head(todo).do = "load"
  BY DEF Plain, At
<1>8. Allowed(todo, ours)
  <2> HIDE DEF todo
  <2> QED
    BY <1>1, <1>2, <1>3, <1>4, <1>5, <1>6, AllowedBy
<1> QED
  BY <1>0, <1>1, <1>7, <1>8 DEF Startable


\* chains add-dir with a file for src.
LEMMA AddSrcCommand ==
    ASSUME NEW last \in Nat
    PROVE  Startable(chainsAddDirCmd({"src"}, last))
<1> DEFINE todo == <<Plain("load"), At("addChain", "src"), Plain("truncate"),
                      Plain("write")>>
<1>0. chainsAddDirCmd({"src"}, last) = todo
  <2>1. todo \in Seq(Steps) /\ Len(todo) = 4
    BY StepType, ConstantTypes DEF StepKinds, Chains
  <2>2. /\ <<Plain("load")>> \in Seq(Steps)
        /\ <<At("addChain", "src")>> \in Seq(Steps)
        /\ <<Plain("truncate"), Plain("write")>> \in Seq(Steps)
    BY StepType, ConstantTypes DEF StepKinds, Chains
  <2>3. chainsAddDirCmd({"src"}, last) \in Seq(Steps) /\ Len(chainsAddDirCmd({"src"}, last)) = 4
    BY <2>2 DEF chainsAddDirCmd, Rewrite
  <2>4. \A i \in 1..4 : chainsAddDirCmd({"src"}, last)[i] = todo[i]
    BY <2>2 DEF chainsAddDirCmd, Rewrite
  <2> QED
    BY <2>1, <2>3, <2>4, SeqEqual
<1>1. todo \in Seq(Steps) /\ DOMAIN todo = 1..4 /\ todo # <<>>
  BY StepType, ConstantTypes DEF StepKinds, Chains
<1>2. \A i, j \in DOMAIN todo : i < j => Precedes(todo[i], todo[j])
  BY <1>1 DEF Plain, At, With, Precedes
<1>3. \A i \in DOMAIN todo : i + 1 \in DOMAIN todo => Adjoins(todo[i], todo[i + 1])
  BY <1>1 DEF Plain, At, With, Adjoins
<1>4. \A i \in DOMAIN todo :
         todo[i].do \in {"open", "sync", "create", "truncate"} => i + 1 \in DOMAIN todo
  BY <1>1 DEF Plain, At, With
<1>5. \A i \in DOMAIN todo : todo[i].do = "send" =>
         \E j \in DOMAIN todo : todo[j].do = "sync" /\ todo[j].at = todo[i].at
  BY <1>1 DEF Plain, At, With
<1>6. \A i \in DOMAIN todo : Fits(todo[i], ours)
  BY <1>1, ConstantTypes DEF Plain, At, With, Fits
<1>7. Head(todo).do = "load"
  BY DEF Plain, At
<1>8. Allowed(todo, ours)
  <2> HIDE DEF todo
  <2> QED
    BY <1>1, <1>2, <1>3, <1>4, <1>5, <1>6, AllowedBy
<1> QED
  BY <1>0, <1>1, <1>7, <1>8 DEF Startable

\* chains add-dir with a file for dst.
LEMMA AddDstCommand ==
    ASSUME NEW last \in Nat
    PROVE  Startable(chainsAddDirCmd({"dst"}, last))
<1> DEFINE todo == <<Plain("load"), With("addChain", "dst", last), Plain("truncate"),
                      Plain("write")>>
<1>0. chainsAddDirCmd({"dst"}, last) = todo
  <2>1. todo \in Seq(Steps) /\ Len(todo) = 4
    BY StepType, ConstantTypes DEF StepKinds, Chains
  <2>2. /\ <<Plain("load")>> \in Seq(Steps)
        /\ <<With("addChain", "dst", last)>> \in Seq(Steps)
        /\ <<Plain("truncate"), Plain("write")>> \in Seq(Steps)
    BY StepType, ConstantTypes DEF StepKinds, Chains
  <2>3. chainsAddDirCmd({"dst"}, last) \in Seq(Steps) /\ Len(chainsAddDirCmd({"dst"}, last)) = 4
    BY <2>2 DEF chainsAddDirCmd, Rewrite
  <2>4. \A i \in 1..4 : chainsAddDirCmd({"dst"}, last)[i] = todo[i]
    BY <2>2 DEF chainsAddDirCmd, Rewrite
  <2> QED
    BY <2>1, <2>3, <2>4, SeqEqual
<1>1. todo \in Seq(Steps) /\ DOMAIN todo = 1..4 /\ todo # <<>>
  BY StepType, ConstantTypes DEF StepKinds, Chains
<1>2. \A i, j \in DOMAIN todo : i < j => Precedes(todo[i], todo[j])
  BY <1>1 DEF Plain, At, With, Precedes
<1>3. \A i \in DOMAIN todo : i + 1 \in DOMAIN todo => Adjoins(todo[i], todo[i + 1])
  BY <1>1 DEF Plain, At, With, Adjoins
<1>4. \A i \in DOMAIN todo :
         todo[i].do \in {"open", "sync", "create", "truncate"} => i + 1 \in DOMAIN todo
  BY <1>1 DEF Plain, At, With
<1>5. \A i \in DOMAIN todo : todo[i].do = "send" =>
         \E j \in DOMAIN todo : todo[j].do = "sync" /\ todo[j].at = todo[i].at
  BY <1>1 DEF Plain, At, With
<1>6. \A i \in DOMAIN todo : Fits(todo[i], ours)
  BY <1>1, ConstantTypes DEF Plain, At, With, Fits
<1>7. Head(todo).do = "load"
  BY DEF Plain, At
<1>8. Allowed(todo, ours)
  <2> HIDE DEF todo
  <2> QED
    BY <1>1, <1>2, <1>3, <1>4, <1>5, <1>6, AllowedBy
<1> QED
  BY <1>0, <1>1, <1>7, <1>8 DEF Startable

\* chains add-dir with a file for each chain.
LEMMA AddBothCommand ==
    ASSUME NEW last \in Nat
    PROVE  Startable(chainsAddDirCmd(Chains, last))
<1> DEFINE todo == <<Plain("load"), At("addChain", "src"), With("addChain", "dst", last),
                      Plain("truncate"), Plain("write")>>
<1>0. chainsAddDirCmd(Chains, last) = todo
  <2>1. todo \in Seq(Steps) /\ Len(todo) = 5
    BY StepType, ConstantTypes DEF StepKinds, Chains
  <2>2. /\ <<Plain("load")>> \in Seq(Steps)
        /\ <<At("addChain", "src")>> \in Seq(Steps)
        /\ <<With("addChain", "dst", last)>> \in Seq(Steps)
        /\ <<Plain("truncate"), Plain("write")>> \in Seq(Steps)
    BY StepType, ConstantTypes DEF StepKinds, Chains
  <2>3. chainsAddDirCmd(Chains, last) \in Seq(Steps) /\ Len(chainsAddDirCmd(Chains, last)) = 5
    BY <2>2 DEF chainsAddDirCmd, Rewrite, Chains
  <2>4. \A i \in 1..5 : chainsAddDirCmd(Chains, last)[i] = todo[i]
    BY <2>2 DEF chainsAddDirCmd, Rewrite, Chains
  <2> QED
    BY <2>1, <2>3, <2>4, SeqEqual
<1>1. todo \in Seq(Steps) /\ DOMAIN todo = 1..5 /\ todo # <<>>
  BY StepType, ConstantTypes DEF StepKinds, Chains
<1>2. \A i, j \in DOMAIN todo : i < j => Precedes(todo[i], todo[j])
  BY <1>1 DEF Plain, At, With, Precedes
<1>3. \A i \in DOMAIN todo : i + 1 \in DOMAIN todo => Adjoins(todo[i], todo[i + 1])
  BY <1>1 DEF Plain, At, With, Adjoins
<1>4. \A i \in DOMAIN todo :
         todo[i].do \in {"open", "sync", "create", "truncate"} => i + 1 \in DOMAIN todo
  BY <1>1 DEF Plain, At, With
<1>5. \A i \in DOMAIN todo : todo[i].do = "send" =>
         \E j \in DOMAIN todo : todo[j].do = "sync" /\ todo[j].at = todo[i].at
  BY <1>1 DEF Plain, At, With
<1>6. \A i \in DOMAIN todo : Fits(todo[i], ours)
  BY <1>1, ConstantTypes DEF Plain, At, With, Fits
<1>7. Head(todo).do = "load"
  BY DEF Plain, At
<1>8. Allowed(todo, ours)
  <2> HIDE DEF todo
  <2> QED
    BY <1>1, <1>2, <1>3, <1>4, <1>5, <1>6, AllowedBy
<1> QED
  BY <1>0, <1>1, <1>7, <1>8 DEF Startable

\* No client is created or recorded but for the ends that have none.
CreatesFor(todo, missing) ==
    \A i \in DOMAIN todo :
        /\ todo[i].do # "check"
        /\ todo[i].do \in {"send", "sync"} => todo[i].at \in missing

\* The rest of tx clients when src has no client.
LEMMA CreateOnSrc ==
    ASSUME NEW h \in Heights
    PROVE  /\ Allowed(CreateClients({"src"}, h), ours) /\ CreateClients({"src"}, h) # <<>>
           /\ Head(CreateClients({"src"}, h)).do \in {"open", "send"}
           /\ CreatesFor(CreateClients({"src"}, h), {"src"})
<1> DEFINE todo == <<At("open", "dst"), With("update", "dst", h), At("send", "src"),
                      Plain("success"), At("sync", "src"), Plain("truncate"),
                      Plain("write")>>
<1>0. CreateClients({"src"}, h) = todo
  <2>1. todo \in Seq(Steps) /\ Len(todo) = 7
    BY StepType, ConstantTypes DEF StepKinds, Chains
  <2>2. /\ <<At("open", "dst"), With("update", "dst", h)>> \in Seq(Steps)
        /\ <<At("send", "src")>> \in Seq(Steps)
        /\ <<Plain("success")>> \in Seq(Steps)
        /\ <<At("sync", "src"), Plain("truncate"), Plain("write")>> \in Seq(Steps)
    BY StepType, ConstantTypes DEF StepKinds, Chains
  <2>3. CreateClients({"src"}, h) \in Seq(Steps) /\ Len(CreateClients({"src"}, h)) = 7
    BY <2>2 DEF CreateClients, CreateInitialLightClientState,
           SyncChainConfigsFromEvents, Rewrite
  <2>4. \A i \in 1..7 : CreateClients({"src"}, h)[i] = todo[i]
    BY <2>2 DEF CreateClients, CreateInitialLightClientState,
           SyncChainConfigsFromEvents, Rewrite
  <2> QED
    BY <2>1, <2>3, <2>4, SeqEqual
<1>1. todo \in Seq(Steps) /\ DOMAIN todo = 1..7 /\ todo # <<>>
  BY StepType, ConstantTypes DEF StepKinds, Chains
<1>2. \A i, j \in DOMAIN todo : i < j => Precedes(todo[i], todo[j])
  BY <1>1 DEF Plain, At, With, Precedes
<1>3. \A i \in DOMAIN todo : i + 1 \in DOMAIN todo => Adjoins(todo[i], todo[i + 1])
  BY <1>1 DEF Plain, At, With, Adjoins
<1>4. \A i \in DOMAIN todo :
         todo[i].do \in {"open", "sync", "create", "truncate"} => i + 1 \in DOMAIN todo
  BY <1>1 DEF Plain, At, With
<1>5. \A i \in DOMAIN todo : todo[i].do = "send" =>
         \E j \in DOMAIN todo : todo[j].do = "sync" /\ todo[j].at = todo[i].at
  BY <1>1 DEF Plain, At, With
<1>6. \A i \in DOMAIN todo : Fits(todo[i], ours)
  BY <1>1, ConstantTypes DEF Plain, At, With, Fits
<1>7. Head(todo).do \in {"open", "send"}
  BY DEF Plain, At
<1>8. Allowed(todo, ours)
  <2> HIDE DEF todo
  <2> QED
    BY <1>1, <1>2, <1>3, <1>4, <1>5, <1>6, AllowedBy
<1>9. CreatesFor(todo, {"src"})
  BY <1>1 DEF Plain, At, With, CreatesFor, Chains
<1> QED
  BY <1>0, <1>1, <1>7, <1>8, <1>9

\* The rest of tx clients when dst has no client.
LEMMA CreateOnDst ==
    ASSUME NEW h \in Heights
    PROVE  /\ Allowed(CreateClients({"dst"}, h), ours) /\ CreateClients({"dst"}, h) # <<>>
           /\ Head(CreateClients({"dst"}, h)).do \in {"open", "send"}
           /\ CreatesFor(CreateClients({"dst"}, h), {"dst"})
<1> DEFINE todo == <<At("open", "src"), With("update", "src", h), At("send", "dst"),
                      Plain("success"), At("sync", "dst"), Plain("truncate"),
                      Plain("write")>>
<1>0. CreateClients({"dst"}, h) = todo
  <2>1. todo \in Seq(Steps) /\ Len(todo) = 7
    BY StepType, ConstantTypes DEF StepKinds, Chains
  <2>2. /\ <<At("open", "src"), With("update", "src", h)>> \in Seq(Steps)
        /\ <<At("send", "dst")>> \in Seq(Steps)
        /\ <<Plain("success")>> \in Seq(Steps)
        /\ <<At("sync", "dst"), Plain("truncate"), Plain("write")>> \in Seq(Steps)
    BY StepType, ConstantTypes DEF StepKinds, Chains
  <2>3. CreateClients({"dst"}, h) \in Seq(Steps) /\ Len(CreateClients({"dst"}, h)) = 7
    BY <2>2 DEF CreateClients, CreateInitialLightClientState,
           SyncChainConfigsFromEvents, Rewrite
  <2>4. \A i \in 1..7 : CreateClients({"dst"}, h)[i] = todo[i]
    BY <2>2 DEF CreateClients, CreateInitialLightClientState,
           SyncChainConfigsFromEvents, Rewrite
  <2> QED
    BY <2>1, <2>3, <2>4, SeqEqual
<1>1. todo \in Seq(Steps) /\ DOMAIN todo = 1..7 /\ todo # <<>>
  BY StepType, ConstantTypes DEF StepKinds, Chains
<1>2. \A i, j \in DOMAIN todo : i < j => Precedes(todo[i], todo[j])
  BY <1>1 DEF Plain, At, With, Precedes
<1>3. \A i \in DOMAIN todo : i + 1 \in DOMAIN todo => Adjoins(todo[i], todo[i + 1])
  BY <1>1 DEF Plain, At, With, Adjoins
<1>4. \A i \in DOMAIN todo :
         todo[i].do \in {"open", "sync", "create", "truncate"} => i + 1 \in DOMAIN todo
  BY <1>1 DEF Plain, At, With
<1>5. \A i \in DOMAIN todo : todo[i].do = "send" =>
         \E j \in DOMAIN todo : todo[j].do = "sync" /\ todo[j].at = todo[i].at
  BY <1>1 DEF Plain, At, With
<1>6. \A i \in DOMAIN todo : Fits(todo[i], ours)
  BY <1>1, ConstantTypes DEF Plain, At, With, Fits
<1>7. Head(todo).do \in {"open", "send"}
  BY DEF Plain, At
<1>8. Allowed(todo, ours)
  <2> HIDE DEF todo
  <2> QED
    BY <1>1, <1>2, <1>3, <1>4, <1>5, <1>6, AllowedBy
<1>9. CreatesFor(todo, {"dst"})
  BY <1>1 DEF Plain, At, With, CreatesFor, Chains
<1> QED
  BY <1>0, <1>1, <1>7, <1>8, <1>9

\* The rest of tx clients when both chains have none.
LEMMA CreateOnBoth ==
    ASSUME NEW h \in Heights
    PROVE  /\ Allowed(CreateClients(Chains, h), ours) /\ CreateClients(Chains, h) # <<>>
           /\ Head(CreateClients(Chains, h)).do \in {"open", "send"}
           /\ CreatesFor(CreateClients(Chains, h), Chains)
<1> DEFINE todo == <<At("open", "dst"), With("update", "dst", h), At("open", "src"),
                      With("update", "src", h), At("send", "src"), At("send", "dst"),
                      Plain("success"), At("sync", "src"), Plain("truncate"),
                      Plain("write"), At("sync", "dst"), Plain("truncate"),
                      Plain("write")>>
<1>0. CreateClients(Chains, h) = todo
  <2>1. todo \in Seq(Steps) /\ Len(todo) = 13
    BY StepType, ConstantTypes DEF StepKinds, Chains
  <2>2. /\ <<At("open", "dst"), With("update", "dst", h)>> \in Seq(Steps)
        /\ <<At("open", "src"), With("update", "src", h)>> \in Seq(Steps)
        /\ <<At("send", "src")>> \in Seq(Steps)
        /\ <<At("send", "dst")>> \in Seq(Steps)
        /\ <<Plain("success")>> \in Seq(Steps)
        /\ <<At("sync", "src"), Plain("truncate"), Plain("write")>> \in Seq(Steps)
        /\ <<At("sync", "dst"), Plain("truncate"), Plain("write")>> \in Seq(Steps)
    BY StepType, ConstantTypes DEF StepKinds, Chains
  <2>3. CreateClients(Chains, h) \in Seq(Steps) /\ Len(CreateClients(Chains, h)) = 13
    BY <2>2 DEF CreateClients, CreateInitialLightClientState,
           SyncChainConfigsFromEvents, Rewrite, Chains
  <2>4. \A i \in 1..13 : CreateClients(Chains, h)[i] = todo[i]
    BY <2>2 DEF CreateClients, CreateInitialLightClientState,
           SyncChainConfigsFromEvents, Rewrite, Chains
  <2> QED
    BY <2>1, <2>3, <2>4, SeqEqual
<1>1. todo \in Seq(Steps) /\ DOMAIN todo = 1..13 /\ todo # <<>>
  BY StepType, ConstantTypes DEF StepKinds, Chains
<1>2. \A i, j \in DOMAIN todo : i < j => Precedes(todo[i], todo[j])
  BY <1>1 DEF Plain, At, With, Precedes
<1>3. \A i \in DOMAIN todo : i + 1 \in DOMAIN todo => Adjoins(todo[i], todo[i + 1])
  BY <1>1 DEF Plain, At, With, Adjoins
<1>4. \A i \in DOMAIN todo :
         todo[i].do \in {"open", "sync", "create", "truncate"} => i + 1 \in DOMAIN todo
  BY <1>1 DEF Plain, At, With
<1>5. \A i \in DOMAIN todo : todo[i].do = "send" =>
         \E j \in DOMAIN todo : todo[j].do = "sync" /\ todo[j].at = todo[i].at
  BY <1>1 DEF Plain, At, With
<1>6. \A i \in DOMAIN todo : Fits(todo[i], ours)
  BY <1>1, ConstantTypes DEF Plain, At, With, Fits
<1>7. Head(todo).do \in {"open", "send"}
  BY DEF Plain, At
<1>8. Allowed(todo, ours)
  <2> HIDE DEF todo
  <2> QED
    BY <1>1, <1>2, <1>3, <1>4, <1>5, <1>6, AllowedBy
<1>9. CreatesFor(todo, Chains)
  BY <1>1 DEF Plain, At, With, CreatesFor, Chains
<1> QED
  BY <1>0, <1>1, <1>7, <1>8, <1>9

\* Every command the orchestrator runs has such a list ...
LEMMA WantedStartable ==
    ASSUME TypeOK, NEW todo \in Wanted
    PROVE  Startable(todo)
<1>1. CASE file.state = "missing"
  BY <1>1, InitCommand DEF Wanted
<1>2. CASE file.state # "missing" /\ file.state # "torn"
  <2>1. CASE file.config.chains # Chains
    <3>1. todo = chainsAddDirCmd(Chains \ file.config.chains, ValidFile) /\ ValidFile \in Nat
      BY <1>2, <2>1 DEF Wanted, ValidFile
    <3>2. Chains \ file.config.chains \in {{}, {"src"}, {"dst"}, Chains}
      BY DEF Chains
    <3>3. CASE Chains \ file.config.chains = {}
      BY <2>1, <3>3 DEF Chains, TypeOK, Files, Configs
    <3> QED
      BY <3>1, <3>2, <3>3, AddSrcCommand, AddDstCommand, AddBothCommand
  <2>2. CASE file.config.chains = Chains /\ keys # Chains
    BY <1>2, <2>2, KeysCommand DEF Wanted
  <2>3. CASE /\ file.config.chains = Chains /\ keys = Chains
             /\ {c \in Chains : light[c] = {}} # {}
    BY <1>2, <2>3, LightInitCommand, ConstantTypes DEF Wanted
  <2>4. CASE /\ file.config.chains = Chains /\ keys = Chains
             /\ {c \in Chains : light[c] = {}} = {}
    BY <1>2, <2>4, PathsAddCommand, CreateCommand, ConstantTypes DEF Wanted
  <2> QED
    BY <2>1, <2>2, <2>3, <2>4
<1> QED
  BY <1>1, <1>2 DEF Wanted

\* ... and so has every command an operator types.
LEMMA TypedStartable ==
    ASSUME TypeOK, NEW todo \in Typed
    PROVE  Startable(todo)
<1>1. 0..now \subseteq Heights /\ \A c \in Chains : ours[c] \subseteq Nat
  BY ConstantTypes DEF TypeOK, Heights
<1>2. CASE todo \in {configInitCmd, pathsAddCmd, userInputPathAdd, updateClientsCmd}
  BY <1>2, InitCommand, PathsAddCommand, PathsTypedCommand, UpdateCommand
<1>3. CASE todo \in {chainsAddDirCmd({"src"}, ValidFile), chainsAddDirCmd(Chains, ValidFile),
                     chainsAddDirCmd(Chains, InvalidFile)}
  BY <1>3, AddSrcCommand, AddBothCommand DEF ValidFile, InvalidFile
<1>4. CASE todo \in {keysAddCmd(c) : c \in Chains}
  BY <1>4, KeysCommand
<1>5. CASE todo \in {pathsEditCmd(c, id) : c \in Chains, id \in {NoId, Typo}}
  BY <1>5, PathsEditCommand, ConstantTypes
<1>6. CASE todo \in UNION {{pathsEditCmd(c, id) : id \in ours[c]} : c \in Chains}
  <2>1. PICK c \in Chains : todo \in {pathsEditCmd(c, id) : id \in ours[c]}
    BY <1>6
  <2>2. PICK id \in ours[c] : todo = pathsEditCmd(c, id)
    BY <2>1
  <2> QED
    BY <1>1, <2>2, PathsEditCommand
<1>7. CASE todo \in {createClientsCmd(h) : h \in 0..now}
  BY <1>1, <1>7, CreateCommand
<1>8. CASE todo \in {initLightCmd(c, h) : c \in Chains, h \in 0..now}
  BY <1>1, <1>8, LightInitCommand
<1>9. CASE todo \in UNION {{updateLightCmd(c), lightHeaderCmd(c), deleteLightCmd(c)} :
                          c \in Chains}
  BY <1>9, LightUpdateCommand, LightHeaderCommand, LightDeleteCommand
<1> QED
  BY <1>2, <1>3, <1>4, <1>5, <1>6, <1>7, <1>8, <1>9 DEF Typed

-----------------------------------------------------------------------------
(* Types and identifiers *)

ProcType == [todo : Seq(Steps), mem : Configs, db : SUBSET Heights, failed : BOOLEAN,
             header : [Chains -> Heights], got : [Chains -> 0..MaxClients]]

\* Every list is allowed.
Lists == \A p \in Procs : Allowed(proc[p].todo, ours)

\* A process that does not run, and one that has read nothing yet, hold nothing.
NewProcs ==
    \A p \in Procs :
        /\ ~Running(p) => proc[p] = Idle
        /\ IsNext(p, "load") => proc[p] = [Idle EXCEPT !.todo = proc[p].todo]

\* An identifier that came with a message's events is of a client created by it.
GotOurs == \A p \in Procs, c \in Chains : proc[p].got[c] \in {NoId} \cup ours[c]

TypeInv == TypeOK /\ Lists /\ NewProcs /\ GotOurs /\ IdsAreOurs

\* A terminal without a command, and the configuration of a new file.
LEMMA IdleType ==
    /\ Idle \in ProcType /\ Idle.todo = <<>> 
    /\ \A known : Allowed(<<>>, known)
    /\ Idle.mem.path = NewPath /\ ~Idle.mem.known /\ Idle.mem.chains = {}
    /\ \A c \in Chains : Idle.got[c] = NoId /\ Idle.mem.path[c] = NoId
    /\ defaultConfig \in Configs /\ NewPath \in [Chains -> 0..Typo] /\ MistypedPath \in [Chains -> 0..Typo]
<1>1. defaultConfig \in Configs /\ NewPath \in [Chains -> 0..Typo] /\ MistypedPath \in [Chains -> 0..Typo]
  BY ConstantTypes DEF defaultConfig, Configs, NewPath, MistypedPath
<1>2. [c \in Chains |-> 0] \in [Chains -> Heights] /\ [c \in Chains |-> NoId] \in [Chains -> 0..MaxClients]
  BY ConstantTypes
<1>3. Idle \in ProcType
  BY <1>1, <1>2 DEF Idle, ProcType
<1>4. \A known : Allowed(<<>>, known)
  BY DEF Allowed, WellFormed
<1> QED
  BY <1>1, <1>3, <1>4 DEF Idle, defaultConfig, NewPath

\* The fields a step of p leaves in its process.
Holds(p, new) ==
    /\ proc'[p].todo = Tail(proc[p].todo) /\ Len(proc[p].todo) # 1
    /\ proc'[p].mem = new.mem /\ proc'[p].db = new.db /\ proc'[p].failed = new.failed
    /\ proc'[p].header = new.header /\ proc'[p].got = new.got

OthersKept(p) == \A q \in Procs : q # p => proc'[q] = proc[q]

\* A step ends the process or leaves it with the rest of its list.
LEMMA ContinueStep ==
    ASSUME TypeOK, NEW p \in Procs, Running(p), NEW new \in ProcType, Continue(p, new)
    PROVE  /\ proc' \in [Procs -> ProcType] /\ OthersKept(p)
           /\ \/ proc'[p] = Idle /\ Len(proc[p].todo) = 1
              \/ Holds(p, new)
<1>1. proc \in [Procs -> ProcType] /\ Tail(proc[p].todo) \in Seq(Steps)
  BY DEF TypeOK, ProcType, Running
<1>2. CASE Len(proc[p].todo) = 1
  BY <1>1, <1>2, IdleType DEF Continue, Abort, OthersKept
<1>3. CASE Len(proc[p].todo) # 1
  <2>1. proc' = [proc EXCEPT ![p] = [new EXCEPT !.todo = Tail(proc[p].todo)]]
    BY <1>3 DEF Continue, Advance
  <2>2. [new EXCEPT !.todo = Tail(proc[p].todo)] \in ProcType
    BY <1>1 DEF ProcType
  <2> QED
    BY <1>1, <1>3, <2>1, <2>2 DEF Holds, ProcType, OthersKept
<1> QED
  BY <1>2, <1>3

\* A process that gives up.
LEMMA AbortStep ==
    ASSUME TypeOK, NEW p \in Procs, Abort(p)
    PROVE  proc' \in [Procs -> ProcType] /\ OthersKept(p) /\ proc'[p] = Idle
<1>1. proc \in [Procs -> ProcType]
  BY DEF TypeOK, ProcType
<1> QED
  BY <1>1, IdleType DEF Abort, OthersKept

\* A list stays allowed when clients are created.
LEMMA AllowedMore ==
    ASSUME NEW todo, NEW known, NEW more, Allowed(todo, known),
           \A c \in Chains : known[c] \subseteq more[c]
    PROVE  Allowed(todo, more)
<1>1. \A i \in DOMAIN todo : todo[i].at \in Chains
  BY ListFacts
<1> QED
  BY <1>1 DEF Allowed, Fits

\* The lists and the identifiers after a step of p.
LEMMA ProcsKept ==
    ASSUME TypeInv, NEW p \in Procs, Running(p), OthersKept(p), proc' \in [Procs -> ProcType],
           NEW new \in ProcType, proc'[p] = Idle \/ Holds(p, new),
           \A c \in Chains : ours[c] \subseteq ours'[c],
           \A c \in Chains : new.got[c] \in {NoId} \cup ours'[c],
           \A c \in Chains : new.mem.path[c] \in {NoId, Typo} \cup ours'[c],
           \A c \in Chains : file'.config.path[c] \in {NoId, Typo} \cup ours'[c]
    PROVE  Lists' /\ NewProcs' /\ GotOurs' /\ IdsAreOurs'
<1>1. Allowed(proc'[p].todo, ours)
  BY IdleType, TailAllowed DEF TypeInv, Lists, Holds, Running
<1>2. Lists'
  BY <1>1, AllowedMore DEF Lists, TypeInv, OthersKept
<1>3. ~ (IsNext(p, "load")') /\ (~Running(p)' => proc'[p] = Idle)
  <2>1. CASE proc'[p] = Idle
    BY <2>1, IdleType DEF IsNext, Running
  <2>2. CASE Holds(p, new)
    <3>1. Allowed(proc[p].todo, ours) /\ proc[p].todo # <<>>
      BY DEF TypeInv, Lists, Running
    <3>2. /\ proc'[p].todo # <<>> /\ Head(proc'[p].todo) = proc[p].todo[2]
          /\ proc[p].todo[2].do # "load"
      BY <2>2, <3>1, ListFacts DEF Holds, Precedes
    <3> QED
      BY <3>2 DEF IsNext, Running
  <2> QED
    BY <2>1, <2>2
<1>4. NewProcs'
  BY <1>3 DEF NewProcs, TypeInv, OthersKept, IsNext, Running
<1>5. GotOurs'
  BY IdleType DEF GotOurs, TypeInv, OthersKept, Holds
<1>6. IdsAreOurs'
  <2>1. ASSUME NEW q \in Procs, NEW c \in Chains
        PROVE  proc'[q].mem.path[c] \in {NoId, Typo} \cup ours'[c]
    BY IdleType DEF TypeInv, IdsAreOurs, Copies, OthersKept, Holds
  <2> QED
    BY <2>1 DEF IdsAreOurs, Copies
<1> QED
  BY <1>2, <1>4, <1>5, <1>6


\* The same for a step that goes on or gives up.
LEMMA StepKept ==
    ASSUME TypeInv, NEW p \in Procs, Running(p), NEW new \in ProcType,
           Continue(p, new) \/ Abort(p),
           \A c \in Chains : ours[c] \subseteq ours'[c],
           \A c \in Chains : new.got[c] \in {NoId} \cup ours'[c],
           \A c \in Chains : new.mem.path[c] \in {NoId, Typo} \cup ours'[c],
           \A c \in Chains : file'.config.path[c] \in {NoId, Typo} \cup ours'[c]
    PROVE  proc' \in [Procs -> ProcType] /\ Lists' /\ NewProcs' /\ GotOurs' /\ IdsAreOurs'
<1>1. OthersKept(p) /\ proc' \in [Procs -> ProcType] /\ (proc'[p] = Idle \/ Holds(p, new))
  BY ContinueStep, AbortStep DEF TypeInv
<1> QED
  BY <1>1, ProcsKept

\* A step that changes none of the identifiers.
LEMMA PlainKept ==
    ASSUME TypeInv, NEW p \in Procs, Running(p), NEW new \in ProcType,
           new.got = proc[p].got, new.mem.path = proc[p].mem.path,
           Continue(p, new) \/ Abort(p), UNCHANGED <<file, ours>>
    PROVE  proc' \in [Procs -> ProcType] /\ Lists' /\ NewProcs' /\ GotOurs' /\ IdsAreOurs'
<1>1. \A c \in Chains : proc[p].got[c] \in {NoId} \cup ours[c]
  BY DEF TypeInv, GotOurs
<1>2. \A c \in Chains : /\ proc[p].mem.path[c] \in {NoId, Typo} \cup ours[c]
                        /\ file.config.path[c] \in {NoId, Typo} \cup ours[c]
  BY DEF TypeInv, IdsAreOurs, Copies
<1> QED
  BY <1>1, <1>2, StepKept

\* The process that takes a step, and the step.
LEMMA TakenStep ==
    ASSUME TypeInv, NEW p \in Procs, NEW do, IsNext(p, do)
    PROVE  /\ Running(p) /\ proc[p] \in ProcType /\ proc \in [Procs -> ProcType]
           /\ Place(p) \in Chains /\ Arg(p) \in Nat
           /\ Fits(Head(proc[p].todo), ours) /\ Head(proc[p].todo).do = do
           /\ Head(proc[p].todo) = proc[p].todo[1] /\ 1 \in DOMAIN proc[p].todo
<1>1. Running(p) /\ proc[p] \in ProcType /\ proc \in [Procs -> ProcType] /\ Allowed(proc[p].todo, ours)
  BY DEF IsNext, TypeInv, TypeOK, ProcType, Lists
<1>2. 1 \in DOMAIN proc[p].todo /\ Head(proc[p].todo) = proc[p].todo[1]
  BY <1>1, ListFacts DEF Running
<1>3. proc[p].todo[1] \in Steps /\ Fits(proc[p].todo[1], ours)
  BY <1>1, <1>2, ListFacts DEF Allowed
<1> QED
  BY <1>1, <1>2, <1>3 DEF IsNext, Place, Arg, Steps

\* Closing a database keeps the heights and the locks.
LEMMA CloseType ==
    ASSUME TypeOK, NEW p \in Procs, Place(p) \in Chains, NEW db \in SUBSET Heights, Close(p, db)
    PROVE  light' \in [Chains -> SUBSET Heights] /\ lock' \in [Chains -> Procs \cup {Nobody}]
  BY DEF TypeOK, Close, Release

\* The next identifier is one.
LEMMA NextIdType ==
    ASSUME TypeOK, NEW c \in Chains, \E i \in Ids : clients[c][i] = 0
    PROVE  NextId(c) \in Ids /\ clients[c][NextId(c)] = 0
<1>1. NextId(c) \in {i \in Ids : clients[c][i] = 0}
  BY MinIn, ConstantTypes DEF NextId
<1> QED
  BY <1>1

\* Executing MsgCreateClient.
LEMMA ExecuteType ==
    ASSUME TypeOK, NEW p \in Procs, Place(p) \in Chains, proc[p] \in ProcType,
           \E i \in Ids : clients[Place(p)][i] = 0, Execute(p)
    PROVE  /\ clients' \in [Chains -> [Ids -> Heights]] /\ ours' \in [Chains -> SUBSET Ids]
           /\ \A c \in Chains : ours[c] \subseteq ours'[c]
           /\ NextId(Place(p)) \in Ids /\ NextId(Place(p)) \in ours'[Place(p)]
<1>1. NextId(Place(p)) \in Ids
  BY NextIdType
<1>2. Other(Place(p)) \in Chains /\ proc[p].header[Other(Place(p))] \in Heights
  BY DEF Other, Chains, ProcType
<1> QED
  BY <1>1, <1>2 DEF Execute, TypeOK


\* A process with another copy of the configuration.
LEMMA NewMem ==
    ASSUME NEW r \in ProcType, NEW m \in Configs
    PROVE  /\ [r EXCEPT !.mem = m] \in ProcType
           /\ [r EXCEPT !.mem = m].mem = m /\ [r EXCEPT !.mem = m].got = r.got
           /\ [r EXCEPT !.mem = m].failed = r.failed /\ [r EXCEPT !.mem = m].todo = r.todo
           /\ [r EXCEPT !.mem = m].db = r.db
  BY DEF ProcType

\* The commands' steps on the configuration file keep the types.
LEMMA TypeFile ==
    ASSUME TypeInv, NEW p \in Procs,
           Load(p) \/ Stat(p) \/ CreateConfig(p) \/ AddChain(p) \/ AddPath(p) \/ Edit(p) \/ Truncate(p) \/ Write(p)
    PROVE  TypeInv'
<1>0. /\ proc \in [Procs -> ProcType] /\ file \in Files /\ file.config \in Configs /\ proc[p].mem \in Configs
      /\ \A c \in Chains : proc[p].got[c] \in {NoId} \cup ours[c]
      /\ \A c \in Chains : proc[p].mem.path[c] \in {NoId, Typo} \cup ours[c]
      /\ \A c \in Chains : file.config.path[c] \in {NoId, Typo} \cup ours[c]
  BY DEF TypeInv, TypeOK, ProcType, Files, GotOurs, IdsAreOurs, Copies
<1>1. CASE Load(p)
  <2> DEFINE new == [proc[p] EXCEPT !.mem = UnmarshalConfig]
  <2>1. UnmarshalConfig \in Configs /\ \A c \in Chains : UnmarshalConfig.path[c] \in {NoId, Typo} \cup ours[c]
    BY <1>0, IdleType DEF UnmarshalConfig, Files, defaultConfig, NewPath
  <2>2. new \in ProcType /\ new.got = proc[p].got /\ new.mem = UnmarshalConfig
    BY <1>0, <2>1 DEF ProcType
  <2>3. Running(p) /\ UNCHANGED <<file, ours>> /\ (Continue(p, new) \/ Abort(p))
    BY <1>1 DEF Load, IsNext
  <2>4. proc' \in [Procs -> ProcType] /\ Lists' /\ NewProcs' /\ GotOurs' /\ IdsAreOurs'
    <3> HIDE DEF new
    <3> QED
      BY <1>0, <2>1, <2>2, <2>3, StepKept
  <2> QED
    BY <1>1, <2>4 DEF TypeInv, TypeOK, ProcType, Load
<1>s. CASE Stat(p)
  <2>1. Running(p) /\ UNCHANGED <<file, ours>> /\ (Continue(p, proc[p]) \/ Abort(p))
    BY <1>s DEF Stat, IsNext
  <2>2. proc' \in [Procs -> ProcType] /\ Lists' /\ NewProcs' /\ GotOurs' /\ IdsAreOurs'
    BY <1>0, <2>1, StepKept
  <2> QED
    BY <1>s, <2>2 DEF TypeInv, TypeOK, ProcType, Stat
<1>2. CASE CreateConfig(p)
  <2> DEFINE new == [proc[p] EXCEPT !.mem = defaultConfig]
  <2>1. new \in ProcType /\ new.got = proc[p].got /\ \A c \in Chains : new.mem.path[c] = NoId
    BY <1>0, IdleType DEF ProcType, defaultConfig, NewPath
  <2>2. Running(p) /\ UNCHANGED ours /\ (Continue(p, new) \/ Abort(p))
    BY <1>2 DEF CreateConfig, IsNext
  <2>3. file' \in Files /\ file'.config = file.config
    BY <1>0, <1>2 DEF CreateConfig, Files
  <2>4. proc' \in [Procs -> ProcType] /\ Lists' /\ NewProcs' /\ GotOurs' /\ IdsAreOurs'
    <3> HIDE DEF new
    <3> QED
      BY <1>0, <2>1, <2>2, <2>3, StepKept
  <2> QED
    BY <1>2, <2>3, <2>4 DEF TypeInv, TypeOK, ProcType, CreateConfig
<1>3. CASE AddChain(p)
  <2> DEFINE new == [proc[p] EXCEPT !.mem.chains = @ \cup {Place(p)}]
  <2>1. Running(p) /\ Place(p) \in Chains
    BY <1>3, TakenStep DEF AddChain
  <2>2. new \in ProcType /\ new.got = proc[p].got /\ new.mem.path = proc[p].mem.path
    <3> DEFINE m == [proc[p].mem EXCEPT !.chains = @ \cup {Place(p)}]
    <3>1. m \in Configs /\ m.path = proc[p].mem.path
      BY <1>0, <2>1 DEF Configs
    <3>2. new = [proc[p] EXCEPT !.mem = m]
      OBVIOUS
    <3> HIDE DEF m, new
    <3> QED
      BY <1>0, <3>1, <3>2, NewMem
  <2>3. UNCHANGED <<file, ours>> /\ (Continue(p, new) \/ Abort(p))
    BY <1>3 DEF AddChain
  <2>4. proc' \in [Procs -> ProcType] /\ Lists' /\ NewProcs' /\ GotOurs' /\ IdsAreOurs'
    <3> HIDE DEF new
    <3> QED
      BY <2>1, <2>2, <2>3, PlainKept
  <2> QED
    BY <1>3, <2>4 DEF TypeInv, TypeOK, ProcType, AddChain
<1>4. CASE AddPath(p)
  <2> DEFINE path == IF Arg(p) = Typo THEN MistypedPath ELSE NewPath
             new == [proc[p] EXCEPT !.mem.known = TRUE, !.mem.path = path]
  <2>1. path \in [Chains -> 0..Typo] /\ \A c \in Chains : path[c] \in {NoId, Typo}
    BY IdleType DEF MistypedPath, NewPath
  <2>2. new \in ProcType /\ new.got = proc[p].got /\ new.mem.path = path
    <3> DEFINE m == [proc[p].mem EXCEPT !.known = TRUE, !.path = path]
    <3>1. m \in Configs /\ m.path = path
      <4> HIDE DEF path
      <4> QED
        BY <1>0, <2>1 DEF Configs
    <3>2. new = [proc[p] EXCEPT !.mem = m]
      BY <1>0 DEF ProcType, Configs
    <3> HIDE DEF m, new
    <3> QED
      BY <1>0, <3>1, <3>2, NewMem
  <2>3. Running(p) /\ UNCHANGED <<file, ours>> /\ (Continue(p, new) \/ Abort(p))
    BY <1>4 DEF AddPath, IsNext
  <2>4. proc' \in [Procs -> ProcType] /\ Lists' /\ NewProcs' /\ GotOurs' /\ IdsAreOurs'
    <3> HIDE DEF new, path
    <3> QED
      BY <1>0, <2>1, <2>2, <2>3, StepKept
  <2> QED
    BY <1>4, <2>4 DEF TypeInv, TypeOK, ProcType, AddPath
<1>5. CASE Edit(p)
  <2> DEFINE new == [proc[p] EXCEPT !.mem.path[Place(p)] = Arg(p)]
  <2>1. Running(p) /\ Place(p) \in Chains /\ Arg(p) \in {NoId, Typo} \cup ours[Place(p)]
    BY <1>5, TakenStep DEF Edit, Fits, Place, Arg
  <2>2. Arg(p) \in 0..Typo
    BY <2>1, ConstantTypes DEF TypeInv, TypeOK
  <2>3. /\ new \in ProcType /\ new.got = proc[p].got
        /\ new.mem.path = [proc[p].mem.path EXCEPT ![Place(p)] = Arg(p)]
    <3> DEFINE m == [proc[p].mem EXCEPT !.path[Place(p)] = Arg(p)]
    <3>1. m \in Configs /\ m.path = [proc[p].mem.path EXCEPT ![Place(p)] = Arg(p)]
      BY <1>0, <2>1, <2>2 DEF Configs
    <3>2. new = [proc[p] EXCEPT !.mem = m]
      OBVIOUS
    <3> HIDE DEF m, new
    <3> QED
      BY <1>0, <3>1, <3>2, NewMem
  <2>4. \A c \in Chains : new.mem.path[c] \in {NoId, Typo} \cup ours[c]
    <3> HIDE DEF new
    <3> QED
      BY <1>0, <2>1, <2>3 DEF ProcType, Configs
  <2>5. UNCHANGED <<file, ours>> /\ (Continue(p, new) \/ Abort(p))
    BY <1>5 DEF Edit
  <2>6. proc' \in [Procs -> ProcType] /\ Lists' /\ NewProcs' /\ GotOurs' /\ IdsAreOurs'
    <3> HIDE DEF new
    <3> QED
      BY <1>0, <2>1, <2>3, <2>4, <2>5, StepKept
  <2> QED
    BY <1>5, <2>6 DEF TypeInv, TypeOK, ProcType, Edit
<1>6. CASE Truncate(p)
  <2>1. Running(p) /\ UNCHANGED ours /\ (Continue(p, proc[p]) \/ Abort(p))
    BY <1>6 DEF Truncate, IsNext
  <2>2. file' \in Files /\ file'.config = file.config
    BY <1>0, <1>6 DEF Truncate, Files
  <2>3. proc' \in [Procs -> ProcType] /\ Lists' /\ NewProcs' /\ GotOurs' /\ IdsAreOurs'
    BY <1>0, <2>1, <2>2, StepKept
  <2> QED
    BY <1>6, <2>2, <2>3 DEF TypeInv, TypeOK, ProcType, Truncate
<1>7. CASE Write(p)
  <2>1. Running(p) /\ UNCHANGED ours /\ Continue(p, proc[p])
    BY <1>7 DEF Write, IsNext
  <2>2. file' \in Files /\ file'.config = proc[p].mem
    BY <1>0, <1>7 DEF Write, Files
  <2>3. proc' \in [Procs -> ProcType] /\ Lists' /\ NewProcs' /\ GotOurs' /\ IdsAreOurs'
    BY <1>0, <2>1, <2>2, StepKept
  <2> QED
    BY <1>7, <2>2, <2>3 DEF TypeInv, TypeOK, ProcType, Write
<1> QED
  BY <1>s, <1>1, <1>2, <1>3, <1>4, <1>5, <1>6, <1>7

\* A budget that is spent.
LEMMA SpendType ==
    ASSUME left \in [hand : Nat, faults : Nat, busy : Nat]
    PROVE  /\ left.hand > 0 => [left EXCEPT !.hand = @ - 1] \in [hand : Nat, faults : Nat, busy : Nat]
           /\ left.faults > 0 => [left EXCEPT !.faults = @ - 1] \in [hand : Nat, faults : Nat, busy : Nat]
           /\ left.busy > 0 => [left EXCEPT !.busy = @ - 1] \in [hand : Nat, faults : Nat, busy : Nat]
<1>1. left.hand \in Nat /\ left.faults \in Nat /\ left.busy \in Nat
  OBVIOUS
<1>2. \A n \in Nat : n > 0 => n - 1 \in Nat
  OBVIOUS
<1> QED
  BY <1>1, <1>2

\* The steps on keyrings and light client databases keep the types.
LEMMA TypeLight ==
    ASSUME TypeInv, NEW p \in Procs,
           \/ UseChain(p) \/ AddKey(p) \/ NewLightDB(p) \/ UpdateLightClient(p)
           \/ Peek(p) \/ LightClientWithTrust(p) \/ DeleteLightDB(p)
    PROVE  TypeInv'
<1>0. TypeOK /\ proc[p] \in ProcType
  BY DEF TypeInv, TypeOK, ProcType
<1>e. [proc[p] EXCEPT !.db = {}] \in ProcType
  BY <1>0 DEF ProcType
<1>1. CASE UseChain(p)
  <2>1. Running(p) /\ UNCHANGED <<file, ours>> /\ (Continue(p, proc[p]) \/ Abort(p))
    BY <1>1 DEF UseChain, IsNext
  <2>2. proc' \in [Procs -> ProcType] /\ Lists' /\ NewProcs' /\ GotOurs' /\ IdsAreOurs'
    BY <1>0, <2>1, PlainKept
  <2> QED
    BY <1>1, <2>2 DEF TypeInv, TypeOK, ProcType, UseChain
<1>2. CASE AddKey(p)
  <2>1. Running(p) /\ Place(p) \in Chains
    BY <1>2, TakenStep DEF AddKey
  <2>2. UNCHANGED <<file, ours>> /\ Continue(p, proc[p])
    BY <1>2 DEF AddKey
  <2>3. proc' \in [Procs -> ProcType] /\ Lists' /\ NewProcs' /\ GotOurs' /\ IdsAreOurs'
    BY <1>0, <2>1, <2>2, PlainKept
  <2> QED
    BY <1>2, <2>1, <2>3 DEF TypeInv, TypeOK, ProcType, AddKey
<1>3. CASE NewLightDB(p)
  <2> DEFINE new == [proc[p] EXCEPT !.db = light[Place(p)]]
  <2>1. Running(p) /\ Place(p) \in Chains
    BY <1>3, TakenStep DEF NewLightDB
  <2>2. light[Place(p)] \in SUBSET Heights
    BY <2>1, <1>0 DEF TypeOK
  <2>3. new \in ProcType /\ new.got = proc[p].got /\ new.mem = proc[p].mem
    BY <1>0, <2>2 DEF ProcType
  <2>4. UNCHANGED <<file, ours>> /\ (Continue(p, new) \/ Abort(p))
    BY <1>3 DEF NewLightDB
  <2>5. proc' \in [Procs -> ProcType] /\ Lists' /\ NewProcs' /\ GotOurs' /\ IdsAreOurs'
    <3> HIDE DEF new
    <3> QED
      BY <2>1, <2>3, <2>4, PlainKept
  <2>6. lock' \in [Chains -> Procs \cup {Nobody}] /\ left' \in [hand : Nat, faults : Nat, busy : Nat]
    BY <1>0, <1>3, <2>1, SpendType DEF NewLightDB, TypeOK
  <2> QED
    BY <1>3, <2>5, <2>6 DEF TypeInv, TypeOK, ProcType, NewLightDB
<1>4. CASE UpdateLightClient(p)
  <2> DEFINE h == IF Arg(p) = 0 THEN now ELSE Arg(p)
             new == [proc[p] EXCEPT !.header[Place(p)] = h, !.db = {}]
  <2>1. /\ Running(p) /\ Place(p) \in Chains /\ Fits(Head(proc[p].todo), ours)
        /\ Head(proc[p].todo).do = "update"
    BY <1>4, TakenStep DEF UpdateLightClient
  <2>2. h \in Heights
    BY <1>0, <2>1 DEF TypeOK, Fits, Heights, Arg
  <2>3. new \in ProcType /\ new.got = proc[p].got /\ new.mem = proc[p].mem
    <3> HIDE DEF h
    <3> QED
      BY <1>0, <2>1, <2>2 DEF ProcType
  <2>4. UNCHANGED <<file, ours>> /\ (Continue(p, new) \/ Abort(p))
    BY <1>4 DEF UpdateLightClient
  <2>5. proc' \in [Procs -> ProcType] /\ Lists' /\ NewProcs' /\ GotOurs' /\ IdsAreOurs'
    <3> HIDE DEF new
    <3> QED
      BY <2>1, <2>3, <2>4, PlainKept
  <2>6. PICK db \in SUBSET Heights : Close(p, db)
    <3>1. proc[p].db \in SUBSET Heights /\ proc[p].db \cup {h} \in SUBSET Heights
      BY <1>0, <2>2 DEF ProcType
    <3>2. Close(p, proc[p].db \cup {h}) \/ Close(p, proc[p].db)
      BY <1>4 DEF UpdateLightClient
    <3> QED
      BY <3>1, <3>2
  <2>7. light' \in [Chains -> SUBSET Heights] /\ lock' \in [Chains -> Procs \cup {Nobody}]
    BY <1>0, <2>1, <2>6, CloseType
  <2> QED
    BY <1>4, <2>5, <2>7 DEF TypeInv, TypeOK, ProcType, UpdateLightClient
<1>5. CASE Peek(p)
  <2> DEFINE new == [proc[p] EXCEPT !.db = {}]
  <2>1. Running(p) /\ Place(p) \in Chains
    BY <1>5, TakenStep DEF Peek
  <2>2. new \in ProcType /\ new.got = proc[p].got /\ new.mem = proc[p].mem
    BY <1>0, <1>e DEF ProcType
  <2>3. UNCHANGED <<file, ours>> /\ (Continue(p, new) \/ Abort(p))
    BY <1>5 DEF Peek
  <2>4. proc' \in [Procs -> ProcType] /\ Lists' /\ NewProcs' /\ GotOurs' /\ IdsAreOurs'
    <3> HIDE DEF new
    <3> QED
      BY <2>1, <2>2, <2>3, PlainKept
  <2>5. proc[p].db \in SUBSET Heights /\ Close(p, proc[p].db)
    BY <1>0, <1>5 DEF ProcType, Peek
  <2>6. light' \in [Chains -> SUBSET Heights] /\ lock' \in [Chains -> Procs \cup {Nobody}]
    BY <1>0, <2>1, <2>5, CloseType
  <2> QED
    BY <1>5, <2>4, <2>6 DEF TypeInv, TypeOK, ProcType, Peek
<1>6. CASE LightClientWithTrust(p)
  <2> DEFINE new == [proc[p] EXCEPT !.db = {}]
             h == IF Arg(p) = 0 THEN now ELSE Arg(p)
  <2>1. /\ Running(p) /\ Place(p) \in Chains /\ Fits(Head(proc[p].todo), ours)
        /\ Head(proc[p].todo).do = "trust"
    BY <1>6, TakenStep DEF LightClientWithTrust
  <2>2. new \in ProcType /\ new.got = proc[p].got /\ new.mem = proc[p].mem
    BY <1>0, <1>e DEF ProcType
  <2>3. UNCHANGED <<file, ours>> /\ Continue(p, new)
    BY <1>6 DEF LightClientWithTrust
  <2>4. proc' \in [Procs -> ProcType] /\ Lists' /\ NewProcs' /\ GotOurs' /\ IdsAreOurs'
    <3> HIDE DEF new
    <3> QED
      BY <2>1, <2>2, <2>3, PlainKept
  <2>5. h \in Heights
    BY <1>0, <2>1 DEF TypeOK, Fits, Heights, Arg
  <2>6. NewClient(proc[p].db, h) \in SUBSET Heights
    <3> HIDE DEF h
    <3> QED
      BY <1>0, <2>5 DEF ProcType, NewClient
  <2>7. Close(p, NewClient(proc[p].db, h))
    BY <1>6 DEF LightClientWithTrust
  <2>8. light' \in [Chains -> SUBSET Heights] /\ lock' \in [Chains -> Procs \cup {Nobody}]
    BY <1>0, <2>1, <2>6, <2>7, CloseType
  <2> QED
    BY <1>6, <2>4, <2>8 DEF TypeInv, TypeOK, ProcType, LightClientWithTrust
<1>7. CASE DeleteLightDB(p)
  <2>1. Running(p) /\ Place(p) \in Chains
    BY <1>7, TakenStep DEF DeleteLightDB
  <2>2. UNCHANGED <<file, ours>> /\ Continue(p, proc[p])
    BY <1>7 DEF DeleteLightDB
  <2>3. proc' \in [Procs -> ProcType] /\ Lists' /\ NewProcs' /\ GotOurs' /\ IdsAreOurs'
    BY <1>0, <2>1, <2>2, PlainKept
  <2>4. light' \in [Chains -> SUBSET Heights] /\ lock' \in [Chains -> Procs \cup {Nobody}]
    BY <1>0, <1>7, <2>1 DEF DeleteLightDB, TypeOK
  <2> QED
    BY <1>7, <2>3, <2>4 DEF TypeInv, TypeOK, ProcType, DeleteLightDB
<1> QED
  BY <1>1, <1>2, <1>3, <1>4, <1>5, <1>6, <1>7

\* The list of tx clients after the check.
LEMMA CreateList ==
    ASSUME NEW missing \in SUBSET Chains, missing # {}, NEW h \in Heights
    PROVE  /\ Allowed(CreateClients(missing, h), ours) /\ CreateClients(missing, h) # <<>>
           /\ Head(CreateClients(missing, h)).do \in {"open", "send"}
           /\ CreatesFor(CreateClients(missing, h), missing)
<1>1. missing \in {{"src"}, {"dst"}, Chains}
  BY DEF Chains
<1> QED
  BY <1>1, CreateOnSrc, CreateOnDst, CreateOnBoth

\* The check gives the process another list.
LEMMA CheckStep ==
    ASSUME TypeInv, NEW p \in Procs, CheckCreateClients(p)
    PROVE  \/ Abort(p)
           \/ /\ MissingEnds(proc[p].mem.path) # {}
              /\ proc' = [proc EXCEPT ![p].todo = CreateClients(MissingEnds(proc[p].mem.path), Arg(p))]
              /\ Allowed(proc'[p].todo, ours) /\ proc'[p].todo # <<>>
              /\ Head(proc'[p].todo).do \in {"open", "send"}
              /\ CreatesFor(proc'[p].todo, MissingEnds(proc[p].mem.path))
              /\ proc' \in [Procs -> ProcType] /\ OthersKept(p)
              /\ proc'[p].mem = proc[p].mem /\ proc'[p].got = proc[p].got
              /\ proc'[p].db = proc[p].db /\ proc'[p].failed = proc[p].failed
<1> DEFINE missing == MissingEnds(proc[p].mem.path)
<1>1. /\ proc[p] \in ProcType /\ proc \in [Procs -> ProcType] /\ Fits(Head(proc[p].todo), ours)
      /\ Head(proc[p].todo).do = "check"
  BY TakenStep DEF CheckCreateClients
<1>2. missing \in SUBSET Chains /\ Arg(p) \in Heights
  BY <1>1 DEF MissingEnds, Fits, Arg
<1>3. \/ Abort(p)
      \/ missing # {} /\ proc' = [proc EXCEPT ![p].todo = CreateClients(missing, Arg(p))]
  BY DEF CheckCreateClients, checkCreateClientsReady
<1>4. ASSUME missing # {}, proc' = [proc EXCEPT ![p].todo = CreateClients(missing, Arg(p))]
      PROVE  /\ Allowed(proc'[p].todo, ours) /\ proc'[p].todo # <<>>
             /\ Head(proc'[p].todo).do \in {"open", "send"}
             /\ CreatesFor(proc'[p].todo, missing)
             /\ proc' \in [Procs -> ProcType] /\ OthersKept(p)
             /\ proc'[p].mem = proc[p].mem /\ proc'[p].got = proc[p].got
             /\ proc'[p].db = proc[p].db /\ proc'[p].failed = proc[p].failed
  <2> HIDE DEF missing
  <2> DEFINE todo == CreateClients(missing, Arg(p))
  <2>1. /\ Allowed(todo, ours) /\ todo # <<>> /\ Head(todo).do \in {"open", "send"}
        /\ CreatesFor(todo, missing)
    BY <1>2, <1>4, CreateList
  <2>2. todo \in Seq(Steps)
    BY <2>1 DEF Allowed, WellFormed
  <2>3. proc' = [proc EXCEPT ![p].todo = todo]
    BY <1>4
  <2> HIDE DEF todo
  <2>4. proc'[p] = [proc[p] EXCEPT !.todo = todo] /\ [proc[p] EXCEPT !.todo = todo] \in ProcType
    BY <1>1, <2>2, <2>3 DEF ProcType
  <2>5. proc' \in [Procs -> ProcType] /\ OthersKept(p)
    BY <1>1, <2>3, <2>4 DEF OthersKept
  <2>6. /\ proc'[p].todo = todo /\ proc'[p].mem = proc[p].mem /\ proc'[p].got = proc[p].got
        /\ proc'[p].db = proc[p].db /\ proc'[p].failed = proc[p].failed
    BY <1>1, <2>4 DEF ProcType
  <2> QED
    BY <2>1, <2>5, <2>6
<1> QED
  BY <1>3, <1>4

\* The steps on clients keep the types.
LEMMA TypeClients ==
    ASSUME TypeInv, NEW p \in Procs,
           \/ ChainsFromPath(p) \/ CheckCreateClients(p) \/ Send(p) \/ SendFails(p)
           \/ Success(p) \/ Sync(p) \/ SyncFails(p) \/ Refresh(p)
    PROVE  TypeInv'
<1>0. /\ TypeOK /\ proc[p] \in ProcType
      /\ \A c \in Chains : proc[p].got[c] \in {NoId} \cup ours[c]
      /\ \A c \in Chains : proc[p].mem.path[c] \in {NoId, Typo} \cup ours[c]
      /\ \A c \in Chains : file.config.path[c] \in {NoId, Typo} \cup ours[c]
  BY DEF TypeInv, TypeOK, ProcType, GotOurs, IdsAreOurs, Copies
<1>f. \A b \in BOOLEAN : /\ [proc[p] EXCEPT !.failed = b] \in ProcType
                         /\ [proc[p] EXCEPT !.failed = b].mem = proc[p].mem
                         /\ [proc[p] EXCEPT !.failed = b].got = proc[p].got
  BY <1>0 DEF ProcType
<1>1. CASE ChainsFromPath(p)
  <2>1. Running(p) /\ UNCHANGED <<file, ours>> /\ (Continue(p, proc[p]) \/ Abort(p))
    BY <1>1 DEF ChainsFromPath, IsNext
  <2>2. proc' \in [Procs -> ProcType] /\ Lists' /\ NewProcs' /\ GotOurs' /\ IdsAreOurs'
    BY <1>0, <2>1, PlainKept
  <2> QED
    BY <1>1, <2>2 DEF TypeInv, TypeOK, ProcType, ChainsFromPath
<1>2. CASE CheckCreateClients(p)
  <2>1. Running(p) /\ UNCHANGED <<file, ours>>
    BY <1>2 DEF CheckCreateClients, IsNext
  <2>2. CASE Abort(p)
    <3>1. proc' \in [Procs -> ProcType] /\ Lists' /\ NewProcs' /\ GotOurs' /\ IdsAreOurs'
      BY <1>0, <2>1, <2>2, PlainKept
    <3> QED
      BY <1>2, <3>1 DEF TypeInv, TypeOK, ProcType, CheckCreateClients
  <2>3. CASE ~Abort(p)
    <3>1. /\ Allowed(proc'[p].todo, ours) /\ proc'[p].todo # <<>>
          /\ Head(proc'[p].todo).do \in {"open", "send"}
          /\ proc' \in [Procs -> ProcType] /\ OthersKept(p)
          /\ proc'[p].mem = proc[p].mem /\ proc'[p].got = proc[p].got
      BY <1>2, <2>3, CheckStep
    <3>2. Lists' /\ NewProcs' /\ GotOurs'
      BY <2>1, <3>1 DEF TypeInv, Lists, NewProcs, GotOurs, OthersKept, Running, IsNext
    <3>3. \A q \in Procs : proc'[q].mem = proc[q].mem
      BY <3>1 DEF OthersKept
    <3>4. IdsAreOurs'
      BY <2>1, <3>3 DEF TypeInv, IdsAreOurs, Copies
    <3> QED
      BY <1>2, <3>1, <3>2, <3>4 DEF TypeInv, TypeOK, ProcType, CheckCreateClients
  <2> QED
    BY <2>2, <2>3
<1>3. CASE Send(p)
  <2> DEFINE c == Place(p)
             new == [proc[p] EXCEPT !.got[c] = NextId(c)]
  <2>1. Running(p) /\ Place(p) \in Chains
    BY <1>3, TakenStep DEF Send
  <2>2. /\ clients' \in [Chains -> [Ids -> Heights]] /\ ours' \in [Chains -> SUBSET Ids]
        /\ \A d \in Chains : ours[d] \subseteq ours'[d]
        /\ NextId(c) \in Ids /\ NextId(c) \in ours'[c]
    BY <1>0, <1>3, <2>1, ExecuteType DEF Send
  <2>3. new \in ProcType /\ new.mem = proc[p].mem /\ new.got = [proc[p].got EXCEPT ![c] = NextId(c)]
    BY <1>0, <2>1, <2>2, ConstantTypes DEF ProcType
  <2>4. \A d \in Chains : new.got[d] \in {NoId} \cup ours'[d]
    <3> HIDE DEF new
    <3> QED
      BY <1>0, <2>1, <2>2, <2>3 DEF ProcType
  <2>5. Continue(p, new) /\ UNCHANGED file
    BY <1>3 DEF Send
  <2>6. proc' \in [Procs -> ProcType] /\ Lists' /\ NewProcs' /\ GotOurs' /\ IdsAreOurs'
    <3> HIDE DEF new, c
    <3> QED
      BY <1>0, <2>1, <2>2, <2>3, <2>4, <2>5, StepKept
  <2> QED
    BY <1>3, <2>2, <2>6 DEF TypeInv, TypeOK, ProcType, Send
<1>4. CASE SendFails(p)
  <2>1. Running(p) /\ Place(p) \in Chains
    BY <1>4, TakenStep DEF SendFails
  <2>2. /\ clients' \in [Chains -> [Ids -> Heights]] /\ ours' \in [Chains -> SUBSET Ids]
        /\ \A d \in Chains : ours[d] \subseteq ours'[d]
    <3>1. CASE Execute(p)
      BY <1>0, <1>4, <2>1, <3>1, ExecuteType DEF SendFails
    <3>2. CASE UNCHANGED <<clients, ours>>
      BY <1>0, <3>2 DEF TypeOK
    <3> QED
      BY <1>4, <3>1, <3>2 DEF SendFails
  <2>3. Continue(p, [proc[p] EXCEPT !.failed = TRUE]) /\ UNCHANGED file
    BY <1>4 DEF SendFails
  <2>4. proc' \in [Procs -> ProcType] /\ Lists' /\ NewProcs' /\ GotOurs' /\ IdsAreOurs'
    BY <1>0, <1>f, <2>1, <2>2, <2>3, StepKept
  <2>5. left' \in [hand : Nat, faults : Nat, busy : Nat]
    BY <1>0, <1>4, SpendType DEF SendFails, TypeOK
  <2> QED
    BY <1>4, <2>2, <2>4, <2>5 DEF TypeInv, TypeOK, ProcType, SendFails
<1>5. CASE Success(p)
  <2>1. Running(p) /\ UNCHANGED <<file, ours>> /\ (Continue(p, proc[p]) \/ Abort(p))
    BY <1>5 DEF Success, IsNext
  <2>2. proc' \in [Procs -> ProcType] /\ Lists' /\ NewProcs' /\ GotOurs' /\ IdsAreOurs'
    BY <1>0, <2>1, PlainKept
  <2> QED
    BY <1>5, <2>2 DEF TypeInv, TypeOK, ProcType, Success
<1>6. CASE Sync(p)
  <2> DEFINE c == Place(p)
             path == [proc[p].mem.path EXCEPT ![c] = proc[p].got[c]]
             new == [proc[p] EXCEPT !.mem.path = path]
  <2>1. Running(p) /\ c \in Chains
    BY <1>6, TakenStep DEF Sync
  <2>2. path \in [Chains -> 0..Typo] /\ \A d \in Chains : path[d] \in {NoId, Typo} \cup ours[d]
    BY <1>0, <2>1, ConstantTypes DEF ProcType, Configs
  <2>3. new \in ProcType /\ new.got = proc[p].got /\ new.mem.path = path
    <3> DEFINE m == [proc[p].mem EXCEPT !.path = path]
    <3>1. m \in Configs /\ m.path = path
      <4> HIDE DEF path
      <4> QED
        BY <1>0, <2>2 DEF Configs, ProcType
    <3>2. new = [proc[p] EXCEPT !.mem = m]
      OBVIOUS
    <3> HIDE DEF m, new
    <3> QED
      BY <1>0, <3>1, <3>2, NewMem
  <2>4. Continue(p, new) /\ UNCHANGED <<file, ours>>
    BY <1>6 DEF Sync, UpdatePathConfig, EventGenerateClientIdentifier
  <2>5. proc' \in [Procs -> ProcType] /\ Lists' /\ NewProcs' /\ GotOurs' /\ IdsAreOurs'
    <3> HIDE DEF new, path
    <3> QED
      BY <1>0, <2>1, <2>2, <2>3, <2>4, StepKept
  <2> QED
    BY <1>6, <2>5 DEF TypeInv, TypeOK, ProcType, Sync
<1>7. CASE SyncFails(p)
  <2>1. Running(p) /\ UNCHANGED <<file, ours>> /\ Abort(p)
    BY <1>7 DEF SyncFails, IsNext
  <2>2. proc' \in [Procs -> ProcType] /\ Lists' /\ NewProcs' /\ GotOurs' /\ IdsAreOurs'
    BY <1>0, <2>1, PlainKept
  <2>3. left' \in [hand : Nat, faults : Nat, busy : Nat]
    BY <1>0, <1>7, SpendType DEF SyncFails, TypeOK
  <2> QED
    BY <1>7, <2>2, <2>3 DEF TypeInv, TypeOK, ProcType, SyncFails
<1>8. CASE Refresh(p)
  <2> DEFINE c == Place(p)
             id == proc[p].mem.path[c]
             accepted == ~Expired(clients[c][id]) /\ SetupHeadersForUpdate(p, c) > clients[c][id]
             new == [proc[p] EXCEPT !.failed = @ \/ ~accepted]
  <2>1. Running(p) /\ c \in Chains
    BY <1>8, TakenStep DEF Refresh
  <2>2. SetupHeadersForUpdate(p, c) \in Heights
    BY <1>0, <2>1 DEF SetupHeadersForUpdate, ProcType, Other, Chains
  <2>3. clients' \in [Chains -> [Ids -> Heights]]
    <3>1. CASE UNCHANGED clients
      BY <1>0, <3>1 DEF TypeOK
    <3>2. CASE clients' # clients
      <4>1. id \in Ids
        BY <1>8, <2>1, <3>2 DEF Refresh, SetupBothHeadersForUpdate, Exists
      <4>2. clients' = [clients EXCEPT ![c][id] = SetupHeadersForUpdate(p, c)]
        BY <1>8, <3>2 DEF Refresh
      <4> HIDE DEF c, id
      <4> QED
        BY <1>0, <2>1, <2>2, <4>1, <4>2 DEF TypeOK
    <3> QED
      BY <3>1, <3>2
  <2>4. /\ new \in ProcType /\ new.mem = proc[p].mem /\ new.got = proc[p].got
    <3>1. (proc[p].failed \/ ~accepted) \in BOOLEAN
      BY <1>0 DEF ProcType
    <3> HIDE DEF accepted
    <3> QED
      BY <1>f, <3>1
  <2>5. UNCHANGED <<file, ours>> /\ (Continue(p, new) \/ Abort(p))
    BY <1>8 DEF Refresh
  <2>6. proc' \in [Procs -> ProcType] /\ Lists' /\ NewProcs' /\ GotOurs' /\ IdsAreOurs'
    <3> HIDE DEF new
    <3> QED
      BY <2>1, <2>4, <2>5, PlainKept
  <2> QED
    BY <1>8, <2>3, <2>6 DEF TypeInv, TypeOK, ProcType, Refresh
<1> QED
  BY <1>1, <1>2, <1>3, <1>4, <1>5, <1>6, <1>7, <1>8

\* A command that is started.
LEMMA StartStep ==
    ASSUME TypeInv, NEW p \in Procs, NEW todo, Startable(todo), Start(p, todo)
    PROVE  /\ proc[p] = Idle /\ proc'[p] = [Idle EXCEPT !.todo = todo] /\ OthersKept(p)
           /\ proc'[p].todo = todo /\ proc'[p].mem = Idle.mem /\ proc'[p].got = Idle.got
           /\ IsNext(p, "load")' /\ proc' \in [Procs -> ProcType]
           /\ Lists' /\ NewProcs' /\ GotOurs' /\ IdsAreOurs'
<1>1. /\ proc \in [Procs -> ProcType] /\ proc[p] = Idle
      /\ todo \in Seq(Steps) /\ proc' = [proc EXCEPT ![p].todo = todo] /\ UNCHANGED <<file, ours>>
  BY DEF TypeInv, TypeOK, ProcType, NewProcs, Start, Startable, Allowed, WellFormed
<1>2. /\ proc'[p] = [Idle EXCEPT !.todo = todo] /\ OthersKept(p)
      /\ [Idle EXCEPT !.todo = todo] \in ProcType
  BY <1>1, IdleType DEF ProcType, OthersKept
<1>3. proc'[p].todo = todo /\ proc'[p].mem = Idle.mem /\ proc'[p].got = Idle.got
  BY <1>2, IdleType DEF ProcType
<1>4. proc' \in [Procs -> ProcType]
  BY <1>1, <1>2
<1>5. Lists' /\ GotOurs'
  BY <1>1, <1>2, <1>3, IdleType DEF Lists, GotOurs, TypeInv, OthersKept, Startable
<1>6. NewProcs' /\ IsNext(p, "load")'
  BY <1>1, <1>2, <1>3 DEF NewProcs, TypeInv, OthersKept, Running, IsNext, Startable
<1>7. IdsAreOurs'
  <2>1. \A q \in Procs : proc'[q].mem = proc[q].mem
    BY <1>1, <1>2, <1>3 DEF OthersKept
  <2> QED
    BY <1>1, <2>1 DEF TypeInv, IdsAreOurs, Copies
<1> QED
  BY <1>1, <1>2, <1>3, <1>4, <1>5, <1>6, <1>7

\* The invariant holds before the first command.
LEMMA TypeInit == Init => TypeInv
<1> SUFFICES ASSUME Init PROVE TypeInv
  OBVIOUS
<1>1. file \in Files /\ file.config = defaultConfig
  BY IdleType DEF Init, Files
<1>2. clients \in [Chains -> [Ids -> Heights]]
  BY ConstantTypes DEF Init
<1>3. proc \in [Procs -> ProcType] /\ \A p \in Procs : proc[p] = Idle
  BY IdleType DEF Init
<1>4. left \in [hand : Nat, faults : Nat, busy : Nat] /\ now \in 1..MaxTime
  BY SetupAssumption DEF Init
<1>5. TypeOK
  BY <1>1, <1>2, <1>3, <1>4 DEF TypeOK, Init, ProcType
<1>6. Lists /\ NewProcs /\ GotOurs
  BY <1>3, IdleType DEF Lists, NewProcs, GotOurs, Running, IsNext
<1>7. IdsAreOurs
  BY <1>1, <1>3, IdleType DEF IdsAreOurs, Copies, defaultConfig, NewPath
<1> QED
  BY <1>5, <1>6, <1>7 DEF TypeInv

\* Every step of a command, kill, tick of the clock or start keeps the types, the
\* shapes of the step lists and the identifiers.
LEMMA TypeNext == TypeInv /\ [Next]_vars => TypeInv'
<1> SUFFICES ASSUME TypeInv, [Next]_vars PROVE TypeInv'
  OBVIOUS
<1>1. CASE Orchestrate
  <2>1. PICK todo \in Wanted : Start("orch", todo) /\ UNCHANGED left
    BY <1>1 DEF Orchestrate
  <2>2. proc' \in [Procs -> ProcType] /\ Lists' /\ NewProcs' /\ GotOurs' /\ IdsAreOurs'
    BY <2>1, WantedStartable, StartStep DEF Procs, TypeInv
  <2> QED
    BY <2>1, <2>2 DEF TypeInv, TypeOK, ProcType, Start
<1>2. CASE Operate
  <2>1. PICK todo \in Typed : Start("hand", todo)
    BY <1>2 DEF Operate
  <2>2. proc' \in [Procs -> ProcType] /\ Lists' /\ NewProcs' /\ GotOurs' /\ IdsAreOurs'
    BY <2>1, TypedStartable, StartStep DEF Procs, TypeInv
  <2>3. left' \in [hand : Nat, faults : Nat, busy : Nat]
    BY <1>2, SpendType DEF Operate, TypeInv, TypeOK
  <2> QED
    BY <2>1, <2>2, <2>3 DEF TypeInv, TypeOK, ProcType, Start
<1>3. CASE Tick
  <2>1. TypeOK'
    BY <1>3, ConstantTypes DEF Tick, TypeInv, TypeOK
  <2> QED
    BY <1>3, <2>1 DEF Tick, TypeInv, Lists, NewProcs, GotOurs, IdsAreOurs, Copies, Running, IsNext
<1>4. ASSUME NEW p \in Procs, Take(p) PROVE TypeInv'
  BY <1>4, TypeFile, TypeLight, TypeClients DEF Take
<1>5. ASSUME NEW p \in Procs, Kill(p) PROVE TypeInv'
  <2>1. Running(p) /\ UNCHANGED <<file, ours>> /\ Abort(p) /\ proc[p] \in ProcType
    BY <1>5 DEF Kill, TypeInv, TypeOK, ProcType
  <2>2. proc' \in [Procs -> ProcType] /\ Lists' /\ NewProcs' /\ GotOurs' /\ IdsAreOurs'
    BY <2>1, PlainKept
  <2>3. left' \in [hand : Nat, faults : Nat, busy : Nat] /\ lock' \in [Chains -> Procs \cup {Nobody}]
    BY <1>5, SpendType DEF Kill, TypeInv, TypeOK, Release
  <2> QED
    BY <1>5, <2>2, <2>3 DEF TypeInv, TypeOK, ProcType, Kill
<1>6. CASE UNCHANGED vars
  BY <1>6 DEF vars, TypeInv, TypeOK, Lists, NewProcs, GotOurs, IdsAreOurs, Copies, Running, IsNext
<1> QED
  BY <1>1, <1>2, <1>3, <1>4, <1>5, <1>6 DEF Next, Exhausted

\* The state of the file, the databases, the chains and the processes is well
\* typed at any time: no step of any command takes an argument that its list
\* should not hold (modules/relayer.py, cmd/, chains/tendermint/cmd).
THEOREM TypeCorrect == Spec => []TypeOK
<1>1. TypeInv => TypeOK
  BY DEF TypeInv
<1> QED
  BY <1>1, TypeInit, TypeNext, PTL DEF Spec

\* An identifier in the file or in a process names a client that tx clients
\* created on that chain, or was typed in (config/core.go UpdatePathConfig).
THEOREM IdsCorrect == Spec => []IdsAreOurs
<1>1. TypeInv => IdsAreOurs
  BY DEF TypeInv
<1> QED
  BY <1>1, TypeInit, TypeNext, PTL DEF Spec

-----------------------------------------------------------------------------
(* The light client databases *)

\* A step of p leaves the other processes alone.
LEMMA StepOthers ==
    ASSUME TypeInv, NEW p \in Procs, NEW new, Continue(p, new) \/ Abort(p)
    PROVE  OthersKept(p)
<1>1. proc \in [Procs -> ProcType]
  BY DEF TypeInv, TypeOK, ProcType
<1> QED
  BY <1>1 DEF Continue, Abort, Advance, OthersKept

\* A command changes its own process only.
LEMMA TakeOthers ==
    ASSUME TypeInv, NEW p \in Procs, Take(p) \/ Kill(p)
    PROVE  OthersKept(p)
<1>1. CASE Load(p)
  BY <1>1, StepOthers DEF Load
<1>0. CASE Stat(p)
  BY <1>0, StepOthers DEF Stat
<1>2. CASE CreateConfig(p)
  BY <1>2, StepOthers DEF CreateConfig
<1>3. CASE AddChain(p)
  BY <1>3, StepOthers DEF AddChain
<1>4. CASE AddPath(p)
  BY <1>4, StepOthers DEF AddPath
<1>5. CASE Edit(p)
  BY <1>5, StepOthers DEF Edit
<1>6. CASE Truncate(p)
  BY <1>6, StepOthers DEF Truncate
<1>7. CASE Write(p)
  BY <1>7, StepOthers DEF Write
<1>8. CASE UseChain(p)
  BY <1>8, StepOthers DEF UseChain
<1>9. CASE AddKey(p)
  BY <1>9, StepOthers DEF AddKey
<1>10. CASE NewLightDB(p)
  BY <1>10, StepOthers DEF NewLightDB
<1>11. CASE UpdateLightClient(p)
  BY <1>11, StepOthers DEF UpdateLightClient
<1>12. CASE Peek(p)
  BY <1>12, StepOthers DEF Peek
<1>13. CASE LightClientWithTrust(p)
  BY <1>13, StepOthers DEF LightClientWithTrust
<1>14. CASE DeleteLightDB(p)
  BY <1>14, StepOthers DEF DeleteLightDB
<1>15. CASE ChainsFromPath(p)
  BY <1>15, StepOthers DEF ChainsFromPath
<1>16. CASE CheckCreateClients(p)
  BY <1>16, CheckStep, AbortStep DEF TypeInv
<1>17. CASE Send(p)
  BY <1>17, StepOthers DEF Send
<1>18. CASE SendFails(p)
  BY <1>18, StepOthers DEF SendFails
<1>19. CASE Success(p)
  BY <1>19, StepOthers DEF Success
<1>20. CASE Sync(p)
  BY <1>20, StepOthers DEF Sync
<1>21. CASE SyncFails(p)
  BY <1>21, StepOthers DEF SyncFails
<1>22. CASE Refresh(p)
  BY <1>22, StepOthers DEF Refresh
<1>23. CASE Kill(p)
  BY <1>23, StepOthers DEF Kill
<1> QED
  BY <1>0, <1>1, <1>2, <1>3, <1>4, <1>5, <1>6, <1>7, <1>8, <1>9, <1>10, <1>11, <1>12, <1>13, <1>14, <1>15, <1>16, <1>17, <1>18, <1>19, <1>20, <1>21, <1>22, <1>23 DEF Take

\* Who has a database open is about to use it, and has read what is stored.
LockHolds ==
    \A p \in Procs, c \in Chains : lock[c] = p =>
        /\ Running(p) /\ Place(p) = c /\ proc[p].db = light[c]
        /\ Head(proc[p].todo).do \in {"peek", "trust", "update"}

LockInv == TypeInv /\ LockHolds

\* A step that leaves the databases alone, of a process that has none open.
LEMMA LockElsewhere ==
    ASSUME LockInv, NEW p \in Procs, OthersKept(p), UNCHANGED <<light, lock>>,
           ~Running(p) \/ Head(proc[p].todo).do \notin {"peek", "trust", "update"}
    PROVE  LockHolds'
<1>1. \A c \in Chains : lock[c] # p
  BY DEF LockInv, LockHolds
<1> QED
  BY <1>1 DEF LockInv, LockHolds, OthersKept, Running, Place

\* A step that closes what p has open.
LEMMA LockClosed ==
    ASSUME LockInv, NEW p \in Procs, OthersKept(p), Release(p), Place(p) \in Chains,
           \A c \in Chains : light'[c] # light[c] => lock[c] = p
    PROVE  LockHolds'
<1>1. p # Nobody
  BY DEF Procs, Nobody
<1>2. \A c \in Chains : lock'[c] # p /\ (lock'[c] # Nobody => lock'[c] = lock[c])
  BY <1>1 DEF Release
<1>3. \A q \in Procs : q # Nobody
  BY DEF Procs, Nobody
<1> QED
  BY <1>2, <1>3 DEF LockInv, LockHolds, OthersKept, Running, Place

\* What a close may change.
LEMMA CloseEffect ==
    ASSUME TypeOK, NEW p \in Procs, NEW db, Close(p, db), Place(p) \in Chains
    PROVE  /\ Release(p)
           /\ \A c \in Chains : light'[c] # light[c] =>
                 c = Place(p) /\ lock[c] = p /\ light'[c] = db
  BY DEF Close, TypeOK

\* Taking the lock: the step after it uses the database.
LEMMA LockOpened ==
    ASSUME LockInv, NEW p \in Procs, NewLightDB(p)
    PROVE  LockHolds'
<1>0. /\ TypeInv /\ Running(p) /\ proc[p] \in ProcType /\ Place(p) \in Chains /\ OthersKept(p)
      /\ Head(proc[p].todo).do = "open" /\ Allowed(proc[p].todo, ours)
      /\ Head(proc[p].todo) = proc[p].todo[1] /\ 1 \in DOMAIN proc[p].todo
  BY TakenStep, TakeOthers DEF LockInv, NewLightDB, Take, TypeInv, Lists
<1>1. \A c \in Chains : lock[c] # p
  BY <1>0 DEF LockInv, LockHolds
<1>2. CASE lock[Place(p)] = Nobody
  <2> DEFINE new == [proc[p] EXCEPT !.db = light[Place(p)]]
  <2>1. new \in ProcType /\ new.db = light[Place(p)]
    BY <1>0 DEF ProcType, TypeInv, TypeOK
  <2>2. Continue(p, new) /\ lock' = [lock EXCEPT ![Place(p)] = p] /\ UNCHANGED light
    BY <1>2 DEF NewLightDB
  <2>3. Len(proc[p].todo) # 1
    <3>1. 1 + 1 \in DOMAIN proc[p].todo
      <4>1. \A i \in DOMAIN proc[p].todo : proc[p].todo[i].do = "open" => i + 1 \in DOMAIN proc[p].todo
        BY <1>0, Zenon DEF Allowed, WellFormed
      <4>2. 1 \in DOMAIN proc[p].todo /\ proc[p].todo[1].do = "open"
        BY <1>0
      <4> QED
        BY <4>1, <4>2, Zenon
    <3>2. DOMAIN proc[p].todo = 1..Len(proc[p].todo) /\ Len(proc[p].todo) \in Nat
      BY <1>0, ListFacts
    <3>3. ~ (1 + 1 \in 1..1)
      OBVIOUS
    <3> QED
      BY <3>1, <3>2, <3>3, Zenon
  <2>4. Holds(p, new)
    <3> HIDE DEF new
    <3> QED
      BY <1>0, <2>1, <2>2, <2>3, ContinueStep DEF TypeInv
  <2>5. /\ proc'[p].todo # <<>> /\ Head(proc'[p].todo) = proc[p].todo[2]
        /\ Adjoins(proc[p].todo[1], proc[p].todo[2])
    BY <1>0, <2>3, <2>4, ListFacts DEF Holds, Running
  <2>6. /\ Running(p)' /\ Place(p)' = Place(p)
        /\ Head(proc'[p].todo).do \in {"peek", "trust", "update"}
    BY <1>0, <2>5 DEF Running, Place, Adjoins
  <2>7. proc'[p].db = light[Place(p)]
    <3> HIDE DEF new
    <3> QED
      BY <2>1, <2>4 DEF Holds
  <2>8. \A c \in Chains : lock'[c] = IF c = Place(p) THEN p ELSE lock[c]
    BY <1>0, <2>2 DEF TypeInv, TypeOK
  <2>9. ASSUME NEW q \in Procs, NEW c \in Chains, lock'[c] = q
        PROVE  /\ Running(q)' /\ Place(q)' = c /\ proc'[q].db = light'[c]
               /\ Head(proc'[q].todo).do \in {"peek", "trust", "update"}
    <3>1. CASE q = p
      BY <1>1, <2>2, <2>6, <2>7, <2>8, <2>9, <3>1
    <3>2. CASE q # p
      <4>1. lock[c] = q /\ proc'[q] = proc[q]
        BY <1>0, <2>8, <2>9, <3>2 DEF OthersKept
      <4> QED
        BY <2>2, <4>1 DEF LockInv, LockHolds, Running, Place
    <3> QED
      BY <3>1, <3>2
  <2> QED
    BY <2>9 DEF LockHolds
<1>3. CASE lock[Place(p)] # Nobody
  <2>1. UNCHANGED <<light, lock>>
    BY <1>3 DEF NewLightDB
  <2> QED
    BY <1>0, <2>1, LockElsewhere
<1> QED
  BY <1>2, <1>3

\* Only who holds the lock of a light client database releases it.
LEMMA LockNext == LockInv /\ [Next]_vars => LockInv'
<1> SUFFICES ASSUME LockInv, [Next]_vars PROVE LockHolds'
  BY TypeNext DEF LockInv
<1>0. TypeInv /\ TypeOK
  BY DEF LockInv, TypeInv
<1>1. CASE Orchestrate
  <2>1. PICK todo \in Wanted : Start("orch", todo)
    BY <1>1 DEF Orchestrate
  <2>2. OthersKept("orch") /\ ~Running("orch") /\ UNCHANGED <<light, lock>> /\ "orch" \in Procs
    BY <1>0, <2>1, WantedStartable, StartStep DEF Procs, Start
  <2> QED
    BY <2>2, LockElsewhere
<1>2. CASE Operate
  <2>1. PICK todo \in Typed : Start("hand", todo)
    BY <1>2 DEF Operate
  <2>2. OthersKept("hand") /\ ~Running("hand") /\ UNCHANGED <<light, lock>> /\ "hand" \in Procs
    BY <1>0, <2>1, TypedStartable, StartStep DEF Procs, Start
  <2> QED
    BY <2>2, LockElsewhere
<1>3. CASE Tick \/ UNCHANGED vars
  BY <1>3 DEF Tick, vars, LockInv, LockHolds, Running, Place
<1>4. ASSUME NEW p \in Procs, Take(p) PROVE LockHolds'
  <2>0. OthersKept(p)
    BY <1>0, <1>4, TakeOthers
  <2>1. CASE Load(p)
    BY <2>0, <2>1, LockElsewhere DEF Load, IsNext
  <2>s. CASE Stat(p)
    BY <2>0, <2>s, LockElsewhere DEF Stat, IsNext
  <2>2. CASE CreateConfig(p)
    BY <2>0, <2>2, LockElsewhere DEF CreateConfig, IsNext
  <2>3. CASE AddChain(p)
    BY <2>0, <2>3, LockElsewhere DEF AddChain, IsNext
  <2>4. CASE AddPath(p)
    BY <2>0, <2>4, LockElsewhere DEF AddPath, IsNext
  <2>5. CASE Edit(p)
    BY <2>0, <2>5, LockElsewhere DEF Edit, IsNext
  <2>6. CASE Truncate(p)
    BY <2>0, <2>6, LockElsewhere DEF Truncate, IsNext
  <2>7. CASE Write(p)
    BY <2>0, <2>7, LockElsewhere DEF Write, IsNext
  <2>8. CASE UseChain(p)
    BY <2>0, <2>8, LockElsewhere DEF UseChain, IsNext
  <2>9. CASE AddKey(p)
    BY <2>0, <2>9, LockElsewhere DEF AddKey, IsNext
  <2>10. CASE NewLightDB(p)
    BY <2>10, LockOpened
  <2>11. CASE UpdateLightClient(p)
    <3>1. Place(p) \in Chains
      BY <1>0, <2>11, TakenStep DEF UpdateLightClient
    <3>2. PICK db : Close(p, db)
      BY <2>11 DEF UpdateLightClient
    <3> QED
      BY <1>0, <2>0, <3>1, <3>2, CloseEffect, LockClosed
  <2>12. CASE Peek(p)
    <3>1. Place(p) \in Chains
      BY <1>0, <2>12, TakenStep DEF Peek
    <3>2. PICK db : Close(p, db)
      BY <2>12 DEF Peek
    <3> QED
      BY <1>0, <2>0, <3>1, <3>2, CloseEffect, LockClosed
  <2>13. CASE LightClientWithTrust(p)
    <3>1. Place(p) \in Chains
      BY <1>0, <2>13, TakenStep DEF LightClientWithTrust
    <3>2. PICK db : Close(p, db)
      BY <2>13 DEF LightClientWithTrust
    <3> QED
      BY <1>0, <2>0, <3>1, <3>2, CloseEffect, LockClosed
  <2>14. CASE DeleteLightDB(p)
    <3>1. Place(p) \in Chains /\ Running(p) /\ Head(proc[p].todo).do = "delete"
      BY <1>0, <2>14, TakenStep DEF DeleteLightDB
    <3>2. \A c \in Chains : lock[c] # p
      BY <3>1 DEF LockInv, LockHolds
    <3>3. \A c \in Chains : lock'[c] # Nobody => lock'[c] = lock[c] /\ light'[c] = light[c]
      BY <1>0, <2>14, <3>1 DEF DeleteLightDB, TypeOK
    <3>4. \A q \in Procs : q # Nobody
      BY DEF Procs, Nobody
    <3> QED
      BY <2>0, <3>2, <3>3, <3>4 DEF LockInv, LockHolds, OthersKept, Running, Place
  <2>15. CASE ChainsFromPath(p)
    BY <2>0, <2>15, LockElsewhere DEF ChainsFromPath, IsNext
  <2>16. CASE CheckCreateClients(p)
    BY <2>0, <2>16, LockElsewhere DEF CheckCreateClients, IsNext
  <2>17. CASE Send(p)
    BY <2>0, <2>17, LockElsewhere DEF Send, IsNext
  <2>18. CASE SendFails(p)
    BY <2>0, <2>18, LockElsewhere DEF SendFails, IsNext
  <2>19. CASE Success(p)
    BY <2>0, <2>19, LockElsewhere DEF Success, IsNext
  <2>20. CASE Sync(p)
    BY <2>0, <2>20, LockElsewhere DEF Sync, IsNext
  <2>21. CASE SyncFails(p)
    BY <2>0, <2>21, LockElsewhere DEF SyncFails, IsNext
  <2>22. CASE Refresh(p)
    BY <2>0, <2>22, LockElsewhere DEF Refresh, IsNext
  <2> QED
    BY <1>4, <2>s, <2>1, <2>2, <2>3, <2>4, <2>5, <2>6, <2>7, <2>8, <2>9, <2>10, <2>11, <2>12, <2>13, <2>14, <2>15, <2>16, <2>17, <2>18, <2>19, <2>20, <2>21, <2>22 DEF Take
<1>5. ASSUME NEW p \in Procs, Kill(p) PROVE LockHolds'
  <2>1. OthersKept(p) /\ Release(p) /\ UNCHANGED light
    BY <1>0, <1>5, TakeOthers DEF Kill
  <2>2. Place(p) \in Chains
    <3>1. IsNext(p, Head(proc[p].todo).do)
      BY <1>5 DEF Kill, IsNext
    <3> QED
      BY <1>0, <3>1, TakenStep
  <2> QED
    BY <2>1, <2>2, LockClosed
<1> QED
  BY <1>1, <1>2, <1>3, <1>4, <1>5 DEF Next, Exhausted

\* A database that was wiped is filled by light init and by nothing else, also
\* when another process had it open (chains/tendermint/light.go DeleteLightDB,
\* UpdateLightClient).
THEOREM WipedCorrect == Spec => WipedUntilInit
<1> DEFINE Wiped == \A c \in Chains : light[c] = {} /\ light'[c] # {}
                       => \E p \in Procs : IsNext(p, "trust") /\ Place(p) = c
<1>1. Init => LockInv
  BY TypeInit DEF Init, LockInv, LockHolds, Procs, Nobody
<1>2. LockInv /\ [Next]_vars => [Wiped]_vars
  <2> SUFFICES ASSUME LockInv, [Next]_vars, NEW c \in Chains, light[c] = {}, light'[c] # {}
               PROVE  \E p \in Procs : IsNext(p, "trust") /\ Place(p) = c
    OBVIOUS
  <2>0. TypeInv /\ TypeOK
    BY DEF LockInv, TypeInv
  <2>1. PICK p \in Procs : Take(p)
    BY DEF Next, Orchestrate, Operate, Start, Tick, Kill, Exhausted, vars
  <2>2. CASE UpdateLightClient(p)
    <3>1. Place(p) \in Chains /\ Head(proc[p].todo).do = "update" /\ Running(p)
      BY <2>0, <2>2, TakenStep DEF UpdateLightClient
    <3>2. PICK db : Close(p, db) /\ (db # proc[p].db => proc[p].db # {})
      BY <2>2 DEF UpdateLightClient, Verifiable
    <3>3. c = Place(p) /\ lock[c] = p /\ light'[c] = db
      BY <2>0, <3>1, <3>2, CloseEffect
    <3>4. proc[p].db = light[c]
      BY <3>3 DEF LockInv, LockHolds
    <3> QED
      BY <3>2, <3>3, <3>4
  <2>3. CASE Peek(p)
    <3>1. Place(p) \in Chains
      BY <2>0, <2>3, TakenStep DEF Peek
    <3>2. c = Place(p) /\ lock[c] = p /\ light'[c] = proc[p].db
      BY <2>0, <2>3, <3>1, CloseEffect DEF Peek
    <3> QED
      BY <3>2 DEF LockInv, LockHolds
  <2>4. CASE LightClientWithTrust(p)
    <3>1. Place(p) \in Chains
      BY <2>0, <2>4, TakenStep DEF LightClientWithTrust
    <3>2. PICK db : Close(p, db)
      BY <2>4 DEF LightClientWithTrust
    <3>3. c = Place(p)
      BY <2>0, <3>1, <3>2, CloseEffect
    <3> QED
      BY <2>4, <3>3 DEF LightClientWithTrust
  <2>5. CASE DeleteLightDB(p)
    BY <2>0, <2>5 DEF DeleteLightDB, TypeOK
  <2> QED
    BY <2>1, <2>2, <2>3, <2>4, <2>5
       DEF Take, Load, Stat, CreateConfig, AddChain, AddPath, Edit, Truncate, Write, UseChain, AddKey,
           NewLightDB, ChainsFromPath, CheckCreateClients, Send, SendFails, Success, Sync,
           SyncFails, Refresh
<1> QED
  BY <1>1, <1>2, LockNext, PTL DEF Spec, WipedUntilInit

-----------------------------------------------------------------------------
(* The configuration file and the clients *)

\* What is on a list.
HasKind(todo, do) == \E i \in DOMAIN todo : todo[i].do = do
HasStep(todo, do, c) == \E i \in DOMAIN todo : todo[i].do = do /\ todo[i].at = c

\* A client for chain c will be created, or recorded.
Awaits(todo, c) == HasStep(todo, "send", c) \/ HasStep(todo, "sync", c)

\* What is on a list was on the list before the first step was taken; and what
\* was on it and is not the first step still is.
LEMMA TailHas ==
    ASSUME NEW known, NEW todo, Allowed(todo, known), todo # <<>>
    PROVE  /\ Writes(Tail(todo)) => Writes(todo)
           /\ \A do : HasKind(Tail(todo), do) => HasKind(todo, do)
           /\ \A do, c : HasStep(Tail(todo), do, c) => HasStep(todo, do, c)
           /\ \A do : HasKind(todo, do) => Head(todo).do = do \/ HasKind(Tail(todo), do)
           /\ \A do, c : HasStep(todo, do, c) =>
                 \/ Head(todo).do = do /\ Head(todo).at = c
                 \/ HasStep(Tail(todo), do, c)
           /\ \A do : HasKind(Tail(todo), do) =>
                 \E s \in Steps : s.do = do /\ Precedes(Head(todo), s)
           /\ \A do, c : HasStep(Tail(todo), do, c) =>
                 \E s \in Steps : s.do = do /\ s.at = c /\ Precedes(Head(todo), s)
<1>1. /\ DOMAIN todo = 1..Len(todo) /\ Len(todo) \in Nat /\ 1 \in DOMAIN todo
      /\ Head(todo) = todo[1]
      /\ \A i \in DOMAIN todo : todo[i] \in Steps
      /\ \A i \in DOMAIN todo : i # 1 => Precedes(todo[1], todo[i])
  BY ListFacts
<1>2. /\ DOMAIN Tail(todo) = 1..(Len(todo) - 1)
      /\ \A i \in DOMAIN Tail(todo) : Tail(todo)[i] = todo[i + 1]
  BY TailAllowed
<1>3. \A i \in DOMAIN Tail(todo) : i + 1 \in DOMAIN todo /\ i + 1 # 1
  BY <1>1, <1>2
<1>4. \A i \in DOMAIN todo : i # 1 =>
         i - 1 \in DOMAIN Tail(todo) /\ Tail(todo)[i - 1] = todo[i]
  BY <1>1, <1>2
<1>5. Writes(Tail(todo)) => Writes(todo)
  BY <1>2, <1>3 DEF Writes
<1>6. /\ \A do : HasKind(Tail(todo), do) => HasKind(todo, do)
      /\ \A do, c : HasStep(Tail(todo), do, c) => HasStep(todo, do, c)
  BY <1>2, <1>3 DEF HasKind, HasStep
<1>7. /\ \A do : HasKind(todo, do) => Head(todo).do = do \/ HasKind(Tail(todo), do)
      /\ \A do, c : HasStep(todo, do, c) =>
            \/ Head(todo).do = do /\ Head(todo).at = c
            \/ HasStep(Tail(todo), do, c)
  BY <1>1, <1>4 DEF HasKind, HasStep
<1>8. /\ \A do : HasKind(Tail(todo), do) =>
            \E s \in Steps : s.do = do /\ Precedes(Head(todo), s)
      /\ \A do, c : HasStep(Tail(todo), do, c) =>
            \E s \in Steps : s.do = do /\ s.at = c /\ Precedes(Head(todo), s)
  BY <1>1, <1>2, <1>3 DEF HasKind, HasStep
<1> QED
  BY <1>5, <1>6, <1>7, <1>8

\* The first step, and what its kind says of the others.
LEMMA HeadHas ==
    ASSUME NEW known, NEW todo, Allowed(todo, known), todo # <<>>
    PROVE  /\ HasKind(todo, Head(todo).do) /\ HasStep(todo, Head(todo).do, Head(todo).at)
           /\ Head(todo).at \in Chains
           /\ Head(todo).do \in {"create", "truncate", "write", "check"} => Writes(todo)
           /\ \A i \in DOMAIN todo : i # 1 => todo[i].do # "load"
<1>1. /\ DOMAIN todo = 1..Len(todo) /\ Len(todo) \in Nat /\ 1 \in DOMAIN todo
      /\ Head(todo) = todo[1]
      /\ \A i \in DOMAIN todo : todo[i] \in Steps /\ todo[i].at \in Chains
      /\ \A i \in DOMAIN todo : i # 1 => Precedes(todo[1], todo[i])
  BY ListFacts
<1> QED
  BY <1>1 DEF HasKind, HasStep, Writes, Precedes

\* Who creates or records a client will write the file.
LEMMA AwaitsWrites ==
    ASSUME NEW known, NEW todo, Allowed(todo, known)
    PROVE  /\ \A c \in Chains : Awaits(todo, c) => Writes(todo) /\ HasStep(todo, "sync", c)
           /\ HasKind(todo, "sync") => Writes(todo)
           /\ \A do \in {"create", "truncate", "write", "check"} : HasKind(todo, do) => Writes(todo)
<1>1. \A i \in DOMAIN todo : todo[i].do = "send" => HasStep(todo, "sync", todo[i].at)
  BY DEF Allowed, WellFormed, HasStep
<1>2. \A do \in {"create", "truncate", "write", "check"} : HasKind(todo, do) => Writes(todo)
  BY DEF HasKind, Writes
<1>3. ASSUME NEW i \in DOMAIN todo, todo[i].do = "sync" PROVE Writes(todo)
  <2>1. i + 1 \in DOMAIN todo /\ Adjoins(todo[i], todo[i + 1])
    BY <1>3, Zenon DEF Allowed, WellFormed
  <2>2. todo[i + 1].do = "truncate"
    BY <1>3, <2>1 DEF Adjoins
  <2> QED
    BY <2>1, <2>2 DEF Writes
<1> QED
  BY <1>1, <1>2, <1>3 DEF Awaits, HasStep, HasKind

\* After the step: the next step is what adjoins the one that was taken.
LEMMA TailHead ==
    ASSUME NEW known, NEW todo, Allowed(todo, known), todo # <<>>, Tail(todo) # <<>>
    PROVE  /\ Adjoins(Head(todo), Head(Tail(todo)))
           /\ Head(Tail(todo)).do # "load"
<1>1. Len(todo) # 1
  <2>1. todo \in Seq(Steps) /\ Tail(todo) \in Seq(Steps) /\ Len(Tail(todo)) = Len(todo) - 1
    BY HeadTailProperties DEF Allowed, WellFormed
  <2>2. Len(Tail(todo)) \in Nat \ {0}
    BY <2>1, EmptySeq
  <2>3. 1 - 1 = 0
    OBVIOUS
  <2> QED
    BY <2>1, <2>2, <2>3, Zenon
<1>2. /\ 2 \in DOMAIN todo /\ Head(Tail(todo)) = todo[2] /\ Head(todo) = todo[1]
      /\ Adjoins(todo[1], todo[2]) /\ Precedes(todo[1], todo[2])
  BY <1>1, ListFacts
<1> QED
  BY <1>2 DEF Precedes

\* A path that is not known has no identifiers; a file that does not exist has
\* nothing in it, and nothing was created from it.
FileOK ==
    /\ ~file.config.known => file.config.path = NewPath
    /\ file.state = "missing" => file.config = defaultConfig /\ \A c \in Chains : ours[c] = {}

\* What a process knows of the file, while no two writing commands overlapped:
\* the copy of a tx clients that has not checked it yet is the file's; the ends it
\* creates clients for have none; and no copy lacks what is in the file.
CopyOK(p) ==
    LET todo == proc[p].todo
        mem == proc[p].mem
    IN  /\ ~mem.known => mem.path = NewPath
        /\ IsNext(p, "check") => mem.known
        /\ (\E c \in Chains : Awaits(todo, c)) => mem.known
        /\ "overlap" \notin blame =>
              /\ HasKind(todo, "check") /\ ~IsNext(p, "load") => mem.path = file.config.path
              /\ \A c \in Chains : Awaits(todo, c) =>
                    mem.path[c] = NoId /\ file.config.path[c] = NoId
              /\ IsNext(p, "write") => file.state = "torn"
              /\ IsNext(p, "create") => file.state = "missing"
        /\ blame \cap {"edit", "overlap"} = {} =>
              (Writes(todo) /\ ~IsNext(p, "load") =>
                 \A c \in Chains : file.config.path[c] # NoId => mem.path[c] = file.config.path[c])
        /\ file.state = "missing" =>
              /\ ~mem.known
              /\ HasKind(todo, "addPath") => mem.chains = {}
              /\ \A c \in Chains : ~Awaits(todo, c)

\* After a client is created the identifier is there until it is recorded, and
\* nothing made the command fail.
GotOK(p) ==
    LET todo == proc[p].todo
    IN  /\ \A c \in Chains :
              /\ HasStep(todo, "send", c) => proc[p].got[c] = NoId
              /\ proc[p].got[c] # NoId => \A i \in DOMAIN todo :
                    todo[i].do \in {"send", "success", "sync", "truncate", "write"}
        /\ blame = {} => (Writes(todo) => ~proc[p].failed)

\* No two processes will write.
OneWriter ==
    "overlap" \notin blame =>
        \A p, q \in Procs : Writes(proc[p].todo) /\ Writes(proc[q].todo) => p = q

\* Somebody is about to write a file that was truncated.
TornIsWritten == blame = {} /\ file.state = "torn" => \E p \in Procs : IsNext(p, "write")

\* The process will record the client.
Knows(p, c, id) ==
    /\ proc[p].got[c] = id
    /\ \/ HasStep(proc[p].todo, "sync", c)
       \/ proc[p].mem.path[c] = id /\ HasKind(proc[p].todo, "write")

\* Every client is recorded, or will be.
Recorded ==
    blame = {} =>
        \A c \in Chains : \A id \in ours[c] :
            file.config.path[c] = id \/ \E p \in Procs : Knows(p, c, id)

PathInv ==
    /\ TypeInv /\ FileOK /\ OneWriter /\ TornIsWritten /\ Recorded
    /\ \A p \in Procs : CopyOK(p) /\ GotOK(p)

\* The file is not disturbed for the other processes: what it holds stays, or it
\* is p who writes.
Undisturbed(p) ==
    /\ OthersKept(p) /\ blame \subseteq blame'
    /\ file'.state = "missing" => file.state = "missing"
    /\ file'.config = file.config \/ Writes(proc[p].todo)
    /\ file'.state = file.state \/ Writes(proc[p].todo)

\* What a process holds in memory stays right while another one takes a step that
\* does not disturb the file.
LEMMA OthersOK ==
    ASSUME PathInv, NEW p \in Procs, Undisturbed(p), NEW q \in Procs, q # p
    PROVE  CopyOK(q)' /\ GotOK(q)'
<1>0. proc'[q] = proc[q] /\ Allowed(proc[q].todo, ours) /\ CopyOK(q) /\ GotOK(q)
  BY DEF PathInv, Undisturbed, OthersKept, TypeInv, Lists
<1>1. GotOK(q)'
  BY <1>0 DEF GotOK, Undisturbed
<1>2. CASE ~Writes(proc[p].todo)
  <2>1. file'.config = file.config /\ file'.state = file.state
    BY <1>2 DEF Undisturbed
  <2>2. CopyOK(q)'
    BY <1>0, <2>1 DEF CopyOK, Undisturbed, IsNext, Running
  <2> QED
    BY <1>1, <2>2
<1>3. CASE Writes(proc[p].todo)
  <2>1. "overlap" \notin blame' => ~Writes(proc[q].todo)
    BY <1>3 DEF PathInv, OneWriter, Undisturbed
  <2>2. "overlap" \notin blame' =>
           /\ ~HasKind(proc[q].todo, "check") /\ ~HasKind(proc[q].todo, "write")
           /\ ~HasKind(proc[q].todo, "create")
           /\ \A c \in Chains : ~Awaits(proc[q].todo, c)
    BY <1>0, <2>1, AwaitsWrites
  <2>3. \A do : IsNext(q, do) => HasKind(proc[q].todo, do)
    BY <1>0, HeadHas DEF IsNext, Running
  <2>4. CopyOK(q)'
    BY <1>0, <2>1, <2>2, <2>3 DEF CopyOK, Undisturbed, IsNext, Running
  <2> QED
    BY <1>1, <2>4
<1> QED
  BY <1>2, <1>3

\* A process that has ended.
LEMMA EndedOK ==
    ASSUME NEW p \in Procs, proc'[p] = Idle
    PROVE  CopyOK(p)' /\ GotOK(p)' /\ ~Writes(proc'[p].todo)
<1>1. /\ proc'[p].todo = <<>> /\ ~proc'[p].mem.known /\ proc'[p].mem.path = NewPath
      /\ proc'[p].mem.chains = {} /\ \A c \in Chains : proc'[p].got[c] = NoId
  BY IdleType
<1>2. /\ \A do : ~HasKind(proc'[p].todo, do) /\ ~IsNext(p, do)'
      /\ \A c : ~Awaits(proc'[p].todo, c)
      /\ ~Writes(proc'[p].todo) /\ \A do, c : ~HasStep(proc'[p].todo, do, c)
  BY <1>1 DEF HasKind, HasStep, Awaits, IsNext, Running, Writes
<1> QED
  BY <1>1, <1>2 DEF CopyOK, GotOK

\* A step that gives up, of a process that has no client to record.
LEMMA PathAbort ==
    ASSUME PathInv, TypeInv', NEW p \in Procs, Running(p), OthersKept(p), proc'[p] = Idle,
           UNCHANGED <<file, ours>>, blame \subseteq blame',
           blame' = {} => /\ ~IsNext(p, "write")
                          /\ \A c \in Chains : \A id \in ours[c] : ~Knows(p, c, id)
    PROVE  PathInv'
<1>1. \A q \in Procs : CopyOK(q)' /\ GotOK(q)'
  BY OthersOK, EndedOK DEF Undisturbed
<1>2. OneWriter'
  BY EndedOK DEF PathInv, OneWriter, OthersKept
<1>3. TornIsWritten'
  BY DEF PathInv, TornIsWritten, OthersKept, IsNext, Running
<1>4. Recorded'
  <2> SUFFICES ASSUME blame' = {}, NEW c \in Chains, NEW id \in ours[c],
                      file.config.path[c] # id
               PROVE  \E q \in Procs : Knows(q, c, id)'
    BY DEF Recorded
  <2>1. PICK q \in Procs : Knows(q, c, id)
    BY DEF PathInv, Recorded
  <2>2. q # p
    BY <2>1
  <2> QED
    BY <2>1, <2>2 DEF Knows, OthersKept
<1>5. FileOK'
  BY DEF PathInv, FileOK
<1> QED
  BY <1>1, <1>2, <1>3, <1>4, <1>5 DEF PathInv

\* The rest of the list of a process that goes on.
LEMMA RestFacts ==
    ASSUME TypeInv, NEW p \in Procs, Running(p), proc'[p].todo = Tail(proc[p].todo), proc'[p].todo # <<>>
    PROVE  /\ Allowed(proc[p].todo, ours) /\ proc[p].todo # <<>>
           /\ ~IsNext(p, "load")' /\ Running(p)'
           /\ Adjoins(Head(proc[p].todo), Head(proc'[p].todo))
           /\ Writes(proc'[p].todo) => Writes(proc[p].todo)
           /\ \A do : HasKind(proc'[p].todo, do) => HasKind(proc[p].todo, do)
           /\ \A do, c : HasStep(proc'[p].todo, do, c) => HasStep(proc[p].todo, do, c)
           /\ \A c : Awaits(proc'[p].todo, c) => Awaits(proc[p].todo, c)
           /\ \A i \in DOMAIN proc'[p].todo :
                 \E j \in DOMAIN proc[p].todo : proc'[p].todo[i] = proc[p].todo[j]
<1>1. Allowed(proc[p].todo, ours) /\ proc[p].todo # <<>>
  BY DEF TypeInv, Lists, Running
<1>2. Adjoins(Head(proc[p].todo), Head(proc'[p].todo)) /\ Head(proc'[p].todo).do # "load"
  BY <1>1, TailHead
<1>3. \A i \in DOMAIN proc'[p].todo :
         \E j \in DOMAIN proc[p].todo : proc'[p].todo[i] = proc[p].todo[j]
  <2>1. \A i \in DOMAIN proc'[p].todo : i + 1 \in DOMAIN proc[p].todo /\ proc'[p].todo[i] = proc[p].todo[i + 1]
    BY <1>1, ListFacts, TailAllowed
  <2> QED
    BY <2>1
<1>4. /\ Writes(proc'[p].todo) => Writes(proc[p].todo)
      /\ \A do : HasKind(proc'[p].todo, do) => HasKind(proc[p].todo, do)
      /\ \A do, c : HasStep(proc'[p].todo, do, c) => HasStep(proc[p].todo, do, c)
  BY <1>1, TailHas
<1> QED
  BY <1>1, <1>2, <1>3, <1>4 DEF IsNext, Running, Awaits

\* The kinds of the steps that concern neither the file nor the creation of a client.
QuietKinds == {"useChain", "addKey", "open", "update", "peek", "trust", "delete", "usePath",
               "success", "addChain", "refresh"}

QuietStep(p) ==
    /\ Running(p) /\ OthersKept(p) /\ UNCHANGED <<file, ours, blame>>
    /\ Head(proc[p].todo).do \in QuietKinds
    /\ proc'[p].todo = Tail(proc[p].todo) /\ proc'[p].todo # <<>>
    /\ proc'[p].mem.path = proc[p].mem.path /\ proc'[p].mem.known = proc[p].mem.known
    /\ proc'[p].got = proc[p].got
    /\ Head(proc[p].todo).do # "refresh" => proc'[p].failed = proc[p].failed
    /\ Head(proc[p].todo).do = "usePath" => proc[p].mem.known

\* Steps that neither write the file nor change what is recorded keep the invariant.
LEMMA PathQuiet ==
    ASSUME PathInv, TypeInv', NEW p \in Procs, QuietStep(p)
    PROVE  PathInv'
<1> DEFINE todo == proc[p].todo
           rest == proc'[p].todo
<1>0. /\ TypeInv /\ CopyOK(p) /\ GotOK(p) /\ Running(p) /\ OthersKept(p) /\ rest = Tail(todo)
      /\ rest # <<>>
  BY DEF PathInv, QuietStep
<1>1. /\ Allowed(todo, ours) /\ todo # <<>> /\ ~IsNext(p, "load")'
      /\ Adjoins(Head(todo), Head(rest))
      /\ Writes(rest) => Writes(todo)
      /\ \A do : HasKind(rest, do) => HasKind(todo, do)
      /\ \A do, c : HasStep(rest, do, c) => HasStep(todo, do, c)
      /\ \A c : Awaits(rest, c) => Awaits(todo, c)
      /\ \A i \in DOMAIN rest : \E j \in DOMAIN todo : rest[i] = todo[j]
  BY <1>0, RestFacts
<1>2. ~IsNext(p, "load") /\ ~IsNext(p, "write")
  BY DEF QuietStep, QuietKinds, IsNext
<1>3. ~HasKind(rest, "addPath")
  <2>1. ~ \E s \in Steps : s.do = "addPath" /\ Precedes(Head(todo), s)
    BY DEF QuietStep, QuietKinds, Precedes
  <2> QED
    BY <1>0, <1>1, <2>1, TailHas
<1>4. Writes(rest) => Head(todo).do # "refresh"
  <2>1. ASSUME Head(todo).do = "refresh", NEW s \in Steps, Precedes(Head(todo), s)
        PROVE  s.do \notin {"create", "truncate", "write", "check"}
    BY <2>1 DEF Precedes
  <2>2. \A do : HasKind(rest, do) => \E s \in Steps : s.do = do /\ Precedes(Head(todo), s)
    BY <1>0, <1>1, TailHas
  <2>3. Writes(rest) => \E do \in {"create", "truncate", "write", "check"} : HasKind(rest, do)
    BY DEF Writes, HasKind
  <2> QED
    BY <2>1, <2>2, <2>3, Zenon
<1>5. /\ IsNext(p, "write")' => FALSE
      /\ IsNext(p, "check")' => Head(todo).do = "usePath"
      /\ ~IsNext(p, "create")'
  BY <1>1 DEF QuietStep, QuietKinds, IsNext, Adjoins
<1>6. CopyOK(p)'
  <2>1. UNCHANGED <<file, blame>> /\ proc'[p].mem.path = proc[p].mem.path
        /\ proc'[p].mem.known = proc[p].mem.known
    BY DEF QuietStep
  <2>2. IsNext(p, "check")' => proc'[p].mem.known
    BY <1>5, <2>1 DEF QuietStep
  <2> HIDE DEF todo, rest
  <2> QED
    BY <1>0, <1>1, <1>2, <1>3, <1>5, <2>1, <2>2 DEF CopyOK, todo, rest
<1>7. GotOK(p)'
  <2>1. proc'[p].got = proc[p].got /\ blame' = blame
    BY DEF QuietStep
  <2>2. Writes(rest) => proc'[p].failed = proc[p].failed
    BY <1>4 DEF QuietStep
  <2>3. \A c \in Chains :
           /\ HasStep(rest, "send", c) => proc'[p].got[c] = NoId
           /\ proc'[p].got[c] # NoId => \A i \in DOMAIN rest :
                 rest[i].do \in {"send", "success", "sync", "truncate", "write"}
    BY <1>0, <1>1, <2>1 DEF GotOK
  <2> QED
    BY <1>0, <1>1, <2>1, <2>2, <2>3 DEF GotOK
<1>8. \A q \in Procs : CopyOK(q)' /\ GotOK(q)'
  BY <1>6, <1>7, OthersOK DEF Undisturbed, QuietStep
<1>9. OneWriter'
  BY <1>1 DEF PathInv, OneWriter, OthersKept, QuietStep
<1>10. TornIsWritten'
  BY <1>2 DEF PathInv, TornIsWritten, OthersKept, IsNext, Running, QuietStep
<1>11. Recorded'
  <2>1. ASSUME NEW c \in Chains, NEW id, Knows(p, c, id) PROVE Knows(p, c, id)'
    <3>1. Head(todo).do # "sync" /\ Head(todo).do # "write"
      BY DEF QuietStep, QuietKinds
    <3>2. /\ HasStep(todo, "sync", c) => HasStep(rest, "sync", c)
          /\ HasKind(todo, "write") => HasKind(rest, "write")
      BY <1>0, <1>1, <3>1, TailHas
    <3> QED
      BY <2>1, <3>2 DEF Knows, QuietStep
  <2>2. ASSUME NEW q \in Procs, NEW c \in Chains, NEW id, Knows(q, c, id) PROVE Knows(q, c, id)'
    BY <2>1, <2>2 DEF Knows, QuietStep, OthersKept
  <2> QED
    BY <2>2 DEF PathInv, Recorded, QuietStep
<1>12. FileOK'
  BY DEF PathInv, FileOK, QuietStep
<1> QED
  BY <1>8, <1>9, <1>10, <1>11, <1>12 DEF PathInv

\* A process at a step of another kind than those after the creation of a client
\* knows of none that is not recorded.
LEMMA KnowsNone ==
    ASSUME PathInv, NEW p \in Procs, Running(p),
           Head(proc[p].todo).do \notin {"send", "success", "sync", "truncate", "write"}
    PROVE  \A c \in Chains : \A id \in ours[c] : ~Knows(p, c, id)
<1>1. GotOK(p) /\ Allowed(proc[p].todo, ours) /\ proc[p].todo # <<>>
  BY DEF PathInv, TypeInv, Lists, Running
<1>2. 1 \in DOMAIN proc[p].todo /\ Head(proc[p].todo) = proc[p].todo[1]
  BY <1>1, ListFacts
<1>3. \A c \in Chains : proc[p].got[c] = NoId
  BY <1>1, <1>2 DEF GotOK
<1>4. \A c \in Chains : NoId \notin ours[c]
  BY ConstantTypes DEF PathInv, TypeInv, TypeOK
<1> QED
  BY <1>3, <1>4 DEF Knows

\* A step that ends the list, or goes on.
LEMMA ContinueEnds ==
    ASSUME TypeInv, NEW p \in Procs, Running(p), NEW new \in ProcType, Continue(p, new)
    PROVE  /\ OthersKept(p)
           /\ \/ proc'[p] = Idle /\ Len(proc[p].todo) = 1
              \/ Holds(p, new) /\ proc'[p].todo # <<>>
<1>1. OthersKept(p) /\ ((proc'[p] = Idle /\ Len(proc[p].todo) = 1) \/ Holds(p, new))
  BY ContinueStep DEF TypeInv
<1>2. Holds(p, new) => proc'[p].todo # <<>>
  <2>1. Allowed(proc[p].todo, ours) /\ proc[p].todo # <<>>
    BY DEF TypeInv, Lists, Running
  <2> QED
    BY <2>1, ListFacts DEF Holds
<1> QED
  BY <1>1, <1>2

\* The quiet steps.
LEMMA PathQuietSteps ==
    ASSUME PathInv, TypeInv', NEW p \in Procs,
           \/ UseChain(p) \/ AddKey(p) \/ NewLightDB(p) \/ UpdateLightClient(p) \/ Peek(p)
           \/ LightClientWithTrust(p) \/ DeleteLightDB(p) \/ ChainsFromPath(p) \/ Success(p)
           \/ AddChain(p) \/ Refresh(p)
    PROVE  PathInv'
<1> DEFINE d == Head(proc[p].todo).do
<1>0. TypeInv /\ TypeOK /\ Running(p) /\ proc[p] \in ProcType /\ OthersKept(p)
  BY TakeOthers DEF PathInv, TypeInv, TypeOK, ProcType, Take, IsNext, UseChain, AddKey, NewLightDB,
         UpdateLightClient, Peek, LightClientWithTrust, DeleteLightDB, ChainsFromPath, Success,
         AddChain, Refresh
<1>1. UNCHANGED <<file, ours, blame>> /\ d \in QuietKinds
  BY DEF UseChain, AddKey, NewLightDB, UpdateLightClient, Peek, LightClientWithTrust,
         DeleteLightDB, ChainsFromPath, Success, AddChain, Refresh, QuietKinds, IsNext
<1>2. ASSUME proc'[p] = Idle, d # "success" \/ Len(proc[p].todo) = 1 \/ proc[p].failed PROVE PathInv'
  <2>1. \A c \in Chains : \A id \in ours[c] : blame = {} => ~Knows(p, c, id)
    <3>1. CASE d # "success"
      BY <1>0, <1>1, <3>1, KnowsNone DEF QuietKinds
    <3>2. CASE d = "success" /\ Len(proc[p].todo) = 1
      <4>1. DOMAIN proc[p].todo = 1..1 /\ proc[p].todo[1].do = "success"
        BY <1>0, <3>2, ListFacts DEF TypeInv, Lists, Running
      <4>2. \A c : ~HasStep(proc[p].todo, "sync", c) /\ ~HasKind(proc[p].todo, "write")
        BY <4>1 DEF HasStep, HasKind
      <4> QED
        BY <4>2 DEF Knows
    <3>3. CASE proc[p].failed
      <4>1. GotOK(p) /\ Allowed(proc[p].todo, ours)
        BY DEF PathInv, TypeInv, Lists
      <4>2. blame = {} => ~HasKind(proc[p].todo, "write") /\ \A c : ~HasStep(proc[p].todo, "sync", c)
        <5>1. blame = {} => ~Writes(proc[p].todo)
          BY <3>3, <4>1 DEF GotOK
        <5>2. \A c : HasStep(proc[p].todo, "sync", c) => HasKind(proc[p].todo, "sync")
          BY DEF HasStep, HasKind
        <5> QED
          BY <4>1, <5>1, <5>2, AwaitsWrites
      <4> QED
        BY <4>2 DEF Knows
    <3> QED
      BY <1>2, <3>1, <3>2, <3>3
  <2>2. ~IsNext(p, "write")
    BY <1>1 DEF QuietKinds, IsNext
  <2> QED
    BY <1>0, <1>1, <1>2, <2>1, <2>2, PathAbort
<1>3. ASSUME NEW new \in ProcType, Continue(p, new),
             new.mem.path = proc[p].mem.path, new.mem.known = proc[p].mem.known,
             new.got = proc[p].got, d # "refresh" => new.failed = proc[p].failed,
             d = "usePath" => proc[p].mem.known
      PROVE  PathInv'
  <2>1. CASE proc'[p] = Idle /\ Len(proc[p].todo) = 1
    BY <1>2, <2>1
  <2>2. CASE Holds(p, new) /\ proc'[p].todo # <<>>
    <3>1. QuietStep(p)
      BY <1>0, <1>1, <1>3, <2>2 DEF QuietStep, Holds
    <3> QED
      BY <3>1, PathQuiet
  <2> QED
    BY <1>0, <1>3, <2>1, <2>2, ContinueEnds
<1>4. ASSUME Abort(p), d # "success" \/ proc[p].failed PROVE PathInv'
  BY <1>0, <1>2, <1>4, AbortStep
<1>5. [proc[p] EXCEPT !.db = {}] \in ProcType /\ [proc[p] EXCEPT !.db = {}].mem = proc[p].mem
      /\ [proc[p] EXCEPT !.db = {}].got = proc[p].got
      /\ [proc[p] EXCEPT !.db = {}].failed = proc[p].failed
  BY <1>0 DEF ProcType
<1>p. Place(p) \in Chains
  <2>1. IsNext(p, d)
    BY <1>0 DEF IsNext
  <2> QED
    BY <1>0, <2>1, TakenStep
<1>6. CASE UseChain(p)
  <2>1. d = "useChain"
    BY <1>6 DEF UseChain, IsNext
  <2> HIDE DEF d
  <2> QED
    BY <1>0, <1>3, <1>4, <2>1, <1>6 DEF UseChain
<1>7. CASE AddKey(p)
  <2>1. d = "addKey"
    BY <1>7 DEF AddKey, IsNext
  <2> HIDE DEF d
  <2> QED
    BY <1>0, <1>3, <1>4, <2>1, <1>7 DEF AddKey
<1>8. CASE NewLightDB(p)
  <2> DEFINE new == [proc[p] EXCEPT !.db = light[Place(p)]]
  <2>1. d = "open"
    BY <1>8 DEF NewLightDB, IsNext
  <2>2. new \in ProcType /\ new.mem = proc[p].mem /\ new.got = proc[p].got /\ new.failed = proc[p].failed
    BY <1>0, <1>p DEF ProcType, TypeOK
  <2>3. Continue(p, new) \/ Abort(p)
    BY <1>8 DEF NewLightDB
  <2> HIDE DEF d, new
  <2> QED
    BY <1>3, <1>4, <2>1, <2>2, <2>3
<1>9. CASE UpdateLightClient(p)
  <2> DEFINE h == IF Arg(p) = 0 THEN now ELSE Arg(p)
             new == [proc[p] EXCEPT !.header[Place(p)] = h, !.db = {}]
  <2>1. d = "update"
    BY <1>9 DEF UpdateLightClient, IsNext
  <2>2. h \in Heights
    <3>1. Fits(Head(proc[p].todo), ours)
      BY <1>0, <1>9, TakenStep DEF UpdateLightClient
    <3> QED
      BY <1>0, <2>1, <3>1 DEF TypeOK, Fits, Heights, Arg
  <2>3. new \in ProcType /\ new.mem = proc[p].mem /\ new.got = proc[p].got /\ new.failed = proc[p].failed
    <3> HIDE DEF h
    <3> QED
      BY <1>0, <1>p, <2>2 DEF ProcType
  <2>4. Continue(p, new) \/ Abort(p)
    BY <1>9 DEF UpdateLightClient
  <2> HIDE DEF d, new
  <2> QED
    BY <1>3, <1>4, <2>1, <2>3, <2>4
<1>10. CASE Peek(p)
  <2>1. d = "peek"
    BY <1>10 DEF Peek, IsNext
  <2>2. Continue(p, [proc[p] EXCEPT !.db = {}]) \/ Abort(p)
    BY <1>10 DEF Peek
  <2> HIDE DEF d
  <2> QED
    BY <1>3, <1>4, <1>5, <2>1, <2>2
<1>11. CASE LightClientWithTrust(p)
  <2>1. d = "trust"
    BY <1>11 DEF LightClientWithTrust, IsNext
  <2>2. Continue(p, [proc[p] EXCEPT !.db = {}]) \/ Abort(p)
    BY <1>11 DEF LightClientWithTrust
  <2> HIDE DEF d
  <2> QED
    BY <1>3, <1>4, <1>5, <2>1, <2>2
<1>12. CASE DeleteLightDB(p)
  <2>1. d = "delete"
    BY <1>12 DEF DeleteLightDB, IsNext
  <2> HIDE DEF d
  <2> QED
    BY <1>0, <1>3, <1>4, <2>1, <1>12 DEF DeleteLightDB
<1>13. CASE ChainsFromPath(p)
  <2>1. d = "usePath"
    BY <1>13 DEF ChainsFromPath, IsNext
  <2> HIDE DEF d
  <2> QED
    BY <1>0, <1>3, <1>4, <2>1, <1>13 DEF ChainsFromPath
<1>14. CASE Success(p)
  <2>1. d = "success"
    BY <1>14 DEF Success, IsNext
  <2> HIDE DEF d
  <2> QED
    BY <1>0, <1>3, <1>4, <2>1, <1>14 DEF Success
<1>15. CASE AddChain(p)
  <2> DEFINE m == [proc[p].mem EXCEPT !.chains = @ \cup {Place(p)}]
             new == [proc[p] EXCEPT !.mem = m]
  <2>1. d = "addChain"
    BY <1>15 DEF AddChain, IsNext
  <2>2. m \in Configs /\ m.path = proc[p].mem.path /\ m.known = proc[p].mem.known
    BY <1>0, <1>p DEF ProcType, Configs
  <2>3. Continue(p, new) \/ Abort(p)
    BY <1>15 DEF AddChain
  <2>4. new \in ProcType /\ new.mem = m /\ new.got = proc[p].got /\ new.failed = proc[p].failed
    <3> HIDE DEF m
    <3> QED
      BY <1>0, <2>2, NewMem
  <2> HIDE DEF d, m, new
  <2> QED
    BY <1>3, <1>4, <2>1, <2>2, <2>3, <2>4
<1>16. CASE Refresh(p)
  <2>1. d = "refresh"
    BY <1>16 DEF Refresh, IsNext
  <2>2. \A b \in BOOLEAN : /\ [proc[p] EXCEPT !.failed = b] \in ProcType
                           /\ [proc[p] EXCEPT !.failed = b].mem = proc[p].mem
                           /\ [proc[p] EXCEPT !.failed = b].got = proc[p].got
    BY <1>0 DEF ProcType
  <2>3. Abort(p) \/ \E b \in BOOLEAN : Continue(p, [proc[p] EXCEPT !.failed = b])
    BY <1>16 DEF Refresh
  <2> HIDE DEF d
  <2> QED
    BY <1>3, <1>4, <2>1, <2>2, <2>3
<1> QED
  BY <1>6, <1>7, <1>8, <1>9, <1>10, <1>11, <1>12, <1>13, <1>14, <1>15, <1>16

\* A step of p that leaves the file and the clients alone, and after which p still
\* has what it has to record.
LEMMA PathGoesOn ==
    ASSUME PathInv, TypeInv', NEW p \in Procs, OthersKept(p), UNCHANGED <<file, ours>>,
           blame \subseteq blame', Writes(proc'[p].todo) => Writes(proc[p].todo),
           ~IsNext(p, "write"), CopyOK(p)', GotOK(p)',
           blame' = {} => \A c \in Chains : \A id \in ours[c] :
                             Knows(p, c, id) => Knows(p, c, id)'
    PROVE  PathInv'
<1>1. \A q \in Procs : CopyOK(q)' /\ GotOK(q)'
  BY OthersOK DEF Undisturbed
<1>2. OneWriter'
  BY DEF PathInv, OneWriter, OthersKept
<1>3. TornIsWritten'
  BY DEF PathInv, TornIsWritten, OthersKept, IsNext, Running
<1>4. Recorded'
  <2> SUFFICES ASSUME blame' = {}, NEW c \in Chains, NEW id \in ours[c],
                      file.config.path[c] # id
               PROVE  \E q \in Procs : Knows(q, c, id)'
    BY DEF Recorded
  <2>1. PICK q \in Procs : Knows(q, c, id)
    BY DEF PathInv, Recorded
  <2>2. CASE q # p
    BY <2>1, <2>2 DEF Knows, OthersKept
  <2>3. CASE q = p
    BY <2>1, <2>3
  <2> QED
    BY <2>2, <2>3
<1>5. FileOK'
  BY DEF PathInv, FileOK
<1> QED
  BY <1>1, <1>2, <1>3, <1>4, <1>5 DEF PathInv

\* A list whose first step is none of those before the creation of clients and is
\* not the start creates none, and one that has begun holds no check but behind
\* usePath.
LEMMA AfterHead ==
    ASSUME TypeInv, NEW p \in Procs, Running(p), proc'[p].todo = Tail(proc[p].todo)
    PROVE  /\ \A c : Awaits(proc'[p].todo, c) =>
                 Head(proc[p].todo).do \in {"open", "update", "send", "success", "sync",
                                            "truncate", "write"}
           /\ \A c : HasStep(proc'[p].todo, "send", c) =>
                 Head(proc[p].todo).do \in {"open", "update", "send"}
           /\ HasKind(proc'[p].todo, "check") => Head(proc[p].todo).do \in {"load", "usePath"}
           /\ HasKind(proc'[p].todo, "addPath") => Head(proc[p].todo).do = "load"
           /\ \A do \in {"send", "sync"} :
                 Head(proc[p].todo).do = do => ~HasStep(proc'[p].todo, do, Head(proc[p].todo).at)
<1>1. Allowed(proc[p].todo, ours) /\ proc[p].todo # <<>>
  BY DEF TypeInv, Lists, Running
<1>2. /\ \A do : HasKind(proc'[p].todo, do) =>
            \E s \in Steps : s.do = do /\ Precedes(Head(proc[p].todo), s)
      /\ \A do, c : HasStep(proc'[p].todo, do, c) =>
            \E s \in Steps : s.do = do /\ s.at = c /\ Precedes(Head(proc[p].todo), s)
  BY <1>1, TailHas
<1>3. \A c : HasStep(proc'[p].todo, "send", c) => Head(proc[p].todo).do \in {"open", "update", "send"}
  BY <1>2 DEF Precedes
<1>4. \A c : HasStep(proc'[p].todo, "sync", c) =>
         Head(proc[p].todo).do \in {"open", "update", "send", "success", "sync", "truncate", "write"}
  BY <1>2 DEF Precedes
<1>5. /\ HasKind(proc'[p].todo, "check") => Head(proc[p].todo).do \in {"load", "usePath"}
      /\ HasKind(proc'[p].todo, "addPath") => Head(proc[p].todo).do = "load"
  BY <1>2 DEF Precedes
<1>6. \A do \in {"send", "sync"} :
         Head(proc[p].todo).do = do => ~HasStep(proc'[p].todo, do, Head(proc[p].todo).at)
  BY <1>2 DEF Precedes
<1> QED
  BY <1>3, <1>4, <1>5, <1>6 DEF Awaits

\* A process that has not created a client has nothing to lose.
LEMMA PathGivesUp ==
    ASSUME PathInv, TypeInv', NEW p \in Procs, Running(p), Abort(p),
           UNCHANGED <<file, ours>>, blame \subseteq blame',
           Head(proc[p].todo).do \notin {"send", "success", "sync", "truncate", "write"}
    PROVE  PathInv'
<1>1. OthersKept(p) /\ proc'[p] = Idle
  BY AbortStep DEF PathInv, TypeInv
<1>2. ~IsNext(p, "write")
  BY DEF IsNext
<1> QED
  BY <1>1, <1>2, PathAbort, KnowsNone

\* No process has a client of its own at a step before the creation of one.
LEMMA GotNone ==
    ASSUME PathInv, NEW p \in Procs, Running(p),
           Head(proc[p].todo).do \notin {"send", "success", "sync", "truncate", "write"}
    PROVE  \A c \in Chains : proc[p].got[c] = NoId
<1>1. GotOK(p) /\ Allowed(proc[p].todo, ours) /\ proc[p].todo # <<>>
  BY DEF PathInv, TypeInv, Lists, Running
<1>2. 1 \in DOMAIN proc[p].todo /\ Head(proc[p].todo) = proc[p].todo[1]
  BY <1>1, ListFacts
<1> QED
  BY <1>1, <1>2 DEF GotOK

\* Reading the file.
LEMMA PathLoad ==
    ASSUME PathInv, TypeInv', NEW p \in Procs, Load(p)
    PROVE  PathInv'
<1> DEFINE new == [proc[p] EXCEPT !.mem = UnmarshalConfig]
<1>0. /\ TypeInv /\ TypeOK /\ Running(p) /\ proc[p] \in ProcType /\ Head(proc[p].todo).do = "load"
      /\ UNCHANGED <<file, ours, blame>> /\ (Abort(p) \/ Continue(p, new))
  BY TakenStep DEF PathInv, TypeInv, Load
<1>1. proc[p].failed = FALSE
  BY <1>0 DEF TypeInv, NewProcs, Idle, IsNext
<1>2. /\ UnmarshalConfig \in Configs /\ UnmarshalConfig.path = file.config.path
      /\ ~UnmarshalConfig.known => UnmarshalConfig.path = NewPath
      /\ file.state = "missing" => ~UnmarshalConfig.known /\ UnmarshalConfig.chains = {}
  BY <1>0, IdleType DEF PathInv, FileOK, UnmarshalConfig, TypeOK, Files, defaultConfig
<1>3. new \in ProcType /\ new.mem = UnmarshalConfig /\ new.got = proc[p].got /\ new.failed = FALSE
  BY <1>0, <1>1, <1>2, NewMem
<1> HIDE DEF new
<1>4. ~IsNext(p, "write") /\ \A c \in Chains : \A id \in ours[c] : ~Knows(p, c, id)
  BY <1>0, KnowsNone DEF IsNext
<1>5. CASE proc'[p] = Idle /\ OthersKept(p)
  BY <1>0, <1>4, <1>5, PathAbort
<1>6. CASE Holds(p, new) /\ proc'[p].todo # <<>> /\ OthersKept(p)
  <2>1. /\ proc'[p].todo = Tail(proc[p].todo) /\ proc'[p].mem = UnmarshalConfig
        /\ proc'[p].got = proc[p].got /\ ~proc'[p].failed
    BY <1>3, <1>6 DEF Holds
  <2>2. /\ Adjoins(Head(proc[p].todo), Head(proc'[p].todo)) /\ ~IsNext(p, "load")'
        /\ Writes(proc'[p].todo) => Writes(proc[p].todo)
    BY <1>0, <1>6, <2>1, RestFacts
  <2>3. \A c : ~Awaits(proc'[p].todo, c)
    BY <1>0, <2>1, AfterHead
  <2>4. ~IsNext(p, "check")' /\ ~IsNext(p, "create")' /\ ~IsNext(p, "write")'
    BY <1>0, <2>2 DEF Adjoins, IsNext
  <2>5. CopyOK(p)'
    BY <1>0, <1>2, <2>1, <2>3, <2>4 DEF CopyOK
  <2>6. GotOK(p)'
    BY <1>0, <2>1, GotNone DEF GotOK
  <2> QED
    BY <1>0, <1>4, <1>6, <2>2, <2>5, <2>6, PathGoesOn
<1> QED
  BY <1>0, <1>3, <1>5, <1>6, ContinueEnds, AbortStep
\* Adding a path: a process that knows of none read none from the file.
LEMMA PathAddPath ==
    ASSUME PathInv, TypeInv', NEW p \in Procs, AddPath(p)
    PROVE  PathInv'
<1> DEFINE path == IF Arg(p) = Typo THEN MistypedPath ELSE NewPath
           m == [proc[p].mem EXCEPT !.known = TRUE, !.path = path]
           new == [proc[p] EXCEPT !.mem = m]
<1>0. /\ TypeInv /\ TypeOK /\ Running(p) /\ proc[p] \in ProcType /\ Head(proc[p].todo).do = "addPath"
      /\ UNCHANGED <<file, ours, blame>> /\ CopyOK(p) /\ GotOK(p)
  BY TakenStep DEF PathInv, TypeInv, AddPath
<1>1. Abort(p) \/ ("src" \in proc[p].mem.chains /\ ~proc[p].mem.known /\ Continue(p, new))
  BY DEF AddPath
<1>2. m \in Configs /\ m.known /\ m.path = path /\ m.chains = proc[p].mem.chains
  BY <1>0, IdleType DEF ProcType, Configs
<1>3. new \in ProcType /\ new.mem = m /\ new.got = proc[p].got /\ new.failed = proc[p].failed
  <2> HIDE DEF m
  <2> QED
    BY <1>0, <1>2, NewMem
<1> HIDE DEF new, m, path
<1>4. ~IsNext(p, "write") /\ \A c \in Chains : \A id \in ours[c] : ~Knows(p, c, id)
  BY <1>0, KnowsNone DEF IsNext
<1>5. CASE proc'[p] = Idle /\ OthersKept(p)
  BY <1>0, <1>4, <1>5, PathAbort
<1>6. CASE /\ Holds(p, new) /\ proc'[p].todo # <<>> /\ OthersKept(p)
           /\ "src" \in proc[p].mem.chains /\ ~proc[p].mem.known
  <2>1. /\ proc'[p].todo = Tail(proc[p].todo) /\ proc'[p].mem = m
        /\ proc'[p].got = proc[p].got /\ proc'[p].failed = proc[p].failed
    BY <1>3, <1>6 DEF Holds
  <2>2. /\ Adjoins(Head(proc[p].todo), Head(proc'[p].todo)) /\ ~IsNext(p, "load")'
        /\ Writes(proc'[p].todo) => Writes(proc[p].todo)
    BY <1>0, <1>6, <2>1, RestFacts
  <2>3. (\A c : ~Awaits(proc'[p].todo, c)) /\ ~HasKind(proc'[p].todo, "check")
    BY <1>0, <2>1, AfterHead
  <2>4. ~IsNext(p, "check")' /\ ~IsNext(p, "create")' /\ ~IsNext(p, "write")'
    BY <1>0, <2>2 DEF Adjoins, IsNext
  <2>5. HasKind(proc[p].todo, "addPath") /\ ~IsNext(p, "load")
    BY <1>0, HeadHas DEF TypeInv, Lists, Running, IsNext
  <2>6. file.state # "missing"
    BY <1>0, <1>6, <2>5 DEF CopyOK
  <2>7. blame \cap {"edit", "overlap"} = {} /\ Writes(proc[p].todo) =>
           \A c \in Chains : file.config.path[c] = NoId
    BY <1>0, <1>6, <2>5 DEF CopyOK, NewPath
  <2>8. CopyOK(p)'
    BY <1>0, <1>2, <2>1, <2>2, <2>3, <2>4, <2>6, <2>7 DEF CopyOK
  <2>9. GotOK(p)'
    BY <1>0, <2>1, <2>2, GotNone DEF GotOK
  <2> QED
    BY <1>0, <1>4, <1>6, <2>2, <2>8, <2>9, PathGoesOn
<1> QED
  BY <1>0, <1>1, <1>3, <1>5, <1>6, ContinueEnds, AbortStep

\* An operator's edit.
LEMMA PathEdit ==
    ASSUME PathInv, TypeInv', NEW p \in Procs, Edit(p)
    PROVE  PathInv'
<1> DEFINE m == [proc[p].mem EXCEPT !.path[Place(p)] = Arg(p)]
           new == [proc[p] EXCEPT !.mem = m]
<1>0. /\ TypeInv /\ TypeOK /\ Running(p) /\ proc[p] \in ProcType /\ Head(proc[p].todo).do = "edit"
      /\ UNCHANGED <<file, ours>> /\ blame \subseteq blame' /\ CopyOK(p) /\ GotOK(p)
      /\ Place(p) \in Chains /\ Fits(Head(proc[p].todo), ours)
  BY TakenStep DEF PathInv, TypeInv, Edit
<1>1. Abort(p) \/ (proc[p].mem.known /\ "edit" \in blame' /\ Continue(p, new))
  BY DEF Edit
<1>2. m \in Configs /\ m.known = proc[p].mem.known
  <2>1. Arg(p) \in 0..Typo
    BY <1>0, ConstantTypes DEF Fits, Arg, Place, TypeOK
  <2> QED
    BY <1>0, <2>1 DEF ProcType, Configs
<1>3. new \in ProcType /\ new.mem = m /\ new.got = proc[p].got /\ new.failed = proc[p].failed
  <2> HIDE DEF m
  <2> QED
    BY <1>0, <1>2, NewMem
<1> HIDE DEF new, m
<1>4. ~IsNext(p, "write") /\ \A c \in Chains : \A id \in ours[c] : ~Knows(p, c, id)
  BY <1>0, KnowsNone DEF IsNext
<1>5. CASE proc'[p] = Idle /\ OthersKept(p)
  BY <1>0, <1>4, <1>5, PathAbort
<1>6. CASE /\ Holds(p, new) /\ proc'[p].todo # <<>> /\ OthersKept(p)
           /\ proc[p].mem.known /\ "edit" \in blame'
  <2>1. /\ proc'[p].todo = Tail(proc[p].todo) /\ proc'[p].mem = m
        /\ proc'[p].got = proc[p].got /\ proc'[p].failed = proc[p].failed
    BY <1>3, <1>6 DEF Holds
  <2>2. /\ Adjoins(Head(proc[p].todo), Head(proc'[p].todo)) /\ ~IsNext(p, "load")'
        /\ Writes(proc'[p].todo) => Writes(proc[p].todo)
    BY <1>0, <1>6, <2>1, RestFacts
  <2>3. (\A c : ~Awaits(proc'[p].todo, c)) /\ ~HasKind(proc'[p].todo, "check")
    BY <1>0, <2>1, AfterHead
  <2>4. ~IsNext(p, "check")' /\ ~IsNext(p, "create")' /\ ~IsNext(p, "write")'
    BY <1>0, <2>2 DEF Adjoins, IsNext
  <2>5. file.state # "missing"
    BY <1>0, <1>6 DEF CopyOK
  <2>6. CopyOK(p)'
    BY <1>0, <1>2, <1>6, <2>1, <2>2, <2>3, <2>4, <2>5 DEF CopyOK
  <2>7. GotOK(p)'
    BY <1>0, <1>6, <2>1, <2>2, GotNone DEF GotOK
  <2> QED
    BY <1>0, <1>4, <1>6, <2>2, <2>6, <2>7, PathGoesOn
<1> QED
  BY <1>0, <1>1, <1>3, <1>5, <1>6, ContinueEnds, AbortStep

\* The check of tx clients: the ends that get a client have none in the file.
LEMMA PathCheck ==
    ASSUME PathInv, TypeInv', NEW p \in Procs, CheckCreateClients(p)
    PROVE  PathInv'
<1> DEFINE missing == MissingEnds(proc[p].mem.path)
<1>0. /\ TypeInv /\ TypeOK /\ Running(p) /\ proc[p] \in ProcType /\ Head(proc[p].todo).do = "check"
      /\ UNCHANGED <<file, ours, blame>> /\ CopyOK(p) /\ GotOK(p) /\ IsNext(p, "check")
      /\ Allowed(proc[p].todo, ours) /\ proc[p].todo # <<>>
  BY TakenStep DEF PathInv, TypeInv, CheckCreateClients, Lists, Running
<1>1. CASE Abort(p)
  BY <1>0, <1>1, PathGivesUp
<1>2. CASE /\ CreatesFor(proc'[p].todo, missing) /\ OthersKept(p)
           /\ Head(proc'[p].todo).do \in {"open", "send"}
           /\ proc'[p].mem = proc[p].mem /\ proc'[p].got = proc[p].got
           /\ proc'[p].failed = proc[p].failed
  <2>1. Writes(proc[p].todo) /\ HasKind(proc[p].todo, "check") /\ ~IsNext(p, "load") /\ ~IsNext(p, "write")
    BY <1>0, HeadHas DEF IsNext
  <2>2. /\ ~IsNext(p, "load")' /\ ~IsNext(p, "check")' /\ ~IsNext(p, "create")' /\ ~IsNext(p, "write")'
    BY <1>2 DEF IsNext
  <2>3. /\ ~HasKind(proc'[p].todo, "check")
        /\ \A c \in Chains : Awaits(proc'[p].todo, c) => proc[p].mem.path[c] = NoId
    BY <1>2 DEF CreatesFor, HasKind, HasStep, Awaits, MissingEnds
  <2>4. proc[p].mem.known /\ file.state # "missing"
    BY <1>0 DEF CopyOK
  <2>5. CopyOK(p)'
    <3> HIDE DEF missing
    <3> QED
      BY <1>0, <1>2, <2>1, <2>2, <2>3, <2>4 DEF CopyOK
  <2>6. GotOK(p)'
    BY <1>0, <1>2, <2>1, GotNone DEF GotOK
  <2> QED
    BY <1>0, <1>2, <2>1, <2>5, <2>6, PathGoesOn, KnowsNone
<1> QED
  BY <1>0, <1>1, <1>2, CheckStep
\* A file is looked for: the one that creates it goes on.
LEMMA PathStat ==
    ASSUME PathInv, TypeInv', NEW p \in Procs, Stat(p)
    PROVE  PathInv'
<1>0. /\ TypeInv /\ TypeOK /\ Running(p) /\ proc[p] \in ProcType /\ Head(proc[p].todo).do = "stat"
      /\ UNCHANGED <<file, ours, blame>> /\ CopyOK(p) /\ GotOK(p)
      /\ (Abort(p) \/ (file.state = "missing" /\ Continue(p, proc[p])))
  BY TakenStep DEF PathInv, TypeInv, Stat
<1>1. ~IsNext(p, "write") /\ ~IsNext(p, "load") /\ \A c \in Chains : \A id \in ours[c] : ~Knows(p, c, id)
  BY <1>0, KnowsNone DEF IsNext
<1>2. CASE Abort(p)
  BY <1>0, <1>2, PathGivesUp
<1>3. CASE proc'[p] = Idle /\ OthersKept(p)
  BY <1>0, <1>1, <1>3, PathAbort
<1>4. CASE Holds(p, proc[p]) /\ proc'[p].todo # <<>> /\ OthersKept(p) /\ file.state = "missing"
  <2>1. /\ proc'[p].todo = Tail(proc[p].todo) /\ proc'[p].mem = proc[p].mem
        /\ proc'[p].got = proc[p].got /\ proc'[p].failed = proc[p].failed
    BY <1>4 DEF Holds
  <2>2. /\ Adjoins(Head(proc[p].todo), Head(proc'[p].todo)) /\ ~IsNext(p, "load")'
        /\ Writes(proc'[p].todo) => Writes(proc[p].todo)
    BY <1>0, <1>4, <2>1, RestFacts
  <2>3. /\ \A c : ~Awaits(proc'[p].todo, c)
        /\ ~HasKind(proc'[p].todo, "check") /\ ~HasKind(proc'[p].todo, "addPath")
    BY <1>0, <2>1, AfterHead
  <2>4. ~IsNext(p, "check")' /\ ~IsNext(p, "write")'
    BY <1>0, <2>2 DEF Adjoins, IsNext
  <2>5. CopyOK(p)'
    BY <1>0, <1>1, <1>4, <2>1, <2>2, <2>3, <2>4 DEF CopyOK
  <2>6. GotOK(p)'
    BY <1>0, <2>1, <2>2, GotNone DEF GotOK
  <2> QED
    BY <1>0, <1>1, <1>4, <2>2, <2>5, <2>6, PathGoesOn
<1> QED
  BY <1>0, <1>2, <1>3, <1>4, ContinueEnds

\* A file is created empty, to be written next: the one that was missing before,
\* unless two writing commands overlapped.
LEMMA PathCreateConfig ==
    ASSUME PathInv, TypeInv', NEW p \in Procs, CreateConfig(p)
    PROVE  PathInv'
<1> DEFINE new == [proc[p] EXCEPT !.mem = defaultConfig]
<1>0. /\ TypeInv /\ TypeOK /\ Running(p) /\ proc[p] \in ProcType /\ Head(proc[p].todo).do = "create"
      /\ UNCHANGED <<ours, blame>> /\ CopyOK(p) /\ GotOK(p) /\ FileOK /\ IsNext(p, "create")
      /\ Allowed(proc[p].todo, ours) /\ proc[p].todo # <<>> /\ Continue(p, new)
  BY TakenStep DEF PathInv, TypeInv, CreateConfig, Lists, Running
<1>1. file'.state = "torn" /\ file'.config = file.config
  BY <1>0 DEF CreateConfig, TypeOK, Files
<1>2. new \in ProcType /\ new.mem = defaultConfig /\ new.got = proc[p].got /\ new.failed = proc[p].failed
  BY <1>0, IdleType, NewMem
<1> HIDE DEF new
<1>3. Len(proc[p].todo) # 1
  <2>1. /\ 1 \in DOMAIN proc[p].todo /\ proc[p].todo[1].do = "create"
        /\ DOMAIN proc[p].todo = 1..Len(proc[p].todo) /\ Len(proc[p].todo) \in Nat
    BY <1>0, ListFacts
  <2>2. 1 + 1 \in DOMAIN proc[p].todo
    BY <1>0, <2>1, Zenon DEF Allowed, WellFormed
  <2>3. \A n \in Nat : 1 + 1 \in 1..n => n # 1
    OBVIOUS
  <2> QED
    BY <2>1, <2>2, <2>3
<1>4. OthersKept(p) /\ Holds(p, new) /\ proc'[p].todo # <<>>
  BY <1>0, <1>2, <1>3, ContinueEnds
<1>5. /\ proc'[p].todo = Tail(proc[p].todo) /\ proc'[p].mem = defaultConfig
      /\ proc'[p].got = proc[p].got /\ proc'[p].failed = proc[p].failed
  BY <1>2, <1>4 DEF Holds
<1>6. /\ Adjoins(Head(proc[p].todo), Head(proc'[p].todo)) /\ ~IsNext(p, "load")' /\ Running(p)'
      /\ Writes(proc'[p].todo) => Writes(proc[p].todo)
      /\ Writes(proc[p].todo)
  BY <1>0, <1>4, <1>5, RestFacts, HeadHas
<1>7. (\A c : ~Awaits(proc'[p].todo, c)) /\ ~HasKind(proc'[p].todo, "check")
  BY <1>0, <1>5, AfterHead
<1>8. ~IsNext(p, "check")' /\ ~IsNext(p, "create")' /\ IsNext(p, "write")'
  BY <1>0, <1>6 DEF Adjoins, IsNext
<1>9. "overlap" \notin blame => file.config = defaultConfig
  BY <1>0 DEF CopyOK, FileOK
<1>10. CopyOK(p)'
  BY <1>0, <1>1, <1>5, <1>7, <1>8, <1>9 DEF CopyOK, defaultConfig
<1>11. GotOK(p)'
  BY <1>0, <1>5, <1>6, GotNone DEF GotOK
<1>12. \A q \in Procs : CopyOK(q)' /\ GotOK(q)'
  BY <1>0, <1>1, <1>4, <1>6, <1>10, <1>11, OthersOK DEF Undisturbed
<1>13. OneWriter'
  BY <1>0, <1>4, <1>6 DEF PathInv, OneWriter, OthersKept
<1>14. TornIsWritten'
  BY <1>8 DEF TornIsWritten
<1>15. Recorded'
  <2>1. \A c \in Chains : \A id \in ours[c] : ~Knows(p, c, id)
    BY <1>0, KnowsNone
  <2>2. ASSUME NEW q \in Procs, q # p, NEW c \in Chains, NEW id, Knows(q, c, id)
        PROVE  Knows(q, c, id)'
    BY <1>4, <2>2 DEF Knows, OthersKept
  <2> QED
    BY <1>0, <1>1, <2>1, <2>2 DEF PathInv, Recorded
<1>16. FileOK'
  BY <1>0, <1>1 DEF FileOK
<1> QED
  BY <1>12, <1>13, <1>14, <1>15, <1>16 DEF PathInv

\* The file is truncated, to be written next.
LEMMA PathTruncate ==
    ASSUME PathInv, TypeInv', NEW p \in Procs, Truncate(p)
    PROVE  PathInv'
<1>0. /\ TypeInv /\ TypeOK /\ Running(p) /\ proc[p] \in ProcType /\ Head(proc[p].todo).do = "truncate"
      /\ UNCHANGED <<ours, blame>> /\ CopyOK(p) /\ GotOK(p) /\ FileOK
      /\ Allowed(proc[p].todo, ours) /\ proc[p].todo # <<>>
  BY TakenStep DEF PathInv, TypeInv, Truncate, Lists, Running
<1>1. \/ file.state = "missing" /\ Abort(p) /\ UNCHANGED file
      \/ /\ file.state # "missing" /\ Continue(p, proc[p])
         /\ file'.state = "torn" /\ file'.config = file.config
  BY <1>0 DEF Truncate, TypeOK, Files
<1>2. CASE file.state = "missing" /\ Abort(p) /\ UNCHANGED file
  <2>1. \A c \in Chains : ours[c] = {}
    BY <1>0, <1>2 DEF FileOK
  <2>2. ~IsNext(p, "write") /\ OthersKept(p) /\ proc'[p] = Idle
    BY <1>0, <1>2, AbortStep DEF IsNext
  <2> QED
    BY <1>0, <1>2, <2>1, <2>2, PathAbort
<1>3. CASE /\ file.state # "missing" /\ Continue(p, proc[p])
           /\ file'.state = "torn" /\ file'.config = file.config
  <2>1. Len(proc[p].todo) # 1
    <3>1. /\ 1 \in DOMAIN proc[p].todo /\ proc[p].todo[1].do = "truncate"
          /\ DOMAIN proc[p].todo = 1..Len(proc[p].todo) /\ Len(proc[p].todo) \in Nat
      BY <1>0, ListFacts
    <3>2. 1 + 1 \in DOMAIN proc[p].todo
      BY <1>0, <3>1, Zenon DEF Allowed, WellFormed
    <3>3. \A n \in Nat : 1 + 1 \in 1..n => n # 1
      OBVIOUS
    <3> QED
      BY <3>1, <3>2, <3>3
  <2>2. OthersKept(p) /\ Holds(p, proc[p]) /\ proc'[p].todo # <<>>
    BY <1>0, <1>3, <2>1, ContinueEnds
  <2>3. /\ proc'[p].todo = Tail(proc[p].todo) /\ proc'[p].mem = proc[p].mem
        /\ proc'[p].got = proc[p].got /\ proc'[p].failed = proc[p].failed
    BY <2>2 DEF Holds
  <2>4. /\ Adjoins(Head(proc[p].todo), Head(proc'[p].todo)) /\ ~IsNext(p, "load")' /\ Running(p)'
        /\ Writes(proc'[p].todo) => Writes(proc[p].todo)
        /\ \A do, c : HasStep(proc'[p].todo, do, c) => HasStep(proc[p].todo, do, c)
        /\ \A c : Awaits(proc'[p].todo, c) => Awaits(proc[p].todo, c)
        /\ \A i \in DOMAIN proc'[p].todo :
              \E j \in DOMAIN proc[p].todo : proc'[p].todo[i] = proc[p].todo[j]
    BY <1>0, <2>2, <2>3, RestFacts
  <2>5. ~HasKind(proc'[p].todo, "check")
    BY <1>0, <2>3, AfterHead
  <2>6. ~IsNext(p, "check")' /\ ~IsNext(p, "create")' /\ IsNext(p, "write")' /\ ~IsNext(p, "load")
    BY <1>0, <2>4 DEF Adjoins, IsNext
  <2>7. CopyOK(p)'
    BY <1>0, <1>3, <2>3, <2>4, <2>5, <2>6 DEF CopyOK
  <2>8. GotOK(p)'
    <3>1. \A c \in Chains :
             /\ HasStep(proc'[p].todo, "send", c) => proc'[p].got[c] = NoId
             /\ proc'[p].got[c] # NoId => \A i \in DOMAIN proc'[p].todo :
                   proc'[p].todo[i].do \in {"send", "success", "sync", "truncate", "write"}
      BY <1>0, <2>3, <2>4 DEF GotOK
    <3> QED
      BY <1>0, <2>3, <2>4, <3>1 DEF GotOK
  <2>9. \A q \in Procs : CopyOK(q)' /\ GotOK(q)'
    BY <1>0, <1>3, <2>2, <2>7, <2>8, OthersOK, HeadHas DEF Undisturbed
  <2>10. OneWriter'
    BY <1>0, <2>2, <2>4 DEF PathInv, OneWriter, OthersKept
  <2>11. TornIsWritten'
    BY <2>6 DEF TornIsWritten
  <2>12. Recorded'
    <3>1. /\ \A c : HasStep(proc[p].todo, "sync", c) => HasStep(proc'[p].todo, "sync", c)
          /\ HasKind(proc[p].todo, "write") => HasKind(proc'[p].todo, "write")
      BY <1>0, <2>3, TailHas
    <3>2. ASSUME NEW q \in Procs, NEW c \in Chains, NEW id, Knows(q, c, id) PROVE Knows(q, c, id)'
      BY <2>2, <2>3, <3>1, <3>2 DEF Knows, OthersKept
    <3> QED
      BY <1>0, <1>3, <3>2 DEF PathInv, Recorded
  <2>13. FileOK'
    BY <1>0, <1>3 DEF FileOK
  <2> QED
    BY <2>9, <2>10, <2>11, <2>12, <2>13 DEF PathInv
<1> QED
  BY <1>1, <1>2, <1>3

\* The copy is written: what was in the file is in the copy.
LEMMA PathWrite ==
    ASSUME PathInv, TypeInv', NEW p \in Procs, Write(p)
    PROVE  PathInv'
<1>0. /\ TypeInv /\ TypeOK /\ Running(p) /\ proc[p] \in ProcType /\ Head(proc[p].todo).do = "write"
      /\ UNCHANGED <<ours, blame>> /\ CopyOK(p) /\ GotOK(p) /\ FileOK /\ IsNext(p, "write")
      /\ Allowed(proc[p].todo, ours) /\ proc[p].todo # <<>> /\ Continue(p, proc[p])
  BY TakenStep DEF PathInv, TypeInv, Write, Lists, Running
<1>1. /\ file'.config = proc[p].mem /\ file'.state \in {"whole", "torn"}
      /\ file'.state = "torn" => file.state = "whole"
  BY DEF Write
<1>2. /\ Writes(proc[p].todo) /\ ~IsNext(p, "load")
      /\ "overlap" \notin blame => file'.state = "whole"
  BY <1>0, <1>1, HeadHas DEF IsNext, CopyOK
<1>3. /\ OthersKept(p)
      /\ \/ proc'[p] = Idle /\ Len(proc[p].todo) = 1
         \/ Holds(p, proc[p]) /\ proc'[p].todo # <<>>
  BY <1>0, ContinueEnds
<1>4. CopyOK(p)' /\ GotOK(p)' /\ (Writes(proc'[p].todo) => Writes(proc[p].todo))
  <2>1. CASE proc'[p] = Idle
    BY <2>1, EndedOK
  <2>2. CASE Holds(p, proc[p]) /\ proc'[p].todo # <<>>
    <3>1. /\ proc'[p].todo = Tail(proc[p].todo) /\ proc'[p].mem = proc[p].mem
          /\ proc'[p].got = proc[p].got /\ proc'[p].failed = proc[p].failed
      BY <2>2 DEF Holds
    <3>2. /\ Adjoins(Head(proc[p].todo), Head(proc'[p].todo)) /\ ~IsNext(p, "load")' /\ Running(p)'
          /\ Writes(proc'[p].todo) => Writes(proc[p].todo)
          /\ \A do, c : HasStep(proc'[p].todo, do, c) => HasStep(proc[p].todo, do, c)
          /\ \A c : Awaits(proc'[p].todo, c) => Awaits(proc[p].todo, c)
          /\ \A i \in DOMAIN proc'[p].todo :
                \E j \in DOMAIN proc[p].todo : proc'[p].todo[i] = proc[p].todo[j]
      BY <1>0, <2>2, <3>1, RestFacts
    <3>3. ~HasKind(proc'[p].todo, "check")
      BY <1>0, <3>1, AfterHead
    <3>4. ~IsNext(p, "check")' /\ ~IsNext(p, "create")' /\ ~IsNext(p, "write")'
      BY <1>0, <3>2 DEF Adjoins, IsNext
    <3>5. CopyOK(p)'
      BY <1>0, <1>1, <3>1, <3>2, <3>3, <3>4 DEF CopyOK
    <3>6. \A c \in Chains :
             /\ HasStep(proc'[p].todo, "send", c) => proc'[p].got[c] = NoId
             /\ proc'[p].got[c] # NoId => \A i \in DOMAIN proc'[p].todo :
                   proc'[p].todo[i].do \in {"send", "success", "sync", "truncate", "write"}
      BY <1>0, <3>1, <3>2 DEF GotOK
    <3>7. GotOK(p)'
      BY <1>0, <1>2, <3>1, <3>6 DEF GotOK
    <3> QED
      BY <3>2, <3>5, <3>7
  <2> QED
    BY <1>3, <2>1, <2>2
<1>5. \A q \in Procs : CopyOK(q)' /\ GotOK(q)'
  BY <1>0, <1>1, <1>2, <1>3, <1>4, OthersOK DEF Undisturbed
<1>6. OneWriter'
  BY <1>0, <1>3, <1>4 DEF PathInv, OneWriter, OthersKept
<1>7. TornIsWritten'
  BY <1>0, <1>2 DEF TornIsWritten
<1>8. Recorded'
  <2> SUFFICES ASSUME blame = {}, NEW c \in Chains, NEW id \in ours[c],
                      proc[p].mem.path[c] # id
               PROVE  \E q \in Procs : Knows(q, c, id)'
    BY <1>0, <1>1 DEF Recorded
  <2>1. id # NoId
    BY <1>0, ConstantTypes DEF TypeOK
  <2>2. file.config.path[c] # id
    BY <1>0, <1>2, <2>1 DEF CopyOK
  <2>3. PICK q \in Procs : Knows(q, c, id)
    BY <2>2 DEF PathInv, Recorded
  <2>4. CASE q # p
    BY <1>3, <2>3, <2>4 DEF Knows, OthersKept
  <2>5. CASE q = p
    <3>1. HasStep(proc[p].todo, "sync", c) /\ proc[p].got[c] = id
      BY <2>3, <2>5 DEF Knows
    <3>2. HasStep(Tail(proc[p].todo), "sync", c)
      BY <1>0, <3>1, TailHas
    <3>3. Len(proc[p].todo) # 1
      <4>1. PICK i \in DOMAIN proc[p].todo : proc[p].todo[i].do = "sync"
        BY <3>1 DEF HasStep
      <4>2. proc[p].todo[1].do = "write" /\ DOMAIN proc[p].todo = 1..Len(proc[p].todo)
        BY <1>0, ListFacts
      <4> QED
        BY <4>1, <4>2
    <3>4. Holds(p, proc[p])
      BY <1>3, <3>3
    <3> QED
      BY <2>5, <3>1, <3>2, <3>4 DEF Knows, Holds
  <2> QED
    BY <2>4, <2>5
<1>9. FileOK'
  BY <1>0, <1>1 DEF FileOK, CopyOK
<1> QED
  BY <1>5, <1>6, <1>7, <1>8, <1>9 DEF PathInv
\* The identifier goes from the events into the copy, to be written.
LEMMA PathSync ==
    ASSUME PathInv, TypeInv', NEW p \in Procs, Sync(p)
    PROVE  PathInv'
<1> DEFINE c == Place(p)
           m == [proc[p].mem EXCEPT !.path[c] = proc[p].got[c]]
           new == [proc[p] EXCEPT !.mem = m]
<1>0. /\ TypeInv /\ TypeOK /\ Running(p) /\ proc[p] \in ProcType /\ Head(proc[p].todo).do = "sync"
      /\ UNCHANGED <<file, ours, blame>> /\ CopyOK(p) /\ GotOK(p) /\ c \in Chains
      /\ Allowed(proc[p].todo, ours) /\ proc[p].todo # <<>> /\ Head(proc[p].todo).at = c
  BY TakenStep DEF PathInv, TypeInv, Sync, Lists, Running, Place
<1>1. Continue(p, new)
  BY DEF Sync, UpdatePathConfig, EventGenerateClientIdentifier
<1>2. /\ m \in Configs /\ m.known = proc[p].mem.known /\ m.chains = proc[p].mem.chains
      /\ m.path[c] = proc[p].got[c]
      /\ \A d \in Chains : d # c => m.path[d] = proc[p].mem.path[d]
  <2>1. proc[p].got[c] \in 0..Typo
    BY <1>0, ConstantTypes DEF ProcType, Typo
  <2>2. proc[p].mem.path \in [Chains -> 0..Typo] /\ proc[p].mem \in Configs
    BY <1>0 DEF ProcType, Configs
  <2> HIDE DEF c
  <2> QED
    BY <1>0, <2>1, <2>2 DEF Configs
<1>3. new \in ProcType /\ new.mem = m /\ new.got = proc[p].got /\ new.failed = proc[p].failed
  <2> HIDE DEF m
  <2> QED
    BY <1>0, <1>2, NewMem
<1> HIDE DEF new, m, c
<1>4. /\ 1 \in DOMAIN proc[p].todo /\ proc[p].todo[1].do = "sync" /\ 1 + 1 \in DOMAIN proc[p].todo
      /\ Len(proc[p].todo) # 1 /\ proc[p].todo[1 + 1].do = "truncate"
  <2>1. /\ 1 \in DOMAIN proc[p].todo /\ proc[p].todo[1].do = "sync"
        /\ DOMAIN proc[p].todo = 1..Len(proc[p].todo) /\ Len(proc[p].todo) \in Nat
    BY <1>0, ListFacts
  <2>2. 1 + 1 \in DOMAIN proc[p].todo /\ Adjoins(proc[p].todo[1], proc[p].todo[1 + 1])
    BY <1>0, <2>1, Zenon DEF Allowed, WellFormed
  <2>3. \A n \in Nat : 1 + 1 \in 1..n => n # 1
    OBVIOUS
  <2> QED
    BY <2>1, <2>2, <2>3 DEF Adjoins
<1>5. OthersKept(p) /\ Holds(p, new) /\ proc'[p].todo # <<>>
  BY <1>0, <1>1, <1>3, <1>4, ContinueEnds
<1>6. /\ proc'[p].todo = Tail(proc[p].todo) /\ proc'[p].mem = m
      /\ proc'[p].got = proc[p].got /\ proc'[p].failed = proc[p].failed
  BY <1>3, <1>5 DEF Holds
<1>7. /\ Adjoins(Head(proc[p].todo), Head(proc'[p].todo)) /\ ~IsNext(p, "load")' /\ Running(p)'
      /\ Writes(proc'[p].todo) => Writes(proc[p].todo)
      /\ \A do : HasKind(proc'[p].todo, do) => HasKind(proc[p].todo, do)
      /\ \A do, d : HasStep(proc'[p].todo, do, d) => HasStep(proc[p].todo, do, d)
      /\ \A d : Awaits(proc'[p].todo, d) => Awaits(proc[p].todo, d)
      /\ \A i \in DOMAIN proc'[p].todo :
            \E j \in DOMAIN proc[p].todo : proc'[p].todo[i] = proc[p].todo[j]
  BY <1>0, <1>5, <1>6, RestFacts
<1>8. /\ ~HasKind(proc'[p].todo, "check") /\ ~HasKind(proc'[p].todo, "addPath")
      /\ \A d : ~HasStep(proc'[p].todo, "send", d)
      /\ ~HasStep(proc'[p].todo, "sync", c)
  BY <1>0, <1>6, AfterHead
<1>9. ~Awaits(proc'[p].todo, c)
  BY <1>8 DEF Awaits
<1>10. ~IsNext(p, "check")' /\ ~IsNext(p, "create")' /\ ~IsNext(p, "write")' /\ ~IsNext(p, "load") /\ ~IsNext(p, "write")
  BY <1>0, <1>7 DEF Adjoins, IsNext
<1>11. HasStep(proc[p].todo, "sync", c) /\ Awaits(proc[p].todo, c) /\ Writes(proc[p].todo)
  BY <1>0, HeadHas, AwaitsWrites DEF Awaits
<1>12. proc[p].mem.known /\ file.state # "missing"
  BY <1>0, <1>11 DEF CopyOK
<1>13. CopyOK(p)'
  <2>1. "overlap" \notin blame => \A d \in Chains : Awaits(proc'[p].todo, d) =>
           proc'[p].mem.path[d] = NoId /\ file.config.path[d] = NoId
    BY <1>0, <1>2, <1>6, <1>7, <1>9 DEF CopyOK
  <2>2. blame \cap {"edit", "overlap"} = {} =>
           \A d \in Chains : file.config.path[d] # NoId => proc'[p].mem.path[d] = file.config.path[d]
    BY <1>0, <1>2, <1>6, <1>10, <1>11 DEF CopyOK
  <2> QED
    BY <1>0, <1>2, <1>6, <1>8, <1>10, <1>12, <2>1, <2>2 DEF CopyOK
<1>14. GotOK(p)'
  <2>1. \A d \in Chains :
           proc'[p].got[d] # NoId => \A i \in DOMAIN proc'[p].todo :
                 proc'[p].todo[i].do \in {"send", "success", "sync", "truncate", "write"}
    BY <1>0, <1>6, <1>7 DEF GotOK
  <2> QED
    BY <1>0, <1>6, <1>7, <1>8, <2>1 DEF GotOK
<1>15. ASSUME NEW d \in Chains, NEW id \in ours[d], Knows(p, d, id) PROVE Knows(p, d, id)'
  <2>1. /\ HasKind(proc[p].todo, "write") => HasKind(proc'[p].todo, "write")
        /\ d # c => (HasStep(proc[p].todo, "sync", d) => HasStep(proc'[p].todo, "sync", d))
    BY <1>0, <1>6, TailHas
  <2>2. CASE d # c
    BY <1>2, <1>6, <1>15, <2>1, <2>2 DEF Knows
  <2>3. CASE d = c
    <3>1. HasKind(proc[p].todo, "write")
      <4>1. (1 + 1) + 1 \in DOMAIN proc[p].todo
        BY <1>0, <1>4, Zenon DEF Allowed, WellFormed
      <4>2. Adjoins(proc[p].todo[1 + 1], proc[p].todo[(1 + 1) + 1])
        BY <1>0, <1>4, <4>1, Zenon DEF Allowed, WellFormed
      <4>3. proc[p].todo[(1 + 1) + 1].do = "write"
        BY <1>4, <4>2 DEF Adjoins
      <4> QED
        BY <4>1, <4>3 DEF HasKind
    <3> QED
      BY <1>2, <1>6, <1>15, <2>1, <2>3, <3>1 DEF Knows
  <2> QED
    BY <2>2, <2>3
<1> QED
  BY <1>0, <1>5, <1>7, <1>10, <1>13, <1>14, <1>15, PathGoesOn

\* A process dies, or its query fails: blame says so.
LEMMA PathDies ==
    ASSUME PathInv, TypeInv', NEW p \in Procs, SyncFails(p) \/ Kill(p)
    PROVE  PathInv'
<1>1. /\ TypeOK /\ Running(p) /\ Abort(p) /\ UNCHANGED <<file, ours>>
      /\ blame \subseteq blame' /\ blame' # {}
  BY DEF PathInv, TypeInv, SyncFails, Kill, IsNext
<1>2. OthersKept(p) /\ proc'[p] = Idle
  BY <1>1, AbortStep
<1> QED
  BY <1>1, <1>2, PathAbort
\* A message is sent, whatever becomes of it: the process goes on to its events.
LEMMA PathSent ==
    ASSUME PathInv, TypeInv', NEW p \in Procs, IsNext(p, "send"), NEW new \in ProcType, Continue(p, new),
           new.mem = proc[p].mem, UNCHANGED file, blame \subseteq blame'
    PROVE  /\ OthersKept(p) /\ Holds(p, new) /\ CopyOK(p)' /\ OneWriter'
           /\ file.state # "missing"
           /\ file.config.path[Place(p)] # NoId => "overlap" \in blame
           /\ \A c \in Chains : HasStep(proc[p].todo, "sync", c) => HasStep(proc'[p].todo, "sync", c)
           /\ HasKind(proc[p].todo, "write") => HasKind(proc'[p].todo, "write")
           /\ Writes(proc'[p].todo) => Writes(proc[p].todo)
           /\ HasStep(proc[p].todo, "sync", Place(p)) /\ proc[p].got[Place(p)] = NoId
           /\ ~HasStep(proc'[p].todo, "send", Place(p))
           /\ \A c \in Chains : HasStep(proc'[p].todo, "send", c) => proc[p].got[c] = NoId
           /\ \A i \in DOMAIN proc'[p].todo :
                 proc'[p].todo[i].do \in {"send", "success", "sync", "truncate", "write"}
<1>0. /\ TypeInv /\ TypeOK /\ Running(p) /\ proc[p] \in ProcType /\ Head(proc[p].todo).do = "send"
      /\ CopyOK(p) /\ GotOK(p) /\ Place(p) \in Chains /\ Head(proc[p].todo).at = Place(p)
      /\ Allowed(proc[p].todo, ours) /\ proc[p].todo # <<>>
  BY TakenStep DEF PathInv, TypeInv, Lists, Running, Place
<1>1. /\ HasStep(proc[p].todo, "send", Place(p)) /\ Awaits(proc[p].todo, Place(p))
      /\ HasStep(proc[p].todo, "sync", Place(p))
  BY <1>0, HeadHas, AwaitsWrites DEF Awaits
<1>2. Len(proc[p].todo) # 1
  <2>1. PICK i \in DOMAIN proc[p].todo : proc[p].todo[i].do = "sync"
    BY <1>1 DEF HasStep
  <2>2. proc[p].todo[1].do = "send" /\ DOMAIN proc[p].todo = 1..Len(proc[p].todo)
    BY <1>0, ListFacts
  <2> QED
    BY <2>1, <2>2
<1>3. OthersKept(p) /\ Holds(p, new) /\ proc'[p].todo # <<>>
  BY <1>0, <1>2, ContinueEnds
<1>4. proc'[p].todo = Tail(proc[p].todo) /\ proc'[p].mem = proc[p].mem
  BY <1>3 DEF Holds
<1>5. /\ Adjoins(Head(proc[p].todo), Head(proc'[p].todo)) /\ ~IsNext(p, "load")' /\ Running(p)'
      /\ Writes(proc'[p].todo) => Writes(proc[p].todo)
      /\ \A do, d : HasStep(proc'[p].todo, do, d) => HasStep(proc[p].todo, do, d)
      /\ \A d : Awaits(proc'[p].todo, d) => Awaits(proc[p].todo, d)
  BY <1>0, <1>3, <1>4, RestFacts
<1>6. /\ ~HasKind(proc'[p].todo, "check") /\ ~HasKind(proc'[p].todo, "addPath")
      /\ ~HasStep(proc'[p].todo, "send", Place(p))
  BY <1>0, <1>4, AfterHead
<1>7. /\ \A c \in Chains : HasStep(proc[p].todo, "sync", c) => HasStep(proc'[p].todo, "sync", c)
      /\ HasKind(proc[p].todo, "write") => HasKind(proc'[p].todo, "write")
  BY <1>0, <1>4, TailHas
<1>8. ~IsNext(p, "check")' /\ ~IsNext(p, "create")' /\ ~IsNext(p, "write")' /\ ~IsNext(p, "load")
  BY <1>0, <1>5 DEF Adjoins, IsNext
<1>9. file.state # "missing" /\ (file.config.path[Place(p)] # NoId => "overlap" \in blame)
  BY <1>0, <1>1 DEF CopyOK
<1>10. CopyOK(p)'
  BY <1>0, <1>4, <1>5, <1>6, <1>8, <1>9 DEF CopyOK
<1>11. \A i \in DOMAIN proc'[p].todo :
          proc'[p].todo[i].do \in {"send", "success", "sync", "truncate", "write"}
  <2>1. /\ \A i \in DOMAIN proc[p].todo : i # 1 => Precedes(Head(proc[p].todo), proc[p].todo[i])
        /\ \A i \in DOMAIN proc'[p].todo : /\ i + 1 \in DOMAIN proc[p].todo /\ i + 1 # 1
                                          /\ proc'[p].todo[i] = proc[p].todo[i + 1]
    BY <1>0, <1>4, ListFacts, TailAllowed
  <2> QED
    BY <1>0, <2>1 DEF Precedes
<1>12. /\ proc[p].got[Place(p)] = NoId
       /\ \A c \in Chains : HasStep(proc'[p].todo, "send", c) => proc[p].got[c] = NoId
  BY <1>0, <1>1, <1>5 DEF GotOK
<1>13. OneWriter'
  BY <1>3, <1>5 DEF PathInv, OneWriter, OthersKept
<1> QED
  BY <1>1, <1>3, <1>5, <1>6, <1>7, <1>9, <1>10, <1>11, <1>12, <1>13

\* A client is created: the process has its identifier.
LEMMA PathSend ==
    ASSUME PathInv, TypeInv', NEW p \in Procs, Send(p)
    PROVE  PathInv'
<1> DEFINE c == Place(p)
           new == [proc[p] EXCEPT !.got[c] = NextId(c)]
<1>0. /\ TypeInv /\ TypeOK /\ Running(p) /\ proc[p] \in ProcType /\ Head(proc[p].todo).do = "send"
      /\ IsNext(p, "send") /\ UNCHANGED <<file, blame>> /\ GotOK(p) /\ FileOK /\ c \in Chains
      /\ Continue(p, new) /\ ours' = [ours EXCEPT ![c] = @ \cup {NextId(c)}] /\ NextId(c) \in Ids
  BY TakenStep, NextIdType DEF PathInv, TypeInv, Send, Execute
<1>1. /\ new \in ProcType /\ new.mem = proc[p].mem /\ new.failed = proc[p].failed
      /\ new.got = [proc[p].got EXCEPT ![c] = NextId(c)]
  BY <1>0, ConstantTypes DEF ProcType
<1>2. proc[p].got \in [Chains -> 0..MaxClients] /\ ours \in [Chains -> SUBSET Ids]
  BY <1>0 DEF ProcType, TypeOK
<1> HIDE DEF new, c
<1>3. /\ OthersKept(p) /\ Holds(p, new) /\ CopyOK(p)' /\ OneWriter'
      /\ file.state # "missing"
      /\ \A d \in Chains : HasStep(proc[p].todo, "sync", d) => HasStep(proc'[p].todo, "sync", d)
      /\ HasKind(proc[p].todo, "write") => HasKind(proc'[p].todo, "write")
      /\ Writes(proc'[p].todo) => Writes(proc[p].todo)
      /\ HasStep(proc[p].todo, "sync", c) /\ proc[p].got[c] = NoId
      /\ ~HasStep(proc'[p].todo, "send", c)
      /\ \A d \in Chains : HasStep(proc'[p].todo, "send", d) => proc[p].got[d] = NoId
      /\ \A i \in DOMAIN proc'[p].todo :
            proc'[p].todo[i].do \in {"send", "success", "sync", "truncate", "write"}
  BY <1>0, <1>1, PathSent DEF c
<1>4. /\ proc'[p].mem = proc[p].mem /\ proc'[p].failed = proc[p].failed
      /\ proc'[p].got[c] = NextId(c)
      /\ \A d \in Chains : d # c => proc'[p].got[d] = proc[p].got[d]
  BY <1>0, <1>1, <1>2, <1>3 DEF Holds
<1>5. GotOK(p)'
  <2>1. \A d \in Chains : HasStep(proc'[p].todo, "send", d) => proc'[p].got[d] = NoId
    BY <1>3, <1>4
  <2> QED
    BY <1>0, <1>3, <1>4, <2>1 DEF GotOK
<1>6. \A q \in Procs : CopyOK(q)' /\ GotOK(q)'
  BY <1>0, <1>3, <1>5, OthersOK DEF Undisturbed
<1>7. TornIsWritten'
  BY <1>0, <1>3 DEF PathInv, TornIsWritten, OthersKept, IsNext, Running
<1>8. Recorded'
  <2> SUFFICES ASSUME blame = {}, NEW d \in Chains, NEW id \in ours'[d],
                      file.config.path[d] # id
               PROVE  \E q \in Procs : Knows(q, d, id)'
    BY <1>0 DEF Recorded
  <2>1. CASE d = c /\ id = NextId(c)
    BY <1>3, <1>4, <2>1 DEF Knows
  <2>2. CASE id \in ours[d]
    <3>1. PICK q \in Procs : Knows(q, d, id)
      BY <2>2 DEF PathInv, Recorded
    <3>2. CASE q # p
      BY <1>3, <3>1, <3>2 DEF Knows, OthersKept
    <3>3. CASE q = p
      <4>1. id # NoId
        BY <1>2, <2>2, ConstantTypes
      <4>2. d # c
        BY <1>3, <3>1, <3>3, <4>1 DEF Knows
      <4> QED
        BY <1>3, <1>4, <3>1, <3>3, <4>2 DEF Knows
    <3> QED
      BY <3>2, <3>3
  <2> QED
    BY <1>0, <1>2, <2>1, <2>2
<1>9. FileOK'
  BY <1>0, <1>3 DEF FileOK
<1> QED
  BY <1>3, <1>6, <1>7, <1>8, <1>9 DEF PathInv

\* A transaction whose outcome the process does not see: blame says so.
LEMMA PathSendFails ==
    ASSUME PathInv, TypeInv', NEW p \in Procs, SendFails(p)
    PROVE  PathInv'
<1> DEFINE new == [proc[p] EXCEPT !.failed = TRUE]
<1>0. /\ TypeInv /\ TypeOK /\ Running(p) /\ proc[p] \in ProcType /\ Head(proc[p].todo).do = "send"
      /\ IsNext(p, "send") /\ UNCHANGED file /\ GotOK(p) /\ FileOK /\ Place(p) \in Chains
      /\ Continue(p, new) /\ blame \subseteq blame' /\ blame' # {}
  BY TakenStep DEF PathInv, TypeInv, SendFails
<1>1. new \in ProcType /\ new.mem = proc[p].mem /\ new.got = proc[p].got
  BY <1>0 DEF ProcType
<1> HIDE DEF new
<1>2. /\ OthersKept(p) /\ Holds(p, new) /\ CopyOK(p)' /\ OneWriter'
      /\ file.state # "missing"
      /\ \A d \in Chains : HasStep(proc'[p].todo, "send", d) => proc[p].got[d] = NoId
      /\ \A i \in DOMAIN proc'[p].todo :
            proc'[p].todo[i].do \in {"send", "success", "sync", "truncate", "write"}
  BY <1>0, <1>1, PathSent
<1>3. GotOK(p)'
  BY <1>0, <1>1, <1>2 DEF GotOK, Holds
<1>4. \A q \in Procs : CopyOK(q)' /\ GotOK(q)'
  BY <1>0, <1>2, <1>3, OthersOK DEF Undisturbed
<1>5. TornIsWritten' /\ Recorded' /\ FileOK'
  BY <1>0, <1>2 DEF TornIsWritten, Recorded, FileOK
<1> QED
  BY <1>2, <1>4, <1>5 DEF PathInv

\* A command is started: if another one is going to write, blame says so.
LEMMA PathStart ==
    ASSUME PathInv, TypeInv', NEW p \in Procs, NEW todo, Startable(todo), Start(p, todo)
    PROVE  PathInv'
<1>0. /\ TypeInv /\ UNCHANGED <<file, ours>> /\ ~Running(p)
      /\ blame' = IF Writes(todo) /\ \E q \in Procs \ {p} : Writes(proc[q].todo)
                  THEN blame \cup {"overlap"} ELSE blame
  BY DEF PathInv, Start
<1>1. /\ proc[p] = Idle /\ proc'[p] = [Idle EXCEPT !.todo = todo] /\ OthersKept(p)
      /\ proc'[p].todo = todo /\ proc'[p].mem = Idle.mem /\ proc'[p].got = Idle.got
      /\ IsNext(p, "load")'
  BY <1>0, StartStep
<1>2. /\ proc'[p].mem.path = NewPath /\ ~proc'[p].mem.known /\ proc'[p].mem.chains = {}
      /\ ~proc'[p].failed /\ \A c \in Chains : proc'[p].got[c] = NoId /\ proc'[p].mem.path[c] = NoId
  BY <1>1, IdleType DEF Idle
<1>3. /\ \A c : ~Awaits(todo, c)
      /\ ~IsNext(p, "check")' /\ ~IsNext(p, "create")' /\ ~IsNext(p, "write")'
  <2>1. Allowed(todo, ours) /\ todo # <<>> /\ Head(todo).do = "load"
    BY DEF Startable
  <2>2. /\ \A i \in DOMAIN todo : i # 1 => Precedes(todo[1], todo[i])
        /\ Head(todo) = todo[1]
    BY <2>1, ListFacts
  <2>3. \A i \in DOMAIN todo : todo[i].do \notin {"send", "sync"}
    BY <2>1, <2>2 DEF Precedes
  <2> QED
    BY <1>1, <2>1, <2>3 DEF Awaits, HasStep, IsNext
<1>4. CopyOK(p)' /\ GotOK(p)'
  BY <1>1, <1>2, <1>3 DEF CopyOK, GotOK
<1>5. \A q \in Procs : CopyOK(q)' /\ GotOK(q)'
  BY <1>0, <1>1, <1>4, OthersOK DEF Undisturbed
<1>6. OneWriter'
  BY <1>0, <1>1 DEF PathInv, OneWriter, OthersKept
<1>7. TornIsWritten'
  BY <1>0, <1>1 DEF PathInv, TornIsWritten, OthersKept, IsNext, Running
<1>8. Recorded'
  <2>1. \A c \in Chains : \A id : ~Knows(p, c, id)
    <3>1. proc[p].todo = <<>>
      BY <1>0 DEF Running
    <3> QED
      BY <3>1 DEF Knows, HasStep, HasKind
  <2> QED
    BY <1>0, <1>1, <2>1 DEF PathInv, Recorded, Knows, OthersKept
<1>9. FileOK'
  BY <1>0 DEF PathInv, FileOK
<1> QED
  BY <1>5, <1>6, <1>7, <1>8, <1>9 DEF PathInv
\* In the beginning nothing is configured and nothing runs.
LEMMA PathInit == Init => PathInv
<1> SUFFICES ASSUME Init PROVE PathInv
  OBVIOUS
<1>1. /\ TypeInv /\ file.config = defaultConfig /\ file.state = "missing"
      /\ \A c \in Chains : ours[c] = {}
      /\ \A p \in Procs : proc[p] = Idle /\ proc[p].todo = <<>>
  BY TypeInit, IdleType DEF Init
<1>2. \A p \in Procs : ~Writes(proc[p].todo) /\ \A do : ~IsNext(p, do) /\ ~HasKind(proc[p].todo, do)
  BY <1>1 DEF Writes, IsNext, Running, HasKind
<1>3. \A p \in Procs : \A c : ~Awaits(proc[p].todo, c) /\ ~HasStep(proc[p].todo, "send", c)
  BY <1>1 DEF Awaits, HasStep
<1>4. \A p \in Procs : CopyOK(p)
  BY <1>1, <1>2, <1>3, IdleType DEF CopyOK
<1>5. \A p \in Procs : GotOK(p)
  BY <1>1, <1>2, <1>3, IdleType DEF GotOK
<1>6. FileOK /\ OneWriter /\ TornIsWritten /\ Recorded
  BY <1>1, <1>2 DEF FileOK, OneWriter, TornIsWritten, Recorded, defaultConfig
<1> QED
  BY <1>1, <1>4, <1>5, <1>6 DEF PathInv

\* Every step keeps the invariant.
LEMMA PathNext == PathInv /\ [Next]_vars => PathInv'
<1> SUFFICES ASSUME PathInv, [Next]_vars PROVE PathInv'
  OBVIOUS
<1>0. TypeInv /\ TypeOK /\ TypeInv'
  BY TypeNext DEF PathInv, TypeInv
<1>1. CASE Orchestrate
  <2>1. PICK todo \in Wanted : Start("orch", todo)
    BY <1>1 DEF Orchestrate
  <2>2. Startable(todo) /\ "orch" \in Procs
    BY <1>0, WantedStartable DEF Procs
  <2> QED
    BY <1>0, <2>1, <2>2, PathStart
<1>2. CASE Operate
  <2>1. PICK todo \in Typed : Start("hand", todo)
    BY <1>2 DEF Operate
  <2>2. Startable(todo) /\ "hand" \in Procs
    BY <1>0, TypedStartable DEF Procs
  <2> QED
    BY <1>0, <2>1, <2>2, PathStart
<1>3. CASE UNCHANGED <<file, ours, proc, blame>>
  <2>1. \A p \in Procs : CopyOK(p)' /\ GotOK(p)'
    BY <1>3 DEF PathInv, CopyOK, GotOK, IsNext, Running
  <2>2. FileOK' /\ OneWriter' /\ TornIsWritten' /\ Recorded'
    BY <1>3 DEF PathInv, FileOK, OneWriter, TornIsWritten, Recorded, Knows, IsNext, Running
  <2> QED
    BY <1>0, <2>1, <2>2 DEF PathInv
<1>4. ASSUME NEW p \in Procs, Take(p) PROVE PathInv'
  BY <1>0, <1>4, PathLoad, PathStat, PathCreateConfig, PathAddPath, PathEdit, PathTruncate, PathWrite,
     PathQuietSteps, PathCheck, PathSend, PathSendFails, PathSync, PathDies DEF Take
<1>5. ASSUME NEW p \in Procs, Kill(p) PROVE PathInv'
  BY <1>0, <1>5, PathDies
<1> QED
  BY <1>1, <1>2, <1>3, <1>4, <1>5 DEF Next, Exhausted, Tick, vars

\* The invariant holds at any time.
LEMMA PathAlways == Spec => []PathInv
  BY PathInit, PathNext, PTL DEF Spec

\* Undisturbed, every client that was created is recorded or about to be, and a
\* file that cannot be read is about to be written (core/client.go CreateClients,
\* config/config.go OverWriteConfig), for any number of clients and commands.
THEOREM CleanCorrect == Spec => []CleanWhenUndisturbed
<1>1. PathInv => CleanWhenUndisturbed
  <2> SUFFICES ASSUME PathInv, blame = {}
               PROVE  /\ \A c \in Chains : Orphans(c) = {}
                      /\ file.state = "torn" => \E p \in Procs : IsNext(p, "write")
    BY DEF CleanWhenUndisturbed
  <2>1. ASSUME NEW c \in Chains, NEW id \in Orphans(c) PROVE FALSE
    <3>1. id \in ours[c] /\ file.config.path[c] # id
      BY <2>1 DEF Orphans
    <3>2. PICK p \in Procs : Knows(p, c, id)
      BY <3>1 DEF PathInv, Recorded
    <3>3. Running(p) /\ proc[p].got[c] = id
      BY <3>2 DEF Knows, HasStep, HasKind, Running
    <3> QED
      BY <2>1, <3>3 DEF Orphans
  <2>2. file.state = "torn" => \E p \in Procs : IsNext(p, "write")
    BY DEF PathInv, TornIsWritten
  <2> QED
    BY <2>1, <2>2
<1> QED
  BY <1>1, PathAlways, PTL

\* An end that has a client gets no second one, whatever failed or was killed
\* before, unless two writing commands overlapped (core/client.go
\* checkCreateClientsReady).
THEOREM OnlyMissingCorrect == Spec => OnlyMissingClients
<1>1. ASSUME PathInv, PathInv', [Next]_vars
      PROVE  [ \A c \in Chains : ours'[c] # ours[c] /\ "overlap" \notin blame
                                   => file.config.path[c] = NoId ]_vars
  <2> SUFFICES ASSUME NEW c \in Chains, ours'[c] # ours[c], "overlap" \notin blame
               PROVE  file.config.path[c] = NoId
    OBVIOUS
  <2>0. TypeInv /\ TypeOK /\ TypeInv'
    BY <1>1 DEF PathInv, TypeInv
  <2>1. PICK p \in Procs : Send(p) \/ SendFails(p)
    BY <1>1 DEF Next, Take, Kill, Orchestrate, Operate, Start, Tick, Exhausted, vars, Load, Stat,
           CreateConfig, AddChain, AddPath, Edit, Truncate, Write, UseChain, AddKey, NewLightDB,
           UpdateLightClient, Peek, LightClientWithTrust, DeleteLightDB, ChainsFromPath,
           CheckCreateClients, Success, Sync, SyncFails, Refresh
  <2>2. IsNext(p, "send") /\ (Execute(p) \/ UNCHANGED ours)
    BY <2>1 DEF Send, SendFails
  <2>3. /\ Running(p) /\ Place(p) \in Chains /\ Head(proc[p].todo).do = "send"
        /\ Head(proc[p].todo).at = Place(p) /\ CopyOK(p)
        /\ Allowed(proc[p].todo, ours) /\ proc[p].todo # <<>>
    BY <1>1, <2>0, <2>2, TakenStep DEF PathInv, TypeInv, Lists, Running, Place
  <2>4. c = Place(p)
    BY <2>0, <2>2, <2>3 DEF Execute, TypeOK
  <2>5. Awaits(proc[p].todo, c)
    BY <2>3, <2>4, HeadHas DEF Awaits
  <2> QED
    BY <2>3, <2>5 DEF CopyOK
<1> QED
  BY <1>1, PathAlways, PTL DEF Spec, OnlyMissingClients

\* An identifier leaves the file only by an operator's edit or after two writing
\* commands overlapped: no command writes less than it read (config/config.go
\* UnmarshalConfig, CreateConfig, OverWriteConfig).
THEOREM NothingForgottenCorrect == Spec => NothingForgotten
<1>1. ASSUME PathInv, PathInv', [Next]_vars
      PROVE  [ \A c \in Chains :
                 file.config.path[c] # NoId /\ file'.config.path[c] # file.config.path[c]
                   => blame \cap {"edit", "overlap"} # {} ]_vars
  <2> SUFFICES ASSUME NEW c \in Chains, file.config.path[c] # NoId,
                      file'.config.path[c] # file.config.path[c]
               PROVE  blame \cap {"edit", "overlap"} # {}
    OBVIOUS
  <2>0. TypeInv /\ TypeOK
    BY <1>1 DEF PathInv, TypeInv
  <2>1. file'.config # file.config
    OBVIOUS
  <2>2. PICK p \in Procs : Write(p)
    <3>1. ASSUME NEW p \in Procs, CreateConfig(p) \/ Truncate(p) PROVE file'.config = file.config
      BY <2>0, <3>1 DEF CreateConfig, Truncate, TypeOK, Files
    <3>2. UNCHANGED file \/ \E p \in Procs : CreateConfig(p) \/ Truncate(p) \/ Write(p)
      BY <1>1
         DEF Next, Take, Kill, Orchestrate, Operate, Start, Tick, Exhausted, vars, Load, Stat,
             AddChain, AddPath, Edit, UseChain, AddKey, NewLightDB,
             UpdateLightClient, Peek, LightClientWithTrust, DeleteLightDB, ChainsFromPath,
             CheckCreateClients, Send, SendFails, Success, Sync, SyncFails, Refresh
    <3> QED
      BY <2>1, <3>1, <3>2
  <2>3. IsNext(p, "write") /\ file'.config = proc[p].mem
    BY <2>2 DEF Write
  <2>4. /\ Running(p) /\ Head(proc[p].todo).do = "write" /\ CopyOK(p)
        /\ Allowed(proc[p].todo, ours) /\ proc[p].todo # <<>>
    BY <1>1, <2>0, <2>3, TakenStep DEF PathInv, TypeInv, Lists, Running
  <2>5. Writes(proc[p].todo) /\ ~IsNext(p, "load")
    BY <2>4, HeadHas DEF IsNext
  <2> QED
    BY <2>3, <2>4, <2>5 DEF CopyOK
<1> QED
  BY <1>1, PathAlways, PTL DEF Spec, NothingForgotten
=============================================================================
