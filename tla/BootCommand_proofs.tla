------------------------- MODULE BootCommand_proofs -------------------------
(***************************************************************************)
(* Proofs about the typing of the boot commands for all commands, all      *)
(* templates and any number of boots.                                      *)
(***************************************************************************)
EXTENDS BootCommand, FiniteSetTheorems, SequenceTheorems, TLAPS

-----------------------------------------------------------------------------
(* The places of the keys, and their order.                                 *)

\* What is asked for are sequences of commands, and a command is keys.
LEMMA AskedType ==
  ASSUME NEW t \in Templates
  PROVE  Asked(t) \in Seq(Seq(Commands))
<1>1. t \in TemplateType  BY BootAssumption
<1>2. t.steps \in Seq(Seq(Commands)) /\ t.command \in Commands \cup {NoCommand}
  BY <1>1 DEF TemplateType
<1>3. t.command # NoCommand => <<<<t.command>>>> \in Seq(Seq(Commands))
  <2>1. t.command # NoCommand => <<t.command>> \in Seq(Commands)  BY <1>2
  <2> QED  BY <2>1
<1> QED  BY <1>2, <1>3 DEF Asked

LEMMA KeysType ==
  ASSUME NEW c \in Commands
  PROVE  Keys[c] \in Seq(AllKeys)
<1>1. Keys[c] \in Seq(Range(Keys[c]))  BY BootAssumption
<1>2. Range(Keys[c]) \subseteq AllKeys  BY DEF AllKeys
<1> HIDE DEF AllKeys
<1>3. \A i \in 1..Len(Keys[c]) : Keys[c][i] \in AllKeys  BY <1>1, <1>2
<1> QED  BY <1>1, <1>3

\* The keys of the steps that are not empty.
LEMMA StepKeys ==
  ASSUME NEW t \in Templates, NEW i \in 1..Len(Asked(t)), Asked(t)[i] # <<>>
  PROVE  /\ Asked(t)[i][1] \in Commands
         /\ Keys[Asked(t)[i][1]] \in Seq(AllKeys)
         /\ Len(Keys[Asked(t)[i][1]]) \in Nat
<1> HIDE DEF Commands, AllKeys
<1>1. Asked(t)[i] \in Seq(Commands)  BY AskedType
<1>2. Asked(t)[i][1] \in Commands  BY <1>1
<1>3. Keys[Asked(t)[i][1]] \in Seq(AllKeys)  BY <1>2, KeysType
<1> QED  BY <1>2, <1>3

LEMMA PlaceIs ==
  ASSUME NEW t \in Templates, NEW i, NEW k
  PROVE  <<i, k>> \in Places(t) <=>
           /\ i \in 1..Len(Asked(t)) /\ Asked(t)[i] # <<>>
           /\ k \in 1..Len(Keys[Asked(t)[i][1]])
<1>1. Asked(t) \in Seq(Seq(Commands))  BY AskedType
<1>2. DOMAIN Asked(t) = 1..Len(Asked(t))  BY <1>1
<1>3. \A j \in 1..Len(Asked(t)) : Asked(t)[j] # <<>> =>
        DOMAIN Keys[Asked(t)[j][1]] = 1..Len(Keys[Asked(t)[j][1]])
  BY StepKeys
<1>4. <<i, k>> \in Places(t) <=>
        \E j \in 1..Len(Asked(t)) :
           Asked(t)[j] # <<>> /\ <<i, k>> \in {j} \X DOMAIN Keys[Asked(t)[j][1]]
  BY <1>2 DEF Places
<1> QED  BY <1>3, <1>4

LEMMA PlacesArePairs ==
  ASSUME NEW t \in Templates
  PROVE  \A p \in Places(t) : p = <<p[1], p[2]>> /\ p[1] \in Nat \ {0} /\ p[2] \in Nat \ {0}
<1> SUFFICES ASSUME NEW p \in Places(t)
    PROVE  p = <<p[1], p[2]>> /\ p[1] \in Nat \ {0} /\ p[2] \in Nat \ {0}
  OBVIOUS
<1>1. p = <<p[1], p[2]>>  BY DEF Places
<1>2. /\ p[1] \in 1..Len(Asked(t)) /\ Asked(t)[p[1]] # <<>>
      /\ p[2] \in 1..Len(Keys[Asked(t)[p[1]][1]])
  BY <1>1, PlaceIs
<1>3. Len(Asked(t)) \in Nat /\ Len(Keys[Asked(t)[p[1]][1]]) \in Nat
  BY <1>2, AskedType, StepKeys
<1> QED  BY <1>1, <1>2, <1>3

LEMMA PlacesFinite ==
  ASSUME NEW t \in Templates
  PROVE  IsFiniteSet(Places(t)) /\ Cardinality(Places(t)) \in Nat
<1>1. Asked(t) \in Seq(Seq(Commands))  BY AskedType
<1> DEFINE Full   == {j \in DOMAIN Asked(t) : Asked(t)[j] # <<>>}
           Of(i)  == {i} \X DOMAIN Keys[Asked(t)[i][1]]
           PerStep == [i \in Full |-> Of(i)]
           Sets   == {Of(i) : i \in Full}
<1>2. IsFiniteSet(Full)
  <2>1. Len(Asked(t)) \in Nat /\ DOMAIN Asked(t) = 1..Len(Asked(t))  BY <1>1
  <2>2. IsFiniteSet(1..Len(Asked(t)))  BY <2>1, FS_Interval
  <2> QED  BY <2>1, <2>2, FS_Subset
<1>3. IsFiniteSet(Sets)
  <2> HIDE DEF Full, Of
  <2>1. PerStep \in Surjection(Full, Sets)  BY DEF Surjection
  <2> HIDE DEF PerStep, Sets
  <2> QED  BY <1>2, <2>1, FS_Surjection
<1>4. \A S \in Sets : IsFiniteSet(S)
  <2> SUFFICES ASSUME NEW i \in Full PROVE IsFiniteSet(Of(i))
    OBVIOUS
  <2>1. i \in 1..Len(Asked(t)) /\ Asked(t)[i] # <<>>  BY <1>1
  <2>2. Len(Keys[Asked(t)[i][1]]) \in Nat
        /\ DOMAIN Keys[Asked(t)[i][1]] = 1..Len(Keys[Asked(t)[i][1]])
    BY <2>1, StepKeys
  <2>3. IsFiniteSet(1..Len(Keys[Asked(t)[i][1]]))  BY <2>2, FS_Interval
  <2>4. IsFiniteSet({i})  BY FS_Singleton
  <2> QED  BY <2>2, <2>3, <2>4, FS_Product
<1>5. Places(t) = UNION Sets  BY DEF Places
<1>6. IsFiniteSet(Places(t))
  <2> HIDE DEF Sets
  <2> QED  BY <1>3, <1>4, <1>5, FS_UNION
<1> QED  BY <1>6, FS_CardinalityType

LEMMA BeforeFinite ==
  ASSUME NEW t \in Templates, NEW i, NEW k
  PROVE  /\ IsFiniteSet(Before(t, i, k)) /\ Cardinality(Before(t, i, k)) \in Nat
         /\ Before(t, i, k) \subseteq Places(t)
         /\ Cardinality(Before(t, i, k)) <= Cardinality(Places(t))
<1>1. Before(t, i, k) \in SUBSET Places(t)  BY DEF Before
<1>2. IsFiniteSet(Before(t, i, k))
      /\ Cardinality(Before(t, i, k)) <= Cardinality(Places(t))
  BY <1>1, PlacesFinite, FS_Subset
<1> QED  BY <1>1, <1>2, FS_CardinalityType

LEMMA BeforeStart ==
  ASSUME NEW t \in Templates
  PROVE  Before(t, 1, 1) = {}
BY PlacesArePairs DEF Before

LEMMA BeforeEnd ==
  ASSUME NEW t \in Templates
  PROVE  Before(t, Len(Asked(t)) + 1, 1) = Places(t)
<1>1. Len(Asked(t)) \in Nat  BY AskedType
<1>2. \A p \in Places(t) : p[1] \in 1..Len(Asked(t))  BY PlacesArePairs, PlaceIs
<1> QED  BY <1>1, <1>2 DEF Before

\* One more key.
LEMMA BeforeNextKey ==
  ASSUME NEW t \in Templates, NEW i, NEW k, <<i, k>> \in Places(t)
  PROVE  /\ Before(t, i, k + 1) = Before(t, i, k) \cup {<<i, k>>}
         /\ <<i, k>> \notin Before(t, i, k)
         /\ Cardinality(Before(t, i, k + 1)) = Cardinality(Before(t, i, k)) + 1
<1>1. i \in Nat /\ k \in Nat  BY PlacesArePairs
<1>2. <<i, k>> \notin Before(t, i, k)  BY <1>1 DEF Before
<1>3. ASSUME NEW p \in Places(t)
      PROVE  p \in Before(t, i, k + 1) <=> (p \in Before(t, i, k) \/ p = <<i, k>>)
  <2>1. p = <<p[1], p[2]>> /\ p[1] \in Nat /\ p[2] \in Nat  BY PlacesArePairs
  <2>2. p[2] < k + 1 <=> (p[2] < k \/ p[2] = k)  BY <1>1, <2>1
  <2>3. p = <<i, k>> <=> (p[1] = i /\ p[2] = k)  BY <2>1
  <2>4. ~(i < i)  BY <1>1
  <2> QED  BY <2>2, <2>3, <2>4 DEF Before
<1>4. Before(t, i, k + 1) = Before(t, i, k) \cup {<<i, k>>}
  BY <1>3, BeforeFinite
<1>5. Cardinality(Before(t, i, k) \cup {<<i, k>>}) = Cardinality(Before(t, i, k)) + 1
  BY <1>2, BeforeFinite, FS_AddElement
<1> QED  BY <1>2, <1>4, <1>5

\* A step that is empty, or has been typed, is followed by the next.
LEMMA BeforeNextStep ==
  ASSUME NEW t \in Templates, NEW i \in 1..Len(Asked(t)), NEW k \in Nat,
         IF Asked(t)[i] = <<>> THEN k = 1 ELSE k = Len(Keys[Asked(t)[i][1]]) + 1
  PROVE  Before(t, i + 1, 1) = Before(t, i, k)
<1>1. Len(Asked(t)) \in Nat /\ i \in Nat  BY AskedType
<1>2. ASSUME NEW p \in Places(t)
      PROVE  p \in Before(t, i + 1, 1) <=> p \in Before(t, i, k)
  <2>1. p = <<p[1], p[2]>> /\ p[1] \in Nat /\ p[2] \in Nat \ {0}  BY PlacesArePairs
  <2>2. ~(p[2] < 1) /\ (p[1] < i + 1 <=> (p[1] < i \/ p[1] = i))  BY <1>1, <2>1
  <2>3. p[1] = i => p[2] < k
    <3> SUFFICES ASSUME p[1] = i PROVE p[2] < k
      OBVIOUS
    <3>1. Asked(t)[i] # <<>> /\ p[2] \in 1..Len(Keys[Asked(t)[i][1]])
      BY <2>1, PlaceIs
    <3>2. Len(Keys[Asked(t)[i][1]]) \in Nat  BY <3>1, StepKeys
    <3> QED  BY <3>1, <3>2
  <2> QED  BY <2>2, <2>3 DEF Before
<1>3. Before(t, i + 1, 1) \subseteq Places(t) /\ Before(t, i, k) \subseteq Places(t)
  BY DEF Before
<1> QED  BY <1>2, <1>3, Zenon

\* No two places have the same number of places before them.
LEMMA RankIsUnique ==
  ASSUME NEW t \in Templates, NEW p \in Places(t), NEW q \in Places(t),
         Cardinality(Before(t, p[1], p[2])) = Cardinality(Before(t, q[1], q[2]))
  PROVE  p = q
<1>1. /\ p = <<p[1], p[2]>> /\ p[1] \in Nat /\ p[2] \in Nat
      /\ q = <<q[1], q[2]>> /\ q[1] \in Nat /\ q[2] \in Nat
  BY PlacesArePairs
\* What comes before the earlier one comes before the later one.
<1>2. ASSUME NEW a \in Places(t), NEW b \in Places(t),
             a[1] \in Nat, a[2] \in Nat, b[1] \in Nat, b[2] \in Nat,
             a[1] < b[1] \/ (a[1] = b[1] /\ a[2] < b[2])
      PROVE  Cardinality(Before(t, a[1], a[2])) # Cardinality(Before(t, b[1], b[2]))
  <2>1. a \in Before(t, b[1], b[2])  BY <1>2 DEF Before
  <2>2. a \notin Before(t, a[1], a[2])  BY <1>2 DEF Before
  <2>3. Before(t, a[1], a[2]) \subseteq Before(t, b[1], b[2])
    <3> SUFFICES ASSUME NEW c \in Places(t), c \in Before(t, a[1], a[2])
        PROVE  c \in Before(t, b[1], b[2])
      BY BeforeFinite
    <3>1. c[1] \in Nat /\ c[2] \in Nat  BY PlacesArePairs
    <3> QED  BY <1>2, <3>1 DEF Before
  <2> QED  BY <2>1, <2>2, <2>3, BeforeFinite, FS_Subset
<1>3. CASE p[1] < q[1] \/ (p[1] = q[1] /\ p[2] < q[2])  BY <1>1, <1>2, <1>3
<1>4. CASE q[1] < p[1] \/ (q[1] = p[1] /\ q[2] < p[2])  BY <1>1, <1>2, <1>4
<1>5. CASE p[1] = q[1] /\ p[2] = q[2]  BY <1>1, <1>5
<1> QED  BY <1>1, <1>3, <1>4, <1>5

\* The key of a place is wanted after as many keys as there are places before it.
LEMMA WantedAt ==
  ASSUME NEW t \in Templates, NEW i, NEW k, <<i, k>> \in Places(t)
  PROVE  /\ Cardinality(Before(t, i, k)) + 1 \in 1..Cardinality(Places(t))
         /\ Wanted(t)[Cardinality(Before(t, i, k)) + 1] = KeyAt(t, <<i, k>>)
<1> DEFINE n == Cardinality(Before(t, i, k)) + 1
<1>1. n \in 1..Cardinality(Places(t))
  <2>1. Cardinality(Before(t, i, k + 1)) = n  BY BeforeNextKey
  <2>2. Cardinality(Before(t, i, k + 1)) <= Cardinality(Places(t)) /\ n \in Nat \ {0}
    BY BeforeFinite
  <2> QED  BY <2>1, <2>2, PlacesFinite
<1>2. Cardinality(Before(t, <<i, k>>[1], <<i, k>>[2])) = n - 1
  BY BeforeFinite
<1> DEFINE At == CHOOSE p \in Places(t) : Cardinality(Before(t, p[1], p[2])) = n - 1
<1>3. At \in Places(t) /\ Cardinality(Before(t, At[1], At[2])) = n - 1
  <2> HIDE DEF n
  <2> QED  BY <1>2
<1>4. At = <<i, k>>
  <2> HIDE DEF n, At
  <2> QED  BY <1>2, <1>3, RankIsUnique
<1> QED  BY <1>1, <1>4 DEF Wanted

-----------------------------------------------------------------------------
(* Type correctness, and one connection.                                    *)

\* The connection is made once, before any key is sent, and all that was received
\* came over it.
OneBootInv ==
  /\ BootTypeOK
  /\ pc = "keys" => cur <= Len(BootSteps) /\ BootSteps[cur] # <<>>
  /\ pc \in {"boot", "dial", "handshake"} => wire = <<>> /\ received = <<>>
  /\ \A i \in DOMAIN received : received[i].boot = conn

\* The boot steps are what is asked for.
LEMMA BootStepsType == config \in Templates => BootSteps \in Seq(Seq(Commands))
<1>1. BootSteps = Asked(config)  BY DEF BootSteps, Asked
<1> QED  BY <1>1, AskedType

LEMMA MaxBootsNat == MaxBoots \in Nat \ {0}
BY BootAssumption

LEMMA BootInitInv == BootInit => OneBootInv
<1> SUFFICES ASSUME BootInit PROVE OneBootInv
  OBVIOUS
<1>1. BootSteps \in Seq(Seq(Commands))  BY BootStepsType DEF BootInit
<1>2. Len(BootSteps) \in Nat  BY <1>1
<1>3. MaxBoots \in Nat \ {0}  BY BootAssumption
<1>4. sent = <<>> /\ wire = <<>> /\ received = <<>> /\ boots = 1 /\ conn = 0 /\ cur = 1 /\ pc = "boot"
  BY DEF BootInit
<1>5. BootTypeOK
  <2>1. cur \in 1..(Len(BootSteps) + 1)  BY <1>2, <1>4
  <2>2. boots \in 1..MaxBoots /\ conn \in 0..boots  BY <1>3, <1>4
  <2>3. sent \in Seq(AllKeys) /\ wire \in Seq(AllKeys) /\ received \in Seq(Receipt)  BY <1>4
  <2> QED  BY <1>4, <2>1, <2>2, <2>3 DEF BootInit, BootTypeOK
<1> QED  BY <1>4, <1>5 DEF OneBootInv

LEMMA BootNextInv == OneBootInv /\ [BootNext]_bootVars => OneBootInv'
<1> SUFFICES ASSUME OneBootInv, [BootNext]_bootVars PROVE OneBootInv'
  OBVIOUS
<1>1. BootSteps \in Seq(Seq(Commands)) /\ Len(BootSteps) \in Nat
  <2>1. config \in Templates  BY DEF OneBootInv, BootTypeOK
  <2> QED  BY <2>1, BootStepsType
<1>2. config' = config /\ BootSteps' = BootSteps
  BY DEF BootNext, TypeStep, User, Cancel, Deliver, VMExit, VMRestart, bootVars, typing, BootSteps
<1>3. pc = "keys" => /\ BootSteps[cur][1] \in Commands /\ Typed \in Seq(AllKeys)
                     /\ Len(Typed) \in Nat
  <2> SUFFICES ASSUME pc = "keys"
      PROVE  BootSteps[cur][1] \in Commands /\ Typed \in Seq(AllKeys) /\ Len(Typed) \in Nat
    OBVIOUS
  <2>1. cur \in 1..Len(BootSteps) /\ BootSteps[cur] # <<>>
    BY <1>1 DEF OneBootInv, BootTypeOK
  <2>2. BootSteps[cur] \in Seq(Commands)  BY <1>1, <2>1
  <2>3. BootSteps[cur][1] \in Commands  BY <2>1, <2>2
  <2> QED  BY <2>3, KeysType DEF Typed
<1>4. \A i \in DOMAIN received : received[i] \in Receipt /\ received[i].boot = conn
  BY DEF OneBootInv, BootTypeOK
<1>5. received = <<>> => DOMAIN received = {}  OBVIOUS
<1> HIDE DEF BootSteps, Commands, AllKeys, Typed, Receipt
<1> USE DEF OneBootInv, BootTypeOK
<1> DEFINE Rest == UNCHANGED <<config, cancelled, machine, received>>
\* Most steps send, receive and connect nothing.
<1>6. ASSUME UNCHANGED <<config, received, conn, sent>>,
             wire' \in {wire, <<>>}, error' \in BOOLEAN, cancelled' \in BOOLEAN, up' \in BOOLEAN,
             boots' \in 1..MaxBoots, boots <= boots',
             cur' \in 1..(Len(BootSteps) + 1),
             pc' \in {"boot", "dial", "handshake", "command", "keys", "pause", "continue", "halt"},
             error' => pc' = "halt",
             pc' \in {"boot", "dial", "handshake"} => pc \in {"boot", "dial", "handshake"},
             pc' = "keys" => /\ cur' <= Len(BootSteps) /\ BootSteps[cur'] # <<>>
                             /\ key' \in 1..(Len(Typed') + 1)
      PROVE  OneBootInv'
  <2>0. boots \in Nat /\ boots' \in Nat /\ conn \in Nat /\ conn <= boots  BY <1>6, MaxBootsNat
  <2>1. wire' \in Seq(AllKeys) /\ conn' \in 0..boots'
    <3>1. wire' \in Seq(AllKeys)
      <4>1. wire \in Seq(AllKeys) /\ <<>> \in Seq(AllKeys)  OBVIOUS
      <4> QED  BY <1>6, <4>1, Zenon
    <3>2. conn' \in 0..boots'  BY <1>6, <2>0
    <3> QED  BY <3>1, <3>2
  <2>2. BootTypeOK'  BY <1>1, <1>2, <1>6, <2>1
  <2> QED  BY <1>1, <1>2, <1>6, <2>2
<1>7. cur \in 1..(Len(BootSteps) + 1) /\ boots \in 1..MaxBoots /\ boots <= boots
  BY MaxBootsNat
<1>8. Fail /\ Rest => OneBootInv'
  <2> SUFFICES ASSUME Fail, Rest PROVE OneBootInv'
    OBVIOUS
  <2> QED  BY <1>6, <1>7 DEF Fail, machine
<1>9. CASE BootWait /\ Rest  BY <1>6, <1>7, <1>9 DEF BootWait, Goto, machine
<1>10. CASE Dial /\ Rest
  <2>1. CASE Fail  BY <1>8, <1>10, <2>1
  <2>2. CASE ~Fail
    <3>1. /\ pc' = "handshake" /\ conn' = boots /\ UNCHANGED <<cur, key, sent, wire, error>>
          /\ received = <<>> /\ wire = <<>> /\ Rest /\ pc = "dial"
      BY <1>10, <2>2 DEF Dial
    <3>2. conn' \in 0..boots'  BY <3>1, MaxBootsNat DEF machine
    <3>3. \A i \in DOMAIN received' : received'[i].boot = conn'  BY <1>5, <3>1
    <3>4. BootTypeOK'  BY <1>2, <3>1, <3>2 DEF machine
    <3> QED  BY <3>1, <3>3, <3>4
  <2> QED  BY <2>1, <2>2
<1>11. CASE Handshake /\ Rest
  <2>1. CASE Fail  BY <1>8, <1>11, <2>1
  <2>2. CASE ~Fail  BY <1>6, <1>7, <1>11, <2>2 DEF Handshake, Goto, machine
  <2> QED  BY <2>1, <2>2
<1>12. CASE Command /\ Rest
  <2> USE <1>12 DEF Command, machine
  <2>1. CASE Fail  BY <1>8, <2>1
  <2>2. CASE cur > Len(BootSteps) /\ Goto("continue")  BY <1>6, <1>7, <2>2 DEF Goto
  <2>3. CASE /\ cur <= Len(BootSteps)
             /\ cur' = cur + 1 /\ UNCHANGED <<pc, key, sent, conn, wire, error>>
    <3>1. cur' \in 1..(Len(BootSteps) + 1)  BY <1>1, <2>3
    <3> QED  BY <1>6, <1>7, <2>3, <3>1
  <2>4. CASE /\ cur <= Len(BootSteps) /\ BootSteps[cur] # <<>>
             /\ pc' = "keys" /\ key' = 1 /\ UNCHANGED <<cur, sent, conn, wire, error>>
    <3>1. cur \in 1..Len(BootSteps)  BY <1>1, <2>4
    <3>2. BootSteps[cur] \in Seq(Commands) /\ BootSteps[cur][1] \in Commands  BY <1>1, <2>4, <3>1
    <3>3. Typed' = Typed  BY <1>2, <2>4 DEF Typed
    <3>4. Typed \in Seq(AllKeys) /\ Len(Typed) \in Nat  BY <3>2, KeysType DEF Typed
    <3>5. key' \in 1..(Len(Typed') + 1)  BY <2>4, <3>3, <3>4
    <3> QED  BY <1>6, <1>7, <2>4, <3>5
  <2> QED  BY <2>1, <2>2, <2>3, <2>4
<1>13. CASE SendKey /\ Rest
  <2> USE <1>13 DEF SendKey, machine
  <2>1. CASE Fail  BY <1>8, <2>1
  <2>2. CASE /\ Sends(Typed[key]) /\ key' = key + 1
             /\ UNCHANGED <<pc, cur, conn, error>>
    <3>1. pc = "keys" /\ key <= Len(Typed) /\ key \in 1..Len(Typed)  BY <1>3
    <3>2. Typed[key] \in AllKeys  BY <1>3, <3>1
    <3>3. sent' \in Seq(AllKeys) /\ wire' \in Seq(AllKeys)  BY <2>2, <3>2 DEF Sends
    <3>4. Typed' = Typed  BY <1>2, <2>2 DEF Typed
    <3>5. key' \in 1..(Len(Typed') + 1)  BY <1>3, <2>2, <3>1, <3>4
    <3>6. BootTypeOK'  BY <1>2, <2>2, <3>1, <3>3, <3>5
    <3> QED  BY <1>2, <2>2, <3>1, <3>6
  <2> QED  BY <2>1, <2>2 DEF Unsent
<1>14. CASE CommandDone /\ Rest
  <2>1. cur' \in 1..(Len(BootSteps) + 1)  BY <1>1, <1>14 DEF CommandDone
  <2> QED  BY <1>6, <1>7, <1>14, <2>1 DEF CommandDone, machine
<1>15. CASE Resume /\ Rest  BY <1>6, <1>7, <1>15 DEF Resume, Goto, machine
<1>16. CASE User  BY <1>6, <1>7, <1>16 DEF User, UserResumes, Goto, machine
<1>17. CASE Cancel
  <2>1. Typed' = Typed  BY <1>2, <1>17 DEF Cancel, typing, Typed
  <2> QED  BY <1>6, <1>7, <1>17, <2>1 DEF Cancel, typing, machine
<1>18. CASE Deliver
  <2> USE <1>18 DEF Deliver, typing, machine
  <2>1. Head(wire) \in AllKeys /\ wire' \in Seq(AllKeys)  OBVIOUS
  <2>2. conn \in 1..MaxBoots  BY MaxBootsNat DEF Connected
  <2> DEFINE r == [boot |-> conn, key |-> Head(wire)]
  <2>3. r \in Receipt /\ r.boot = conn  BY <2>1, <2>2 DEF Receipt
  <2>4. received' = Append(received, r)  OBVIOUS
  <2> HIDE DEF r
  <2>5. /\ received' \in Seq(Receipt)
        /\ \A i \in DOMAIN received' : received'[i].boot = conn
    <3>1. /\ received' \in Seq(Receipt) /\ Len(received') = Len(received) + 1
          /\ \A i \in 1..Len(received) : received'[i] = received[i]
          /\ received'[Len(received) + 1] = r
      BY <2>3, <2>4
    <3> QED  BY <1>4, <2>3, <3>1
  <2>6. Typed' = Typed  BY <1>2 DEF Typed
  <2>7. BootTypeOK'  BY <1>2, <2>1, <2>5, <2>6
  <2>8. wire # <<>>  OBVIOUS
  <2> QED  BY <1>2, <2>5, <2>7, <2>8
<1>19. CASE VMExit
  <2>1. Typed' = Typed  BY <1>2, <1>19 DEF VMExit, typing, Typed
  <2> QED  BY <1>6, <1>7, <1>19, <2>1 DEF VMExit, typing
<1>20. CASE VMRestart
  <2>1. Typed' = Typed  BY <1>2, <1>20 DEF VMRestart, typing, Typed
  <2>2. boots' \in 1..MaxBoots /\ boots <= boots'  BY <1>7, <1>20, MaxBootsNat DEF VMRestart
  <2> QED  BY <1>6, <1>7, <1>20, <2>1, <2>2 DEF VMRestart, typing
<1>21. CASE UNCHANGED bootVars
  <2>1. Typed' = Typed  BY <1>2, <1>21 DEF bootVars, typing, Typed
  <2> QED  BY <1>6, <1>7, <1>21, <2>1 DEF bootVars, typing, machine
<1> QED
  BY <1>9, <1>10, <1>11, <1>12, <1>13, <1>14, <1>15, <1>16, <1>17, <1>18, <1>19, <1>20, <1>21
  DEF BootNext, TypeStep

-----------------------------------------------------------------------------
(* What has been sent, what is under way and what was received.             *)

\* What has been sent are the keys at the places reached.
Reached == Before(config, cur, IF pc = "keys" THEN key ELSE 1)

TypedInv ==
  /\ pc \in {"boot", "dial", "handshake"} => cur = 1 /\ sent = <<>>
  /\ config.disable => pc \in {"boot", "continue"} /\ sent = <<>>
  /\ pc = "continue" => config.disable \/ cur = Len(BootSteps) + 1
  /\ Len(sent) <= Cardinality(Places(config))
  /\ \A n \in 1..Len(sent) : sent[n] = Wanted(config)[n]
  /\ pc # "halt" => Len(sent) = Cardinality(Reached)

\* What has been received and what is under way was sent in this order; nothing
\* is lost while the connection stands.
WireInv ==
  /\ Len(received) + Len(wire) <= Len(sent)
  /\ Connected => Len(received) + Len(wire) = Len(sent)
  /\ \A n \in 1..Len(received) : received[n].key = sent[n]
  /\ \A n \in 1..Len(wire) : wire[n] = sent[Len(received) + n]

LEMMA TypedNext == OneBootInv /\ TypedInv /\ [BootNext]_bootVars => TypedInv'
<1> SUFFICES ASSUME OneBootInv, TypedInv, [BootNext]_bootVars PROVE TypedInv'
  OBVIOUS
<1>1. config \in Templates /\ config' = config /\ BootSteps' = BootSteps
      /\ BootSteps = Asked(config)
  BY DEF OneBootInv, BootTypeOK, BootNext, TypeStep, User, Cancel, Deliver, VMExit, VMRestart,
         bootVars, typing, BootSteps, Asked
<1>2. /\ sent \in Seq(AllKeys) /\ Len(sent) \in Nat /\ Len(BootSteps) \in Nat
      /\ cur \in 1..(Len(BootSteps) + 1)
      /\ pc = "keys" => /\ cur \in 1..Len(BootSteps) /\ BootSteps[cur] # <<>>
                        /\ key \in 1..(Len(Typed) + 1)
  BY <1>1, AskedType DEF OneBootInv, BootTypeOK
<1>3. /\ pc \in {"boot", "dial", "handshake"} => cur = 1 /\ sent = <<>>
      /\ config.disable => pc \in {"boot", "continue"} /\ sent = <<>>
      /\ pc = "continue" => config.disable \/ cur = Len(BootSteps) + 1
      /\ Len(sent) <= Cardinality(Places(config))
      /\ \A n \in 1..Len(sent) : sent[n] = Wanted(config)[n]
      /\ pc # "halt" => Len(sent) = Cardinality(Reached)
  BY DEF TypedInv
<1> DEFINE Place  == IF pc = "keys" THEN key ELSE 1
           Place2 == IF pc' = "keys" THEN key' ELSE 1
<1>4. Reached = Before(config, cur, Place) /\ Reached' = Before(config, cur', Place2)
  BY <1>1 DEF Reached
<1> HIDE DEF Place, Place2, BootSteps, AllKeys
\* A step that sends nothing, and passes no place of a key.
<1>5. ASSUME sent' = sent,
             pc' \in {"boot", "dial", "handshake"} =>
               pc \in {"boot", "dial", "handshake"} /\ cur' = cur,
             config.disable => pc' \in {"boot", "continue"},
             pc' = "continue" => config.disable \/ cur' = Len(BootSteps) + 1,
             pc' # "halt" => pc # "halt" /\ Cardinality(Reached') = Cardinality(Reached)
      PROVE  TypedInv'
  BY <1>1, <1>3, <1>5 DEF TypedInv
\* In particular one that goes to another place of the program.
<1>6. ASSUME UNCHANGED <<sent, cur>>, pc # "keys", pc' # "keys", pc # "halt",
             pc' \in {"boot", "dial", "handshake"} => pc \in {"boot", "dial", "handshake"},
             config.disable => pc' \in {"boot", "continue"},
             pc' = "continue" => config.disable \/ cur = Len(BootSteps) + 1
      PROVE  TypedInv'
  <2>1. Reached' = Reached  BY <1>4, <1>6 DEF Place, Place2
  <2> QED  BY <1>5, <1>6, <2>1
\* Or that leaves the step where it is.
<1>7. ASSUME UNCHANGED <<sent, cur, pc, key>>
      PROVE  TypedInv'
  <2>1. Reached' = Reached  BY <1>4, <1>7 DEF Place, Place2
  <2> QED  BY <1>1, <1>3, <1>7, <2>1 DEF TypedInv
<1>8. ASSUME Fail, ~config.disable PROVE TypedInv'
  BY <1>5, <1>8 DEF Fail
<1>9. CASE BootWait  BY <1>3, <1>6, <1>9 DEF BootWait, Goto
<1>10. CASE Dial
  <2>1. ~config.disable  BY <1>3, <1>10 DEF Dial
  <2> QED  BY <1>3, <1>6, <1>8, <1>10, <2>1 DEF Dial
<1>11. CASE Handshake
  <2>1. ~config.disable  BY <1>3, <1>11 DEF Handshake
  <2> QED  BY <1>3, <1>6, <1>8, <1>11, <2>1 DEF Handshake, Goto
<1>12. CASE Command
  <2> USE <1>12 DEF Command
  <2>1. pc = "command" /\ ~config.disable  BY <1>3
  <2>2. CASE Fail  BY <1>8, <2>1, <2>2
  <2>3. CASE cur > Len(BootSteps) /\ Goto("continue")
    <3>1. cur = Len(BootSteps) + 1  BY <1>2, <2>3
    <3> QED  BY <1>6, <2>1, <2>3, <3>1 DEF Goto
  <2>4. CASE /\ cur <= Len(BootSteps) /\ BootSteps[cur] = <<>>
             /\ cur' = cur + 1 /\ UNCHANGED <<pc, key, sent, conn, wire, error>>
    <3>1. cur \in 1..Len(Asked(config)) /\ Asked(config)[cur] = <<>>  BY <1>1, <1>2, <2>4
    <3>2. Before(config, cur + 1, 1) = Before(config, cur, 1)  BY <1>1, <3>1, BeforeNextStep
    <3>3. Reached' = Reached  BY <1>4, <2>1, <2>4, <3>2 DEF Place, Place2
    <3> QED  BY <1>5, <2>1, <2>4, <3>3
  <2>5. CASE /\ pc' = "keys" /\ key' = 1 /\ UNCHANGED <<cur, sent, conn, wire, error>>
    <3>1. Reached' = Reached  BY <1>4, <2>1, <2>5 DEF Place, Place2
    <3> QED  BY <1>5, <2>1, <2>5, <3>1
  <2> QED  BY <2>2, <2>3, <2>4, <2>5
<1>13. CASE SendKey
  <2>1. pc = "keys" /\ key <= Len(Typed) /\ ~config.disable  BY <1>3, <1>13 DEF SendKey
  <2>2. CASE Fail  BY <1>8, <2>1, <2>2
  <2>3. CASE Sends(Typed[key]) /\ key' = key + 1 /\ UNCHANGED <<pc, cur, conn, error>>
    <3>1. cur \in 1..Len(Asked(config)) /\ Asked(config)[cur] # <<>>  BY <1>1, <1>2, <2>1
    <3>2. Typed = Keys[Asked(config)[cur][1]] /\ Len(Typed) \in Nat /\ Typed \in Seq(AllKeys)
      BY <1>1, <3>1, StepKeys DEF Typed
    <3>3. <<cur, key>> \in Places(config)  BY <1>1, <1>2, <2>1, <3>1, <3>2, PlaceIs
    <3>4. Reached = Before(config, cur, key) /\ Reached' = Before(config, cur, key + 1)
      BY <1>4, <2>1, <2>3 DEF Place, Place2
    <3>5. Cardinality(Reached') = Len(sent) + 1
          /\ Len(sent) + 1 \in 1..Cardinality(Places(config))
          /\ Wanted(config)[Len(sent) + 1] = Typed[key]
      <4>1. Cardinality(Reached) = Len(sent)  BY <1>3, <2>1
      <4>2. Cardinality(Reached') = Cardinality(Reached) + 1
        BY <1>1, <3>3, <3>4, BeforeNextKey
      <4>3. KeyAt(config, <<cur, key>>) = Typed[key]  BY <3>2 DEF KeyAt
      <4> QED  BY <1>1, <3>3, <3>4, <4>1, <4>2, <4>3, WantedAt
    <3>6. Typed[key] \in AllKeys  BY <1>2, <2>1, <3>2
    <3>7. /\ Len(sent') = Len(sent) + 1
          /\ \A n \in 1..Len(sent) : sent'[n] = sent[n]
          /\ sent'[Len(sent) + 1] = Typed[key]
      BY <1>2, <2>3, <3>6 DEF Sends
    <3>8. \A n \in 1..Len(sent') : sent'[n] = Wanted(config)[n]
      <4>1. \A n \in 1..Len(sent') : n \in 1..Len(sent) \/ n = Len(sent) + 1
        BY <1>2, <3>7
      <4> QED  BY <1>3, <3>5, <3>7, <4>1
    <3>9. Len(sent') <= Cardinality(Places(config))
      BY <1>1, <1>2, <3>5, <3>7, PlacesFinite
    <3> QED  BY <1>1, <2>1, <2>3, <3>5, <3>7, <3>8, <3>9 DEF TypedInv
  <2> QED  BY <1>13, <2>2, <2>3 DEF SendKey, Unsent
<1>14. CASE CommandDone
  <2> USE <1>14 DEF CommandDone
  <2>1. pc = "keys" /\ key > Len(Typed) /\ ~config.disable  BY <1>3
  <2>2. cur \in 1..Len(Asked(config)) /\ Asked(config)[cur] # <<>>  BY <1>1, <1>2, <2>1
  <2>3. Typed = Keys[Asked(config)[cur][1]] /\ Len(Typed) \in Nat
    BY <1>1, <2>2, StepKeys DEF Typed
  <2>4. key = Len(Keys[Asked(config)[cur][1]]) + 1 /\ key \in Nat  BY <1>2, <2>1, <2>3
  <2>5. Before(config, cur + 1, 1) = Before(config, cur, key)
    BY <1>1, <2>2, <2>4, BeforeNextStep
  <2>6. pc' \in {"pause", "command"} /\ cur' = cur + 1 /\ sent' = sent  OBVIOUS
  <2>7. Reached' = Reached  BY <1>4, <2>1, <2>5, <2>6 DEF Place, Place2
  <2> QED  BY <1>5, <2>1, <2>6, <2>7
<1>15. CASE pc = "pause" /\ Goto("command")
  BY <1>3, <1>6, <1>15 DEF Goto
<1>16. CASE Cancel \/ Deliver \/ VMExit \/ VMRestart \/ UNCHANGED bootVars
  BY <1>7, <1>16 DEF Cancel, Deliver, VMExit, VMRestart, bootVars, typing
<1> QED
  BY <1>9, <1>10, <1>11, <1>12, <1>13, <1>14, <1>15, <1>16
  DEF BootNext, TypeStep, User, Resume, UserResumes

LEMMA WireNext == OneBootInv /\ TypedInv /\ WireInv /\ [BootNext]_bootVars => WireInv'
<1> SUFFICES ASSUME OneBootInv, TypedInv, WireInv, [BootNext]_bootVars PROVE WireInv'
  OBVIOUS
<1>1. /\ sent \in Seq(AllKeys) /\ wire \in Seq(AllKeys) /\ received \in Seq(Receipt)
      /\ Len(sent) \in Nat /\ Len(wire) \in Nat /\ Len(received) \in Nat
      /\ boots \in Nat /\ conn \in Nat /\ conn <= boots
  BY BootAssumption DEF OneBootInv, BootTypeOK
<1>2. /\ Len(received) + Len(wire) <= Len(sent)
      /\ Connected => Len(received) + Len(wire) = Len(sent)
      /\ \A n \in 1..Len(received) : received[n].key = sent[n]
      /\ \A n \in 1..Len(wire) : wire[n] = sent[Len(received) + n]
  BY DEF WireInv
<1> HIDE DEF AllKeys, Receipt
\* Nothing is connected anew, or what is connected has lost nothing.
<1>3. ASSUME UNCHANGED <<sent, received>>, wire' = wire \/ wire' = <<>>,
             Connected' => Len(received) + Len(wire') = Len(sent)
      PROVE  WireInv'
  BY <1>1, <1>2, <1>3 DEF WireInv
<1>4. ASSUME UNCHANGED <<sent, received, wire, conn, machine>> PROVE WireInv'
  BY <1>2, <1>3, <1>4 DEF Connected, machine
<1> DEFINE Rest == UNCHANGED <<config, cancelled, machine, received>>
<1>5. CASE (BootWait \/ Handshake \/ Command \/ CommandDone \/ Resume \/ UserResumes) /\ Rest
  BY <1>4, <1>5
  DEF BootWait, Handshake, Command, CommandDone, Resume, UserResumes, Goto, Fail
<1>6. CASE Dial /\ Rest
  <2>1. sent' = sent /\ received' = received /\ wire' = wire /\ sent = <<>>
    BY <1>6 DEF Dial, Fail, TypedInv
  <2>2. Len(sent) = 0  BY <2>1
  <2>3. Len(received) + Len(wire) = Len(sent)  BY <1>1, <1>2, <2>2
  <2> QED  BY <1>3, <2>1, <2>3
<1>7. CASE SendKey /\ Rest
  <2>1. CASE Fail  BY <1>4, <1>7, <2>1 DEF Fail
  <2>2. CASE Sends(Typed[key]) /\ UNCHANGED conn
    <3>1. Connected' = Connected  BY <1>7, <2>2 DEF Connected, machine
    <3>3. /\ Len(sent') = Len(sent) + 1
          /\ \A n \in 1..Len(sent) : sent'[n] = sent[n]
          /\ sent'[Len(sent) + 1] = Typed[key]
      BY <1>1, <2>2 DEF Sends
    <3>4. CASE Connected
      <4>1. wire' = Append(wire, Typed[key])  BY <2>2, <3>4 DEF Sends
      <4>2. /\ Len(wire') = Len(wire) + 1
            /\ \A n \in 1..Len(wire) : wire'[n] = wire[n]
            /\ wire'[Len(wire) + 1] = Typed[key]
        BY <1>1, <4>1
      <4>3. Len(received) + Len(wire') = Len(sent')
            /\ Len(received) + Len(wire) + 1 = Len(sent) + 1
        BY <1>1, <1>2, <3>3, <3>4, <4>2
      <4>4. \A n \in 1..Len(received) : received[n].key = sent'[n]
        BY <1>1, <1>2, <3>3
      <4>5. \A n \in 1..Len(wire') : wire'[n] = sent'[Len(received) + n]
        <5> SUFFICES ASSUME NEW n \in 1..Len(wire')
            PROVE  wire'[n] = sent'[Len(received) + n]
          OBVIOUS
        <5>1. CASE n \in 1..Len(wire)
          <6>1. Len(received) + n \in 1..Len(sent)  BY <1>1, <1>2, <5>1
          <6> QED  BY <1>2, <3>3, <4>2, <5>1, <6>1
        <5>2. CASE n = Len(wire) + 1  BY <1>1, <3>3, <4>2, <4>3, <5>2
        <5> QED  BY <1>1, <4>2, <5>1, <5>2
      <4> QED  BY <1>1, <1>7, <3>3, <4>2, <4>3, <4>4, <4>5 DEF WireInv
    <3>5. CASE ~Connected
      <4>1. wire' = wire /\ received' = received  BY <1>7, <2>2, <3>5 DEF Sends
      <4>2. Len(received) + Len(wire) <= Len(sent')  BY <1>1, <1>2, <3>3
      <4>3. \A n \in 1..Len(received) : received[n].key = sent'[n]  BY <1>1, <1>2, <3>3
      <4>4. \A n \in 1..Len(wire) : wire[n] = sent'[Len(received) + n]
        <5> SUFFICES ASSUME NEW n \in 1..Len(wire) PROVE wire[n] = sent'[Len(received) + n]
          OBVIOUS
        <5>1. Len(received) + n \in 1..Len(sent)  BY <1>1, <1>2
        <5> QED  BY <1>2, <3>3, <5>1
      <4> QED  BY <3>1, <3>5, <4>1, <4>2, <4>3, <4>4 DEF WireInv
    <3> QED  BY <3>4, <3>5
  <2> QED  BY <1>7, <2>1, <2>2 DEF SendKey, Unsent
<1>8. CASE Cancel \/ UNCHANGED bootVars
  BY <1>4, <1>8 DEF Cancel, bootVars, typing
<1>9. CASE Deliver
  <2>1. /\ wire # <<>> /\ sent' = sent /\ Connected /\ wire' = Tail(wire)
        /\ received' = Append(received, [boot |-> conn, key |-> Head(wire)])
    BY <1>9 DEF Deliver, typing
  <2> DEFINE r == [boot |-> conn, key |-> Head(wire)]
  <2>2. Head(wire) = wire[1] /\ Len(wire) >= 1  BY <1>1, <2>1
  <2>3. r.key = sent[Len(received) + 1]  BY <1>1, <1>2, <2>2
  <2>4. r \in Receipt
    <3>1. Head(wire) \in AllKeys  BY <1>1, <2>1
    <3>2. conn \in 1..MaxBoots
      BY <2>1, BootAssumption DEF Connected, OneBootInv, BootTypeOK
    <3> QED  BY <3>1, <3>2 DEF Receipt
  <2>5. received' = Append(received, r)  BY <2>1
  <2> HIDE DEF r
  <2>6. /\ Len(received') = Len(received) + 1
        /\ \A n \in 1..Len(received) : received'[n] = received[n]
        /\ received'[Len(received) + 1] = r
    BY <1>1, <2>4, <2>5
  <2>7. /\ Len(wire') = Len(wire) - 1
        /\ \A n \in 1..Len(wire') : wire'[n] = wire[n + 1]
    BY <1>1, <2>1, HeadTailProperties
  <2>8. Len(received') + Len(wire') = Len(received) + Len(wire)
    BY <1>1, <2>2, <2>6, <2>7
  <2>9. \A n \in 1..Len(received') : received'[n].key = sent[n]
    <3>1. \A n \in 1..Len(received') : n \in 1..Len(received) \/ n = Len(received) + 1
      BY <1>1, <2>6
    <3> QED  BY <1>2, <2>3, <2>6, <3>1
  <2>10. \A n \in 1..Len(wire') : wire'[n] = sent[Len(received') + n]
    <3> SUFFICES ASSUME NEW n \in 1..Len(wire') PROVE wire'[n] = sent[Len(received') + n]
      OBVIOUS
    <3>1. n + 1 \in 1..Len(wire) /\ Len(received) + (n + 1) = Len(received') + n
      BY <1>1, <2>6, <2>7
    <3> QED  BY <1>2, <2>7, <3>1
  <2> QED  BY <1>2, <2>1, <2>8, <2>9, <2>10 DEF WireInv
<1>10. CASE VMExit
  <2>1. UNCHANGED <<sent, received>> /\ wire' = <<>> /\ ~Connected'
    BY <1>10 DEF VMExit, typing, Connected
  <2> QED  BY <1>3, <2>1
<1>11. CASE VMRestart
  <2>1. UNCHANGED <<sent, received, wire>> /\ conn' = conn /\ boots' = boots + 1
    BY <1>11 DEF VMRestart, typing
  <2>2. ~Connected'  BY <1>1, <2>1 DEF Connected
  <2> QED  BY <1>3, <2>1, <2>2
<1> QED
  BY <1>5, <1>6, <1>7, <1>8, <1>9, <1>10, <1>11
  DEF BootNext, TypeStep, User

-----------------------------------------------------------------------------
(* The theorems.                                                            *)

BootInv == OneBootInv /\ TypedInv /\ WireInv

LEMMA BootInvariant == BootSpec => []BootInv
<1>1. BootInit => BootInv
  <2> SUFFICES ASSUME BootInit PROVE BootInv
    OBVIOUS
  <2>1. /\ pc = "boot" /\ cur = 1 /\ sent = <<>> /\ wire = <<>> /\ received = <<>>
        /\ config \in Templates
    BY DEF BootInit
  <2>2. Len(sent) = 0 /\ Len(wire) = 0 /\ Len(received) = 0  BY <2>1
  <2>3. Reached = {}  BY <2>1, BeforeStart DEF Reached
  <2>4. Cardinality(Reached) = 0 /\ Cardinality(Places(config)) \in Nat
    BY <2>1, <2>3, FS_EmptySet, PlacesFinite
  <2>5. TypedInv
    <3>1. config.disable => pc \in {"boot", "continue"} /\ sent = <<>>  BY <2>1
    <3> QED  BY <2>1, <2>2, <2>4, <3>1 DEF TypedInv
  <2>6. WireInv  BY <2>2 DEF WireInv
  <2> QED  BY <2>5, <2>6, BootInitInv DEF BootInv
<1>2. BootInv /\ [BootNext]_bootVars => BootInv'
  BY BootNextInv, TypedNext, WireNext DEF BootInv
<1> QED  BY <1>1, <1>2, PTL DEF BootSpec

\* Type correctness, for all commands, templates and numbers of boots; an error
\* in the bag ends the step.
THEOREM BootTypeCorrect == BootSpec => []BootTypeOK
<1>1. BootInv => BootTypeOK  BY DEF BootInv, OneBootInv
<1> QED  BY <1>1, BootInvariant, PTL

\* However often the VM reboots, one boot receives all the keys that any does
\* (step_type_boot_command.go:90-97, 164-169).
THEOREM OneBootReceives == BootSpec => []ReceivedInOneBoot
<1>1. BootInv => ReceivedInOneBoot  BY DEF BootInv, OneBootInv, ReceivedInOneBoot
<1> QED  BY <1>1, BootInvariant, PTL

\* What the VM has received are the first keys of what has to be typed, in order
\* and each once, for all templates and reboots
\* (step_type_boot_command.go:44-50, 130-169).
THEOREM KeysInOrder == BootSpec => []ReceivedInOrder
<1>1. BootInv => ReceivedInOrder
  <2> SUFFICES ASSUME BootInv PROVE ReceivedInOrder
    OBVIOUS
  <2> DEFINE keys   == [i \in DOMAIN received |-> received[i].key]
             wanted == Wanted(config)
  <2>1. /\ received \in Seq(Receipt) /\ sent \in Seq(AllKeys) /\ wire \in Seq(AllKeys)
        /\ config \in Templates
    BY DEF BootInv, OneBootInv, BootTypeOK
  <2> HIDE DEF AllKeys
  <2>2. /\ Len(received) \in Nat /\ Len(sent) \in Nat /\ Len(wire) \in Nat
        /\ DOMAIN received = 1..Len(received)
    BY <2>1
  <2>3. Len(received) <= Len(sent) /\ Len(sent) <= Cardinality(Places(config))
    BY <2>2 DEF BootInv, TypedInv, WireInv
  <2>4. Cardinality(Places(config)) \in Nat  BY <2>1, PlacesFinite
  <2>5. Len(keys) = Len(received) /\ Len(wanted) = Cardinality(Places(config))
    BY <2>2, <2>4 DEF Wanted
  <2>6. \A i \in 1..Len(received) : /\ keys[i] = wanted[i] /\ keys[i] \in AllKeys
    <3> SUFFICES ASSUME NEW i \in 1..Len(received)
        PROVE  keys[i] = wanted[i] /\ keys[i] \in AllKeys
      OBVIOUS
    <3>1. keys[i] = received[i].key /\ received[i] \in Receipt  BY <2>1, <2>2
    <3>2. i \in 1..Len(sent)  BY <2>2, <2>3
    <3>3. received[i].key = sent[i] /\ sent[i] = wanted[i]
      BY <3>2 DEF BootInv, TypedInv, WireInv
    <3> QED  BY <3>1, <3>3 DEF Receipt
  <2> DEFINE n == Len(received)
  <2> HIDE DEF keys, wanted, n
  <2>7. /\ SubSeq(keys, 1, n) \in Seq(AllKeys) /\ Len(SubSeq(keys, 1, n)) = n
        /\ \A i \in 1..n : SubSeq(keys, 1, n)[i] = keys[i]
    BY <2>2, <2>6, SubSeqProperties DEF n
  <2>8. /\ SubSeq(wanted, 1, n) \in Seq(AllKeys) /\ Len(SubSeq(wanted, 1, n)) = n
        /\ \A i \in 1..n : SubSeq(wanted, 1, n)[i] = wanted[i]
    BY <2>2, <2>6, SubSeqProperties DEF n
  <2>9. SubSeq(keys, 1, n) = SubSeq(wanted, 1, n)
    BY <2>6, <2>7, <2>8, SeqEqual DEF n
  <2>10. Len(keys) <= Len(wanted)  BY <2>2, <2>3, <2>4, <2>5
  <2>11. IsPrefix(keys, wanted)  BY <2>5, <2>9, <2>10 DEF IsPrefix, n
  <2> QED  BY <2>11 DEF ReceivedInOrder, keys, wanted
<1> QED  BY <1>1, BootInvariant, PTL

\* A step that continues has sent all keys of all commands, or has no VNC to send
\* them to (step_type_boot_command.go:44-52, 66-69, 130-184).
THEOREM AllKeysSent == BootSpec => []ContinuesWhenSent
<1>1. BootInv => ContinuesWhenSent
  <2> SUFFICES ASSUME BootInv, pc = "continue"
      PROVE  sent = IF config.disable THEN <<>> ELSE Wanted(config)
    BY DEF ContinuesWhenSent
  <2>1. CASE config.disable  BY <2>1 DEF BootInv, TypedInv
  <2>2. CASE ~config.disable
    <3>1. sent \in Seq(AllKeys) /\ config \in Templates
      BY DEF BootInv, OneBootInv, BootTypeOK
    <3> HIDE DEF AllKeys
    <3>2. cur = Len(Asked(config)) + 1
      <4>1. BootSteps = Asked(config)  BY DEF BootSteps, Asked
      <4> QED  BY <2>2, <4>1 DEF BootInv, TypedInv
    <3>3. Reached = Places(config)  BY <3>1, <3>2, BeforeEnd DEF Reached
    <3>4. Len(sent) = Cardinality(Places(config))
      BY <3>3 DEF BootInv, TypedInv
    <3>5. \A n \in 1..Len(sent) : sent[n] = Wanted(config)[n]
      BY DEF BootInv, TypedInv
    <3>6. sent = [n \in 1..Len(sent) |-> sent[n]]  BY <3>1
    <3>7. Wanted(config) = [n \in 1..Len(sent) |-> Wanted(config)[n]]
      BY <3>4 DEF Wanted
    <3> QED  BY <2>2, <3>5, <3>6, <3>7
  <2> QED  BY <2>1, <2>2
<1> QED  BY <1>1, BootInvariant, PTL

\* Whatever the VM does, the step answers once, with an error in the state bag
\* unless it continues or the build is cancelled
\* (step_type_boot_command.go:66-112, 149-184).
THEOREM BootStepAnswers == BootSpec => ImplementsStep
<1>1. BootInit => Outcome!OutcomeInit
  BY DEF BootInit, Outcome!OutcomeInit
<1>2. ASSUME BootTypeOK, [BootNext]_bootVars
      PROVE  [Outcome!OutcomeNext]_(Outcome!outcomeVars)
  <2> USE <1>2 DEF typing, Outcome!outcomeVars, Goto
  <2>1. ~(pc \in {"continue", "halt"}) => ~error  BY DEF BootTypeOK
  <2>2. ASSUME Fail, cancelled' = cancelled, pc \notin {"continue", "halt"}
        PROVE  Outcome!Answers
    BY <2>1, <2>2 DEF Fail, Outcome!Answers, Outcome!Outcomes
  <2>3. ASSUME Goto("continue"), cancelled' = cancelled, pc \notin {"continue", "halt"}
        PROVE  Outcome!Answers
    BY <2>1, <2>3 DEF Outcome!Answers, Outcome!Outcomes
  <2>4. CASE BootWait /\ cancelled' = cancelled
    <3>1. CASE Goto("continue")
      BY <2>3, <2>4, <3>1 DEF BootWait, Outcome!OutcomeNext
    <3>2. CASE Goto("dial")  BY <2>4, <3>2 DEF BootWait
    <3>3. CASE Goto("halt") /\ cancelled
      <4>1. Outcome!Answers  BY <2>4, <3>3 DEF BootWait, Outcome!Answers, Outcome!Outcomes
      <4> QED  BY <4>1 DEF Outcome!OutcomeNext
    <3> QED  BY <2>4, <3>1, <3>2, <3>3 DEF BootWait
  <2>5. CASE (Dial \/ Handshake \/ SendKey) /\ cancelled' = cancelled
    <3>1. CASE Fail  BY <2>2, <2>5, <3>1 DEF Dial, Handshake, SendKey, Outcome!OutcomeNext
    <3>2. CASE ~Fail
      <4>1. pc \notin {"continue", "halt"} /\ pc' \notin {"continue", "halt"} /\ error' = error
        BY <2>5, <3>2 DEF Dial, Handshake, SendKey, Unsent
      <4> QED  BY <2>5, <4>1
    <3> QED  BY <3>1, <3>2
  <2>6. CASE Command /\ cancelled' = cancelled
    <3>1. CASE Fail  BY <2>2, <2>6, <3>1 DEF Command, Outcome!OutcomeNext
    <3>2. CASE Goto("continue")  BY <2>3, <2>6, <3>2 DEF Command, Outcome!OutcomeNext
    <3>3. CASE ~Fail /\ ~Goto("continue")
      <4>1. pc = "command" /\ pc' \in {"command", "keys"} /\ error' = error
        BY <2>6, <3>3 DEF Command
      <4> QED  BY <2>6, <4>1
    <3> QED  BY <3>1, <3>2, <3>3
  <2>7. CASE (CommandDone \/ Resume \/ UserResumes) /\ cancelled' = cancelled
    <3>1. pc \in {"keys", "pause"} /\ pc' \in {"pause", "command"} /\ error' = error
      BY <2>7 DEF CommandDone, Resume, UserResumes
    <3> QED  BY <2>7, <3>1
  <2>8. CASE Cancel
    <3>1. Outcome!Cancels  BY <2>8 DEF Cancel, Outcome!Cancels
    <3> QED  BY <3>1 DEF Outcome!OutcomeNext
  <2>9. CASE Deliver \/ VMExit \/ VMRestart \/ UNCHANGED bootVars
    BY <2>9 DEF Deliver, VMExit, VMRestart, bootVars
  <2> QED
    BY <2>4, <2>5, <2>6, <2>7, <2>8, <2>9 DEF BootNext, TypeStep, User
<1> QED
  BY <1>1, <1>2, BootTypeCorrect, PTL DEF BootSpec, ImplementsStep, Outcome!OutcomeSpec

\* How many steps the goroutine has still to make, at most: for each boot step it
\* prepares the command, sees its end and may pause, and sends each key once.
ToGo ==
  LET left == 3 * (Len(BootSteps) + 1 - cur) + Cardinality(Places(config)) - Len(sent)
  IN CASE pc = "boot"                  -> left + 5
       [] pc = "dial"                  -> left + 4
       [] pc \in {"handshake", "pause"} -> left + 3
       [] pc = "command"               -> left + 2
       [] pc = "keys"                  -> left + 1
       [] pc \in {"continue", "halt"}   -> 0

\* Nothing is typed, dialled or tried without end, whatever the VM does: every
\* step of the goroutine brings it nearer to its answer, and nothing else takes
\* it back (step_type_boot_command.go:66-184).
TypingAdvances ==
  [](ToGo \in Nat) /\ [][ToGo' <= ToGo /\ (TypeStep => ToGo' < ToGo)]_bootVars

\* For every template, the goroutine makes at most three steps for each boot step,
\* one for each key and five, however the VM behaves
\* (step_type_boot_command.go:66-184).
THEOREM TypingIsBounded == BootSpec => TypingAdvances
<1>1. ASSUME BootInv
      PROVE  /\ cur \in Nat /\ Len(BootSteps) \in Nat /\ cur <= Len(BootSteps) + 1
             /\ Len(sent) \in Nat /\ Cardinality(Places(config)) \in Nat
             /\ Len(sent) <= Cardinality(Places(config))
             /\ pc \in {"boot", "dial", "handshake", "command", "keys", "pause", "continue", "halt"}
  <2>1. config \in Templates /\ sent \in Seq(AllKeys)
    BY <1>1 DEF BootInv, OneBootInv, BootTypeOK
  <2>2. BootSteps \in Seq(Seq(Commands))  BY <2>1, BootStepsType
  <2>3. Len(sent) \in Nat /\ Len(BootSteps) \in Nat
    <3> HIDE DEF AllKeys, Commands, BootSteps
    <3> QED  BY <2>1, <2>2
  <2>4. Cardinality(Places(config)) \in Nat  BY <2>1, PlacesFinite
  <2>5. cur \in 1..(Len(BootSteps) + 1)
    BY <1>1 DEF BootInv, OneBootInv, BootTypeOK
  <2>6. Len(sent) <= Cardinality(Places(config))
    BY <1>1 DEF BootInv, TypedInv
  <2>7. pc \in {"boot", "dial", "handshake", "command", "keys", "pause", "continue", "halt"}
    BY <1>1 DEF BootInv, OneBootInv, BootTypeOK
  <2> QED  BY <2>3, <2>4, <2>5, <2>6, <2>7
<1>2. BootInv => ToGo \in Nat
  <2> SUFFICES ASSUME BootInv PROVE ToGo \in Nat
    OBVIOUS
  <2> DEFINE left == 3 * (Len(BootSteps) + 1 - cur) + Cardinality(Places(config)) - Len(sent)
  <2>1. left \in Nat  BY <1>1
  <2>2. ToGo \in {left + 5, left + 4, left + 3, left + 2, left + 1, 0}
    <3> HIDE DEF left
    <3>1. pc \in {"boot", "dial", "handshake", "command", "keys", "pause", "continue", "halt"}
      BY <1>1
    <3>2. ToGo = CASE pc = "boot"                  -> left + 5
                   [] pc = "dial"                  -> left + 4
                   [] pc \in {"handshake", "pause"} -> left + 3
                   [] pc = "command"               -> left + 2
                   [] pc = "keys"                  -> left + 1
                   [] pc \in {"continue", "halt"}   -> 0
      BY DEF ToGo, left
    <3> QED  BY <3>1, <3>2
  <2> HIDE DEF left
  <2> QED  BY <2>1, <2>2
<1>a. (BootInv => ToGo \in Nat)'  BY <1>2, PTL
<1>3. ASSUME BootInv, BootInv', [BootNext]_bootVars
      PROVE  ToGo' <= ToGo /\ (TypeStep => ToGo' < ToGo)
  <2> DEFINE L == Len(BootSteps)
             P == Cardinality(Places(config))
             S == Len(sent)
  <2>1. /\ cur \in Nat /\ L \in Nat /\ cur <= L + 1 /\ S \in Nat /\ P \in Nat /\ S <= P
        /\ pc \in {"boot", "dial", "handshake", "command", "keys", "pause", "continue", "halt"}
    BY <1>1, <1>3
  <2>2. ToGo =
          CASE pc = "boot"                  -> 3 * (L + 1 - cur) + P - S + 5
            [] pc = "dial"                  -> 3 * (L + 1 - cur) + P - S + 4
            [] pc \in {"handshake", "pause"} -> 3 * (L + 1 - cur) + P - S + 3
            [] pc = "command"               -> 3 * (L + 1 - cur) + P - S + 2
            [] pc = "keys"                  -> 3 * (L + 1 - cur) + P - S + 1
            [] pc \in {"continue", "halt"}   -> 0
    BY DEF ToGo
  <2>3. config' = config => L' = L /\ P' = P
    <3>1. config' = config => BootSteps' = BootSteps  BY DEF BootSteps
    <3> QED  BY <3>1
  <2>4. ToGo' =
          CASE pc' = "boot"                  -> 3 * (L' + 1 - cur') + P' - S' + 5
            [] pc' = "dial"                  -> 3 * (L' + 1 - cur') + P' - S' + 4
            [] pc' \in {"handshake", "pause"} -> 3 * (L' + 1 - cur') + P' - S' + 3
            [] pc' = "command"               -> 3 * (L' + 1 - cur') + P' - S' + 2
            [] pc' = "keys"                  -> 3 * (L' + 1 - cur') + P' - S' + 1
            [] pc' \in {"continue", "halt"}   -> 0
    BY DEF ToGo
  <2>5. ToGo \in Nat /\ ToGo' \in Nat  BY <1>2, <1>a, <1>3
  <2>6. sent \in Seq(AllKeys)  BY <1>3 DEF BootInv, OneBootInv, BootTypeOK
  <2>7. \A k : sent' = Append(sent, k) => S' = S + 1
    <3> HIDE DEF AllKeys
    <3> QED  BY <2>6
  <2>8. sent' = sent => S' = S  OBVIOUS
  <2> HIDE DEF L, P, S
  <2>9. ASSUME config' = config, UNCHANGED <<cur, sent>>, pc' \in {"continue", "halt"},
               pc \notin {"continue", "halt"}
        PROVE  ToGo' < ToGo
    BY <2>1, <2>2, <2>4, <2>9
  <2>10. ASSUME Fail, config' = config, pc \notin {"continue", "halt"}
         PROVE  ToGo' < ToGo
    BY <2>9, <2>10 DEF Fail
  <2>11. ASSUME TypeStep PROVE ToGo' < ToGo
    <3>1. config' = config  BY <2>11 DEF TypeStep
    <3>2. CASE BootWait  BY <2>1, <2>2, <2>3, <2>4, <2>8, <3>1, <3>2 DEF BootWait, Goto
    <3>3. CASE Dial
      <4>1. CASE Fail  BY <2>10, <3>1, <3>3, <4>1 DEF Dial
      <4>2. CASE pc' = "handshake" /\ UNCHANGED <<cur, sent>>
        BY <2>1, <2>2, <2>3, <2>4, <2>8, <3>1, <3>3, <4>2 DEF Dial
      <4> QED  BY <3>3, <4>1, <4>2 DEF Dial
    <3>4. CASE Handshake
      <4>1. CASE Fail  BY <2>10, <3>1, <3>4, <4>1 DEF Handshake
      <4>2. CASE Goto("command")
        BY <2>1, <2>2, <2>3, <2>4, <2>8, <3>1, <3>4, <4>2 DEF Handshake, Goto
      <4> QED  BY <3>4, <4>1, <4>2 DEF Handshake
    <3>5. CASE Command
      <4>1. CASE Fail  BY <2>10, <3>1, <3>5, <4>1 DEF Command
      <4>2. CASE Goto("continue")
        BY <2>9, <3>1, <3>5, <4>2 DEF Command, Goto
      <4>3. CASE cur' = cur + 1 /\ UNCHANGED <<pc, sent>>
        BY <2>1, <2>2, <2>3, <2>4, <2>8, <3>1, <3>5, <4>3 DEF Command
      <4>4. CASE pc' = "keys" /\ UNCHANGED <<cur, sent>>
        BY <2>1, <2>2, <2>3, <2>4, <2>8, <3>1, <3>5, <4>4 DEF Command
      <4> QED  BY <3>5, <4>1, <4>2, <4>3, <4>4 DEF Command
    <3>6. CASE SendKey
      <4>1. CASE Fail  BY <2>10, <3>1, <3>6, <4>1 DEF SendKey
      <4>2. CASE Sends(Typed[key]) /\ UNCHANGED <<pc, cur>>
        <5>1. S' = S + 1  BY <2>7, <4>2 DEF Sends
        <5> QED  BY <2>1, <2>2, <2>3, <2>4, <3>1, <3>6, <4>2, <5>1 DEF SendKey
      <4> QED  BY <3>6, <4>1, <4>2 DEF SendKey, Unsent
    <3>7. CASE CommandDone
      BY <2>1, <2>2, <2>3, <2>4, <2>8, <3>1, <3>7 DEF CommandDone
    <3>8. CASE Resume
      BY <2>1, <2>2, <2>3, <2>4, <2>8, <3>1, <3>8 DEF Resume, Goto
    <3> QED  BY <2>11, <3>2, <3>3, <3>4, <3>5, <3>6, <3>7, <3>8 DEF TypeStep
  <2>12. CASE User
    <3>1. ToGo' < ToGo
      BY <2>1, <2>2, <2>3, <2>4, <2>8, <2>12 DEF User, UserResumes, Goto
    <3> QED  BY <2>5, <3>1
  <2>13. CASE (Cancel \/ Deliver \/ VMExit \/ VMRestart \/ UNCHANGED bootVars) /\ ~TypeStep
    <3>1. UNCHANGED <<config, pc, cur, sent>>
      BY <2>13 DEF Cancel, Deliver, VMExit, VMRestart, bootVars, typing
    <3>2. ToGo' = ToGo  BY <2>2, <2>3, <2>4, <2>8, <3>1
    <3> QED  BY <2>5, <2>13, <3>2
  <2>14. CASE TypeStep  BY <2>5, <2>11, <2>14
  <2> QED  BY <1>3, <2>12, <2>13, <2>14 DEF BootNext
<1>4. BootSpec => [](ToGo \in Nat)  BY <1>2, BootInvariant, PTL
<1>5. BootSpec => [][ToGo' <= ToGo /\ (TypeStep => ToGo' < ToGo)]_bootVars
  BY <1>3, BootInvariant, PTL DEF BootSpec
<1> QED  BY <1>4, <1>5 DEF TypingAdvances
=============================================================================
