------------------------- MODULE GuestAddress_proofs ------------------------
(***************************************************************************)
(* Proofs about the guest's address for every link, every table and every  *)
(* timeout.                                                                *)
(***************************************************************************)
EXTENDS GuestAddress, SequenceTheorems, TLAPS

\* The zero that dladm leaves out of an octet is the one that is put back.
LEMMA PaddedOctet ==
  ASSUME NEW o \in Octets
  PROVE  Padded(IF o < 16 THEN <<o>> ELSE <<o \div 16, o % 16>>) = <<o \div 16, o % 16>>
<1>1. CASE o < 16
  <2>1. o \div 16 = 0 /\ o % 16 = o  BY <1>1 DEF Octets
  <2>2. Padded(<<o>>) = <<0>> \o <<o>>  BY DEF Padded
  <2>3. o \in Nat  BY DEF Octets
  <2>4. <<0>> \o <<o>> = <<0, o>>
    <3> DEFINE s == <<0>> \o <<o>>
    <3>1. <<0>> \in Seq(Nat) /\ <<o>> \in Seq(Nat)  BY <2>3
    <3>2. s \in Seq(Nat) /\ Len(s) = 2 /\ s[1] = 0 /\ s[2] = o  BY <3>1
    <3>3. <<0, o>> \in Seq(Nat) /\ Len(<<0, o>>) = 2 /\ <<0, o>>[1] = 0 /\ <<0, o>>[2] = o
      BY <2>3
    <3> HIDE DEF s
    <3>4. s = <<0, o>>  BY <3>2, <3>3, SeqEqual
    <3> QED  BY <3>4 DEF s
  <2> QED  BY <1>1, <2>1, <2>2, <2>4
<1>2. CASE ~(o < 16)  BY <1>2 DEF Padded
<1> QED  BY <1>1, <1>2

\* The step's form of a MAC address is arp's, for every MAC address.
LEMMA VNICMacIsArpForm ==
  ASSUME NEW m \in Seq(Octets)
  PROVE  VNICMac(m) = ArpForm(m)
<1> SUFFICES ASSUME NEW i \in DOMAIN m PROVE Padded(DladmForm(m)[i]) = ArpForm(m)[i]
  BY DEF VNICMac, ArpForm
<1>1. m[i] \in Octets  OBVIOUS
<1> QED  BY <1>1, PaddedOctet DEF DladmForm, ArpForm

LEMMA OctetFromDigits ==
  ASSUME NEW o \in Octets
  PROVE  o = 16 * (o \div 16) + (o % 16)
BY DEF Octets

\* arp prints different MAC addresses differently.
LEMMA ArpFormInjective ==
  ASSUME NEW m \in Seq(Octets), NEW n \in Seq(Octets), ArpForm(m) = ArpForm(n)
  PROVE  m = n
<1>1. DOMAIN m = DOMAIN n  BY DEF ArpForm
<1>2. ASSUME NEW i \in DOMAIN m PROVE m[i] = n[i]
  <2>1. m[i] \in Octets /\ n[i] \in Octets  BY <1>1
  <2>2. <<m[i] \div 16, m[i] % 16>> = <<n[i] \div 16, n[i] % 16>>  BY <1>1 DEF ArpForm
  <2>3. m[i] \div 16 = n[i] \div 16 /\ m[i] % 16 = n[i] % 16  BY <2>2
  <2>4. /\ m[i] = 16 * (m[i] \div 16) + (m[i] % 16)
       /\ n[i] = 16 * (n[i] \div 16) + (n[i] % 16)
    BY <2>1, OctetFromDigits
  <2> QED  BY <2>3, <2>4
<1>3. Len(m) = Len(n)  BY <1>1
<1> QED  BY <1>1, <1>2, <1>3

-----------------------------------------------------------------------------
(* The invariant.                                                           *)

\* What makes them true, in every state: the step looks for the VNIC's MAC
\* address, a row that shows the guest has an address the guest has had, and so
\* has the bag; the table did not show the guest when the step last looked.
AddressInv ==
  /\ AddressTypeOK
  /\ mac = NoMac \/ mac = ArpForm(Ours)
  /\ pc \in {"poll", "wait"} => mac = ArpForm(Ours)
  /\ \A a \in Addrs : table[a].phys = Ours \/ holds[Ours] = a => a \in had
  /\ pc \in {"continue", "connect"} => bag \in had
  /\ ConnectsToItsGuest
  /\ Shown(table) \/ unseen = clock
  /\ unseen <= clock
  /\ pc = "wait" => since <= unseen /\ since <= clock /\ clock <= since + 1
  /\ FoundInTime

LEMMA OursForms ==
  /\ Ours \in Seq(Octets) /\ Ours # NoMac
  /\ VNICMac(Ours) = ArpForm(Ours) /\ ArpForm(Ours) # NoMac
<1>1. Ours \in Seq(Octets) /\ Ours # NoMac  BY AddressAssumption
<1>2. VNICMac(Ours) = ArpForm(Ours)  BY <1>1, VNICMacIsArpForm
<1>3. ArpForm(Ours) # NoMac
  <2>1. Ours # <<>> /\ DOMAIN Ours = 1..Len(Ours)  BY <1>1 DEF NoMac
  <2>2. 1 \in DOMAIN Ours  BY <1>1, <2>1
  <2>3. 1 \in DOMAIN ArpForm(Ours)  BY <2>2 DEF ArpForm
  <2> QED  BY <2>3 DEF NoMac
<1> QED  BY <1>1, <1>2, <1>3

\* A row matches the VNIC if and only if it is of the VNIC.
LEMMA RowMatches ==
  ASSUME NEW a \in Addrs, NEW row \in RowType
  PROVE  Matches(Fields(a, row), ArpForm(Ours)) <=> row.phys = Ours
<1> DEFINE arp == ArpForm(row.phys)
           S   == {"device", a, "mask", NoMac, arp}
           F   == <<"device", a, "mask">>
           G   == IF row.flags THEN <<NoMac>> ELSE <<>>
           H   == IF row.phys # NoMac THEN <<arp>> ELSE <<>>
           f   == Fields(a, row)
<1>1. row.flags \in BOOLEAN /\ row.phys \in Macs \cup {NoMac}  BY DEF RowType
<1>2. "device" \in S /\ a \in S /\ "mask" \in S /\ NoMac \in S /\ arp \in S
  OBVIOUS
<1> HIDE DEF S, arp
<1>3. F \in Seq(S) /\ Len(F) = 3  BY <1>2
<1>4. /\ G \in Seq(S) /\ Len(G) = IF row.flags THEN 1 ELSE 0
      /\ row.flags => G[1] = NoMac
  <2> HIDE DEF F, H, f
  <2>1. CASE row.flags
    <3>1. G = <<NoMac>>  BY <2>1
    <3> HIDE DEF G, NoMac
    <3> QED  BY <1>2, <2>1, <3>1
  <2>2. CASE ~row.flags
    <3>1. G = <<>>  BY <2>2
    <3> HIDE DEF G
    <3> QED  BY <2>2, <3>1
  <2> QED  BY <2>1, <2>2
<1>5. /\ H \in Seq(S) /\ Len(H) = IF row.phys # NoMac THEN 1 ELSE 0
      /\ row.phys # NoMac => H[1] = arp
  <2> HIDE DEF F, G, f
  <2>1. CASE row.phys # NoMac
    <3>1. H = <<arp>>  BY <2>1
    <3> HIDE DEF H
    <3> QED  BY <1>2, <2>1, <3>1
  <2>2. CASE row.phys = NoMac
    <3>1. H = <<>>  BY <2>2
    <3> HIDE DEF H
    <3> QED  BY <2>2, <3>1
  <2> QED  BY <2>1, <2>2
<1>6. f = (F \o G) \o H  BY DEF Fields, arp
<1> HIDE DEF F, G, H, f
<1>7. /\ F \o G \in Seq(S) /\ Len(F \o G) = 3 + Len(G)
      /\ row.flags => (F \o G)[4] = NoMac
  <2>1. /\ F \o G \in Seq(S) /\ Len(F \o G) = 3 + Len(G)
        /\ \A i \in 1..(3 + Len(G)) : (F \o G)[i] = IF i <= 3 THEN F[i] ELSE G[i - 3]
    <3>1. /\ F \o G \in Seq(S) /\ Len(F \o G) = Len(F) + Len(G)
          /\ \A i \in 1..(Len(F) + Len(G)) :
               (F \o G)[i] = IF i <= Len(F) THEN F[i] ELSE G[i - Len(F)]
      BY <1>3, <1>4, ConcatProperties, Zenon
    <3> QED  BY <1>3, <3>1
  <2>2. row.flags => 4 \in 1..(3 + Len(G))  BY <1>4
  <2>3. row.flags => (F \o G)[4] = G[4 - 3]  BY <2>1, <2>2
  <2> QED  BY <1>4, <2>1, <2>3
<1>8. /\ Len(f) = 3 + Len(G) + Len(H)
      /\ row.phys # NoMac => f[Len(f)] = arp
      /\ row.phys = NoMac /\ row.flags => f[4] = NoMac
  <2>1. /\ Len(f) = Len(F \o G) + Len(H)
        /\ \A i \in 1..(Len(F \o G) + Len(H)) :
             f[i] = IF i <= Len(F \o G) THEN (F \o G)[i] ELSE H[i - Len(F \o G)]
    <3> DEFINE E == F \o G
    <3>1. E \in Seq(S) /\ f = E \o H  BY <1>6, <1>7
    <3> HIDE DEF E
    <3>2. /\ Len(E \o H) = Len(E) + Len(H)
          /\ \A i \in 1..(Len(E) + Len(H)) :
               (E \o H)[i] = IF i <= Len(E) THEN E[i] ELSE H[i - Len(E)]
      BY <1>5, <3>1, ConcatProperties, Zenon
    <3> QED  BY <3>1, <3>2, Zenon DEF E
  <2>2. Len(F \o G) = 3 + Len(G) /\ Len(G) \in {0, 1} /\ Len(H) \in {0, 1}  BY <1>4, <1>5, <1>7
  <2>3. ASSUME row.phys # NoMac PROVE f[Len(f)] = arp
    <3>1. Len(H) = 1 /\ H[1] = arp  BY <1>5, <2>3
    <3> QED  BY <2>1, <2>2, <3>1
  <2>4. ASSUME row.phys = NoMac, row.flags PROVE f[4] = NoMac
    <3>1. Len(G) = 1  BY <1>4, <2>4
    <3>2. 4 \in 1..(Len(F \o G) + Len(H)) /\ 4 <= Len(F \o G)  BY <2>2, <3>1
    <3> QED  BY <1>7, <2>1, <2>4, <3>2
  <2> QED  BY <2>1, <2>2, <2>3, <2>4
<1>9. CASE row.phys = NoMac
  <2>1. Len(f) \in {4, 5} => row.flags /\ Len(f) = 4  BY <1>1, <1>4, <1>5, <1>8, <1>9
  <2>2. Len(f) \in {4, 5} => f[Len(f)] = NoMac  BY <1>8, <1>9, <2>1
  <2> QED  BY <2>2, <1>9, OursForms DEF Matches, f
<1>10. CASE row.phys # NoMac
  <2>1. Len(f) \in {4, 5} /\ f[Len(f)] = arp  BY <1>1, <1>4, <1>5, <1>8, <1>10
  <2>2. row.phys \in Seq(Octets)  BY <1>1, <1>10, AddressAssumption
  <2>3. Matches(f, ArpForm(Ours)) <=> arp = ArpForm(Ours)  BY <2>1 DEF Matches
  <2> QED  BY <2>2, <2>3, OursForms, ArpFormInjective DEF f, arp
<1> QED  BY <1>9, <1>10

-----------------------------------------------------------------------------
(* The invariant.                                                           *)

LEMMA AddressInitInv == AddressInit => AddressInv
<1> SUFFICES ASSUME AddressInit PROVE AddressInv
  OBVIOUS
<1>1. Deadline \in Nat \ {0}  BY AddressAssumption
<1>2. had \in SUBSET Addrs  BY DEF AddressInit
<1>3. table \in [Addrs -> RowType]
  BY AddressAssumption DEF AddressInit, RowType, NoRow
<1>4. AddressTypeOK
  <2>1. mac = <<>> /\ DOMAIN mac = {}  BY DEF AddressInit, NoMac
  <2>2. /\ since = 0 /\ clock = 0 /\ unseen = 0 /\ 0 \in 0..Deadline
        /\ cancelled = FALSE /\ error = FALSE /\ host \in Hosts /\ pc = "mac"
        /\ bag = NoAddr /\ target = NoAddr
    BY <1>1 DEF AddressInit
  <2>3. holds \in [Macs -> Addrs \cup {NoAddr}]  BY DEF AddressInit
  <2>4. \A i \in DOMAIN mac : mac[i] \in (0..15) \X (0..15)  BY <2>1
  <2> QED  BY <1>2, <1>3, <2>2, <2>3, <2>4 DEF AddressTypeOK
<1>5. \A a \in Addrs : table[a].phys = Ours \/ holds[Ours] = a => a \in had
  BY AddressAssumption, OursForms DEF AddressInit, NoRow
<1> QED  BY <1>1, <1>4, <1>5 DEF AddressInit, AddressInv, ConnectsToItsGuest, FoundInTime

\* A step that changes but the table and what the guest has had keeps the
\* invariant, if rows that show the guest have an address it has had.
LEMMA TableStep ==
  ASSUME AddressInv, UNCHANGED <<step, host, clock>>,
         NEW t \in [Addrs -> RowType], TableIs(t),
         holds' \in [Macs -> Addrs \cup {NoAddr}], had' \in SUBSET Addrs, had \subseteq had',
         \A a \in Addrs : t[a].phys = Ours \/ holds'[Ours] = a => a \in had'
  PROVE  AddressInv'
<1> USE DEF AddressInv, AddressTypeOK, ConnectsToItsGuest, FoundInTime, step
<1>1. table' = t /\ unseen' = IF Shown(table) /\ Shown(t) THEN unseen ELSE clock  BY DEF TableIs
<1>2. unseen' \in {unseen, clock} /\ unseen <= unseen' /\ unseen' <= clock' /\ unseen' \in 0..Deadline
  BY <1>1, AddressAssumption
<1>3. Shown(table)' \/ unseen' = clock'
  <2>1. Shown(t) => Shown(table)'  BY <1>1 DEF Shown
  <2> QED  BY <1>1, <2>1
<1>4. AddressTypeOK'  BY <1>1, <1>2
<1>5. (pc = "wait" => since <= unseen /\ since <= clock /\ clock <= since + 1)'
  BY <1>2, AddressAssumption
<1>6. FoundInTime'  BY <1>2, AddressAssumption
<1>7. ConnectsToItsGuest'  OBVIOUS
<1> QED  BY <1>1, <1>2, <1>3, <1>4, <1>5, <1>6, <1>7

LEMMA AddressNextInv == AddressInv /\ [AddressNext]_addressVars => AddressInv'
<1> SUFFICES ASSUME AddressInv, [AddressNext]_addressVars PROVE AddressInv'
  OBVIOUS
<1>0. Deadline \in Nat \ {0}  BY AddressAssumption
<1> USE <1>0 DEF AddressInv, AddressTypeOK, ConnectsToItsGuest, FoundInTime, step, link
<1>1. CASE GetMac
  <2>1. VNICMac(Ours) = ArpForm(Ours)  BY OursForms
  <2>2. \A i \in DOMAIN ArpForm(Ours) : ArpForm(Ours)[i] \in (0..15) \X (0..15)
    <3> SUFFICES ASSUME NEW i \in DOMAIN ArpForm(Ours) PROVE ArpForm(Ours)[i] \in (0..15) \X (0..15)
      OBVIOUS
    <3>1. i \in DOMAIN Ours /\ ArpForm(Ours)[i] = <<Ours[i] \div 16, Ours[i] % 16>>  BY DEF ArpForm
    <3>2. Ours[i] \in Octets  BY <3>1, OursForms
    <3>3. Ours[i] \div 16 \in 0..15 /\ Ours[i] % 16 \in 0..15  BY <3>2 DEF Octets
    <3> QED  BY <3>1, <3>3
  <2> QED  BY <1>1, <2>1, <2>2 DEF GetMac, Shown
<1>2. CASE PollFinds
  <2>1. PICK a \in Answers(mac) : bag' = a /\ pc' = "continue"  BY <1>2 DEF PollFinds
  <2>2. mac = ArpForm(Ours)  BY <1>2 DEF PollFinds
  <2>3. a \in Addrs /\ table[a] \in RowType /\ table[a].phys = Ours
    BY <2>1, <2>2, RowMatches DEF Answers
  <2> QED  BY <1>2, <2>1, <2>3 DEF PollFinds, Shown
<1>3. CASE PollFindsNone
  <2>1. mac = ArpForm(Ours)  BY <1>3 DEF PollFindsNone
  <2>2. Answers(mac) = {} => ~Shown(table)  BY <2>1, RowMatches DEF Answers, Shown
  <2>3. unseen' = clock  BY <1>3, <2>2 DEF PollFindsNone
  <2> QED  BY <1>3, <2>3 DEF PollFindsNone, Shown
<1>4. CASE Again  BY <1>4 DEF Again, Shown
<1>5. CASE GiveUp  BY <1>5 DEF GiveUp, Expired, Shown
<1>6. CASE Connect
  <2> USE <1>6 DEF Connect
  <2>1. bag \in had /\ bag # NoAddr  BY AddressAssumption
  <2>2. target' = IF host # NoAddr THEN host ELSE bag  BY <2>1 DEF CommHost
  <2>3. ConnectsToItsGuest'  BY <2>2, <2>1
  <2>4. AddressTypeOK'  BY <2>1, <2>2, AddressAssumption
  <2> QED  BY <2>1, <2>3, <2>4 DEF Shown
<1>7. CASE Cancel  BY <1>7 DEF Cancel, Shown
<1>8. CASE TakesAddress
  <2>1. PICK m \in Macs, a \in Addrs :
          /\ holds' = [holds EXCEPT ![m] = a]
          /\ had' = IF m = Ours THEN had \cup {a} ELSE had
          /\ TableIs(table) \/ \E row \in Rows(a) : TableIs([table EXCEPT ![a] = row])
    BY <1>8 DEF TakesAddress
  <2>2. \A row \in Rows(a) : row \in RowType /\ row.phys \in {n \in Macs : holds'[n] = a}
    BY DEF Rows, RowType
  <2>3. \E t \in [Addrs -> RowType] :
          /\ TableIs(t)
          /\ \A b \in Addrs : t[b] = table[b] \/ (b = a /\ t[b] \in Rows(a))
    <3>1. CASE TableIs(table)  BY <3>1
    <3>2. ASSUME NEW row \in Rows(a), TableIs([table EXCEPT ![a] = row])
          PROVE  \E t \in [Addrs -> RowType] :
                   /\ TableIs(t)
                   /\ \A b \in Addrs : t[b] = table[b] \/ (b = a /\ t[b] \in Rows(a))
      <4> DEFINE s == [table EXCEPT ![a] = row]
      <4>1. s \in [Addrs -> RowType]  BY <2>2
      <4>2. \A b \in Addrs : s[b] = table[b] \/ (b = a /\ s[b] \in Rows(a))  BY <3>2
      <4> HIDE DEF s
      <4>3. TableIs(s)  BY <3>2 DEF s
      <4> QED  BY <4>1, <4>2, <4>3
    <3> QED  BY <2>1, <3>1, <3>2
  <2>4. PICK t \in [Addrs -> RowType] :
          /\ TableIs(t)
          /\ \A b \in Addrs : t[b] = table[b] \/ (b = a /\ t[b] \in Rows(a))
    BY <2>3
  <2>5. holds' \in [Macs -> Addrs \cup {NoAddr}] /\ had' \in SUBSET Addrs /\ had \subseteq had'
    BY <2>1
  <2>6. holds'[Ours] = holds[Ours] \/ (holds'[Ours] = a /\ a \in had')
    BY <2>1, AddressAssumption
  <2>7. \A b \in Addrs : t[b].phys = Ours \/ holds'[Ours] = b => b \in had'
    BY <2>2, <2>4, <2>5, <2>6
  <2>8. UNCHANGED <<step, host, clock>>  BY <1>8 DEF TakesAddress
  <2> QED  BY <2>4, <2>5, <2>7, <2>8, TableStep
<1>9. CASE LosesAddress
  <2>1. PICK m \in Macs : holds' = [holds EXCEPT ![m] = NoAddr]  BY <1>9 DEF LosesAddress
  <2>2. holds' \in [Macs -> Addrs \cup {NoAddr}]  BY <2>1
  <2>3. \A a \in Addrs : holds'[Ours] = a => holds[Ours] = a  BY <2>1, AddressAssumption
  <2> QED  BY <1>9, <2>2, <2>3 DEF LosesAddress, Shown
<1>10. CASE RowChanges
  <2>1. PICK a \in Addrs : \E row \in Rows(a) \cup [phys : {NoMac}, flags : BOOLEAN] :
          TableIs([table EXCEPT ![a] = row])
    BY <1>10 DEF RowChanges
  <2>2. PICK row \in Rows(a) \cup [phys : {NoMac}, flags : BOOLEAN] :
          TableIs([table EXCEPT ![a] = row])
    BY <2>1
  <2>3. row \in RowType /\ (row.phys = NoMac \/ holds'[row.phys] = a)
    <3>1. CASE row \in Rows(a)  BY <3>1 DEF Rows, RowType
    <3>2. CASE row \in [phys : {NoMac}, flags : BOOLEAN]  BY <3>2 DEF RowType
    <3> QED  BY <3>1, <3>2
  <2>4. UNCHANGED <<step, host, holds, had, clock>>  BY <1>10 DEF RowChanges
  <2>5. row.phys = Ours => a \in had  BY <2>3, <2>4, OursForms
  <2> DEFINE t == [table EXCEPT ![a] = row]
  <2>6. t \in [Addrs -> RowType] /\ TableIs(t)  BY <2>2, <2>3
  <2>7. \A b \in Addrs : t[b].phys = Ours \/ holds'[Ours] = b => b \in had'
    BY <2>4, <2>5
  <2> QED  BY <2>4, <2>6, <2>7, TableStep
<1>11. CASE Tick
  <2> USE <1>11 DEF Tick
  <2>1. pc = "wait" /\ clock' = clock + 1 /\ clock' \in 0..Deadline /\ since = clock  OBVIOUS
  <2>2. unseen' \in {unseen, clock'} /\ unseen' \in 0..Deadline /\ unseen' <= clock'  BY <2>1
  <2>3. Shown(table)' \/ unseen' = clock'  BY DEF Shown
  <2>4. since' <= unseen' /\ since' <= clock' /\ clock' <= since' + 1  BY <2>1, <2>2
  <2>5. AddressTypeOK'  BY <2>1, <2>2
  <2> QED  BY <2>1, <2>2, <2>3, <2>4, <2>5
<1>12. CASE UNCHANGED addressVars  BY <1>12 DEF addressVars, Shown
<1> QED
  BY <1>1, <1>2, <1>3, <1>4, <1>5, <1>6, <1>7, <1>8, <1>9, <1>10, <1>11, <1>12
  DEF AddressNext, Step

LEMMA AddressInvariant == AddressSpec => []AddressInv
BY AddressInitInv, AddressNextInv, PTL DEF AddressSpec

-----------------------------------------------------------------------------
(* The properties.                                                          *)

\* Type correctness.
THEOREM AddressTypeCorrect == AddressSpec => []AddressTypeOK
<1>1. AddressInv => AddressTypeOK  BY DEF AddressInv
<1> QED  BY <1>1, AddressInvariant, PTL

\* The step looks for the row of its VNIC and of no other, whatever the MAC
\* addresses are: the padding undoes what dladm did, and arp's form tells any
\* two of them apart (step_wait_guest_address.go:64-66, 85-91).
THEOREM RecognizesTheMac == AddressSpec => []MacIsRecognized
<1>1. ASSUME AddressInv, mac # NoMac, NEW m \in Macs
      PROVE  mac = ArpForm(m) <=> m = Ours
  <2>1. mac = ArpForm(Ours)  BY <1>1 DEF AddressInv
  <2>2. m \in Seq(Octets) /\ Ours \in Seq(Octets)  BY AddressAssumption
  <2> QED  BY <2>1, <2>2, ArpFormInjective
<1>2. AddressInv => MacIsRecognized  BY <1>1 DEF MacIsRecognized
<1> QED  BY <1>2, AddressInvariant, PTL

\* The communicator connects to the configured host or to an address its guest
\* has had (step_wait_guest_address.go:119-131, ssh.go:9-22).
THEOREM ConnectsToGuest == AddressSpec => []ConnectsToItsGuest
<1>1. AddressInv => ConnectsToItsGuest  BY DEF AddressInv
<1> QED  BY <1>1, AddressInvariant, PTL

\* A guest that the table shows for the last interval before the deadline is
\* found, for every deadline (step_wait_guest_address.go:44-57).
THEOREM FindsInTime == AddressSpec => []FoundInTime
<1>1. AddressInv => FoundInTime  BY DEF AddressInv
<1> QED  BY <1>1, AddressInvariant, PTL

-----------------------------------------------------------------------------
(* The step answers as the runner expects.                                  *)

\* The bag has an address from the answer on, and an error only with it.
AnswerInv ==
  /\ pc \in {"mac", "poll", "wait", "halt"} => bag = NoAddr
  /\ error => pc = "halt"

LEMMA AnswerNext ==
  AddressInv /\ AnswerInv /\ [AddressNext]_addressVars => AnswerInv'
<1> SUFFICES ASSUME AddressInv, AnswerInv, [AddressNext]_addressVars PROVE AnswerInv'
  OBVIOUS
<1> USE DEF AnswerInv, step
<1>1. CASE Step  BY <1>1 DEF Step, GetMac, PollFinds, PollFindsNone, Again, GiveUp, Connect
<1>2. CASE Cancel  BY <1>2 DEF Cancel
<1>3. CASE TakesAddress \/ LosesAddress \/ RowChanges \/ Tick \/ UNCHANGED addressVars
  <2>1. UNCHANGED step
    BY <1>3 DEF TakesAddress, LosesAddress, RowChanges, Tick, addressVars
  <2> QED  BY <2>1
<1> QED  BY <1>1, <1>2, <1>3 DEF AddressNext

\* Whatever happens on the link, the step answers once, and has put the address
\* in the state bag when it continues, and nothing or an error when it halts
\* (step_wait_guest_address.go:35-57).
THEOREM AddressStepAnswers == AddressSpec => ImplementsStep
<1>1. AddressInit => Outcome!OutcomeInit /\ AnswerInv
  BY DEF AddressInit, Outcome!OutcomeInit, AnswerInv
<1>2. ASSUME AddressInv, AnswerInv, [AddressNext]_addressVars
      PROVE  [Outcome!OutcomeNext]_(Outcome!outcomeVars)
  <2> USE <1>2 DEF AnswerInv, step, Outcome!outcomeVars
  <2>1. CASE GetMac
    <3>1. CASE pc' = "poll" /\ UNCHANGED <<error, bag, cancelled>>  BY <2>1, <3>1 DEF GetMac
    <3>2. CASE pc' = "halt" /\ error' = TRUE /\ UNCHANGED <<bag, cancelled>>
      <4>1. Outcome!Answers  BY <2>1, <3>2 DEF GetMac, Outcome!Answers, Outcome!Outcomes
      <4> QED  BY <4>1 DEF Outcome!OutcomeNext
    <3> QED  BY <2>1, <3>1, <3>2 DEF GetMac
  <2>2. CASE PollFinds
    <3>1. bag' \in Addrs /\ NoAddr \notin Addrs
      BY <2>2, AddressAssumption DEF PollFinds, Answers
    <3>2. pc = "poll" /\ pc' = "continue" /\ ~error /\ UNCHANGED <<error, cancelled>>
      BY <2>2 DEF PollFinds
    <3>3. Outcome!Answers  BY <3>1, <3>2 DEF Outcome!Answers, Outcome!Outcomes
    <3> QED  BY <3>3 DEF Outcome!OutcomeNext
  <2>3. CASE GiveUp
    <3>1. Outcome!Answers  BY <2>3 DEF GiveUp, Outcome!Answers, Outcome!Outcomes
    <3> QED  BY <3>1 DEF Outcome!OutcomeNext
  <2>4. CASE Cancel
    <3>1. Outcome!Cancels  BY <2>4 DEF Cancel, Outcome!Cancels
    <3> QED  BY <3>1 DEF Outcome!OutcomeNext
  <2>5. CASE PollFindsNone \/ Again \/ Connect
    BY <2>5 DEF PollFindsNone, Again, Connect
  <2>6. CASE TakesAddress \/ LosesAddress \/ RowChanges \/ Tick \/ UNCHANGED addressVars
    <3>1. UNCHANGED step
      BY <2>6 DEF TakesAddress, LosesAddress, RowChanges, Tick, addressVars
    <3> QED  BY <3>1
  <2> QED  BY <2>1, <2>2, <2>3, <2>4, <2>5, <2>6 DEF AddressNext, Step
<1> QED
  BY <1>1, <1>2, AddressInvariant, AnswerNext, PTL
  DEF AddressSpec, ImplementsStep, Outcome!OutcomeSpec

\* How many steps and ticks are still to come, at most: a poll, a wait and a tick
\* for every interval that is left.
ToGo ==
  LET left == 3 * (Deadline - clock)
  IN CASE pc = "mac"                  -> left + 4
       [] pc = "wait"                 -> left + (IF clock > since THEN 4 ELSE 2)
       [] pc = "poll"                 -> left + 3
       [] pc = "continue"             -> 1
       [] pc \in {"halt", "connect"}   -> 0

\* The table is read once in an interval, and no more often than the timeout has
\* intervals, whatever happens on the link
\* (step_wait_guest_address.go:30, 44-57).
PollingAdvances ==
  [](ToGo \in Nat) /\ [][ToGo' <= ToGo /\ (Step \/ Tick => ToGo' < ToGo)]_addressVars

\* For every timeout and every link, the step makes no more than three steps and
\* ticks for each interval, and three (step_wait_guest_address.go:30, 44-57).
THEOREM PollingIsBounded == AddressSpec => PollingAdvances
<1>1. AddressInv => ToGo \in Nat
  <2> SUFFICES ASSUME AddressInv PROVE ToGo \in Nat
    OBVIOUS
  <2> USE AddressAssumption DEF AddressInv, AddressTypeOK
  <2> DEFINE left == 3 * (Deadline - clock)
  <2>1. left \in Nat  OBVIOUS
  <2>2. ToGo \in {left + 4, left + 3, left + 2, 1, 0}
    <3>1. pc \in {"mac", "poll", "wait", "continue", "halt", "connect"}  OBVIOUS
    <3> HIDE DEF left
    <3>2. ToGo = CASE pc = "mac"                  -> left + 4
                   [] pc = "wait"                 -> left + (IF clock > since THEN 4 ELSE 2)
                   [] pc = "poll"                 -> left + 3
                   [] pc = "continue"             -> 1
                   [] pc \in {"halt", "connect"}   -> 0
      BY DEF ToGo, left
    <3> QED  BY ONLY <2>1, <3>1, <3>2
  <2> HIDE DEF left
  <2> QED  BY <2>1, <2>2
<1>a. (AddressInv => ToGo \in Nat)'  BY <1>1, PTL
<1>2. ASSUME AddressInv, AddressInv', [AddressNext]_addressVars
      PROVE  ToGo' <= ToGo /\ (Step \/ Tick => ToGo' < ToGo)
  <2>0. ToGo \in Int /\ ToGo' \in Int  BY <1>1, <1>a, <1>2
  <2> USE <1>2, AddressAssumption DEF AddressInv, AddressTypeOK, step
  <2>1. CASE Step
    <3>1. clock' = clock
      BY <2>1 DEF Step, GetMac, PollFinds, PollFindsNone, Again, GiveUp, Connect
    <3>2. Deadline \in Int /\ clock \in Int /\ since \in Int /\ clock <= Deadline  OBVIOUS
    <3>3. ToGo' < ToGo
      <4>1. CASE GetMac  BY <4>1, <3>1, <3>2 DEF GetMac, ToGo
      <4>2. CASE PollFinds  BY <4>2, <3>1, <3>2 DEF PollFinds, ToGo
      <4>3. CASE PollFindsNone  BY <4>3, <3>1, <3>2 DEF PollFindsNone, ToGo
      <4>4. CASE Again  BY <4>4, <3>1, <3>2 DEF Again, ToGo
      <4>5. CASE GiveUp  BY <4>5, <3>1, <3>2 DEF GiveUp, ToGo
      <4>6. CASE Connect  BY <4>6, <3>1, <3>2 DEF Connect, ToGo
      <4> QED  BY <2>1, <4>1, <4>2, <4>3, <4>4, <4>5, <4>6 DEF Step
    <3> QED  BY <2>0, <3>3
  <2>2. CASE Tick
    <3>1. ToGo' < ToGo  BY <2>2 DEF Tick, ToGo
    <3> QED  BY <2>0, <3>1
  <2>3. CASE (Cancel \/ TakesAddress \/ LosesAddress \/ RowChanges \/ UNCHANGED addressVars)
             /\ ~Step /\ ~Tick
    <3>1. UNCHANGED <<pc, since, clock>>
      BY <2>3 DEF Cancel, TakesAddress, LosesAddress, RowChanges, addressVars
    <3>2. ToGo' = ToGo  BY <3>1 DEF ToGo
    <3> QED  BY <2>0, <2>3, <3>2
  <2> QED  BY <2>1, <2>2, <2>3 DEF AddressNext
<1>3. AddressSpec => [](ToGo \in Nat)  BY <1>1, AddressInvariant, PTL
<1>4. AddressSpec => [][ToGo' <= ToGo /\ (Step \/ Tick => ToGo' < ToGo)]_addressVars
  BY <1>2, AddressInvariant, PTL DEF AddressSpec
<1> QED  BY <1>3, <1>4 DEF PollingAdvances
=============================================================================
