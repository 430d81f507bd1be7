---------------------------- MODULE GuestAddress ----------------------------
(***************************************************************************)
(* stepWaitGuestAddress and what the communicator makes of it (ssh.go):    *)
(* the step asks dladm for the MAC address of the VNIC, polls the ARP      *)
(* table of the host until a row has it, and puts its address in the bag.  *)
(*                                                                         *)
(* Around it, the guest and other machines of the link take and lose       *)
(* addresses, and the rows of the table come, go, and outlive what they    *)
(* say.  The clock counts intervals of the polling, 10 s, and reading the  *)
(* table takes no time in comparison.                                      *)
(***************************************************************************)
EXTENDS Integers, Sequences

CONSTANTS
  Macs,     \* the MAC addresses on the link, sequences of octets
  Ours,     \* that of the VNIC
  Addrs,    \* IP addresses
  NoAddr,   \* no address, and no configured host
  Loopback, \* 127.0.0.1
  Hosts,    \* what the configuration may name as the host to connect to
  Stale,    \* may the table know the VNIC from before this build?
  Deadline  \* the step's timeout, an hour

Octets == 0..255
NoMac  == <<>>

ASSUME AddressAssumption ==
  /\ Macs \subseteq Seq(Octets) \ {NoMac} /\ Ours \in Macs
  /\ {NoAddr, Loopback} \cap Addrs = {} /\ NoAddr # Loopback
  /\ Hosts \subseteq Addrs \cup {NoAddr}
  /\ Stale \in BOOLEAN
  /\ Deadline \in Nat \ {0}

VARIABLES
  pc,        \* of the step: mac, poll, wait, continue, halt; or connect
  mac,       \* vnic_mac
  since,     \* when the wait for the next poll began
  clock,     \* intervals since the step began
  cancelled, \* is the build cancelled?
  error,     \* is there an error in the bag?
  host,      \* the configured host
  bag,       \* guestAddress in the bag
  target,    \* what the communicator connects to
  table,     \* the row of each IP address in the ARP table
  holds,     \* the IP address each machine has now
  had,       \* those the guest has had, maybe before this build
  unseen     \* when the table last did not show the guest, or was not read

step   == <<pc, mac, since, cancelled, error, bag, target>>
link   == <<table, holds, had>>
addressVars == <<step, host, link, clock, unseen>>

-----------------------------------------------------------------------------
(* MAC addresses, by their hexadecimal digits.                              *)

\* arp prints two digits for every octet ...
ArpForm(m) == [i \in DOMAIN m |-> <<m[i] \div 16, m[i] % 16>>]

\* ... and dladm leaves out a leading zero.
DladmForm(m) ==
  [i \in DOMAIN m |-> IF m[i] < 16 THEN <<m[i]>> ELSE <<m[i] \div 16, m[i] % 16>>]

\* Mutation: the zero is not put back.
Padded_None(item) == item

\* The "%02s" of get_vnic_mac.
Padded(item) == IF Len(item) < 2 THEN <<0>> \o item ELSE item

VNICMac(m) == [i \in DOMAIN m |-> Padded(DladmForm(m)[i])]

-----------------------------------------------------------------------------
(* The ARP table.                                                           *)

\* A row, if there is one, may have flags, and lacks the physical address as
\* long as the host only asks for it.
NoRow   == [phys |-> NoMac, flags |-> FALSE]
RowType == [phys : Macs \cup {NoMac}, flags : BOOLEAN]

\* What strings.Fields makes of the row of a: device, address, mask, flags and
\* physical address.
Fields(a, row) ==
  <<"device", a, "mask">>
  \o (IF row.flags THEN <<NoMac>> ELSE <<>>)
  \o (IF row.phys # NoMac THEN <<ArpForm(row.phys)>> ELSE <<>>)

\* Mutation: no row is expected to be without flags.
Matches_FlagsOnly(fields, m) == Len(fields) = 5 /\ fields[5] = m

\* Mutation: a row with flags is not compared.
Matches_Any(fields, m) == Len(fields) = 5 \/ (Len(fields) = 4 /\ fields[4] = m)

Matches(fields, m) == Len(fields) \in {4, 5} /\ fields[Len(fields)] = m

\* The addresses that get_vnic_ip may return: arp prints the rows in any order.
Answers(m) == {a \in Addrs : Matches(Fields(a, table[a]), m)}

\* Does the table show the guest?
Shown(t) == \E a \in Addrs : t[a].phys = Ours

-----------------------------------------------------------------------------

AddressTypeOK ==
  /\ pc \in {"mac", "poll", "wait", "continue", "halt", "connect"}
  /\ \A i \in DOMAIN mac : mac[i] \in (0..15) \X (0..15)
  /\ since \in 0..Deadline /\ clock \in 0..Deadline /\ unseen \in 0..Deadline
  /\ cancelled \in BOOLEAN /\ error \in BOOLEAN
  /\ host \in Hosts
  /\ bag \in Addrs \cup {NoAddr}
  /\ target \in Addrs \cup {NoAddr, Loopback}
  /\ table \in [Addrs -> RowType]
  /\ holds \in [Macs -> Addrs \cup {NoAddr}]
  /\ had \subseteq Addrs

AddressInit ==
  /\ pc = "mac" /\ mac = NoMac /\ since = 0 /\ clock = 0
  /\ cancelled = FALSE /\ error = FALSE
  /\ host \in Hosts
  /\ bag = NoAddr /\ target = NoAddr
  /\ holds = [m \in Macs |-> NoAddr]
  /\ had \in IF Stale THEN {{a} : a \in Addrs} \cup {{}} ELSE {{}}
  /\ table = [a \in Addrs |-> IF a \in had THEN [phys |-> Ours, flags |-> FALSE] ELSE NoRow]
  /\ unseen = 0

-----------------------------------------------------------------------------
(* The step.                                                                *)

GetMac ==
  /\ pc = "mac"
  /\ \/ mac' = VNICMac(Ours) /\ pc' = "poll" /\ UNCHANGED error
     \/ error' = TRUE /\ pc' = "halt" /\ UNCHANGED mac
  /\ UNCHANGED <<since, cancelled, bag, target, host, link, clock, unseen>>

\* A poll looks at the context after it has looked for the address only.
PollFinds ==
  /\ pc = "poll"
  /\ \E a \in Answers(mac) : bag' = a /\ pc' = "continue"
  /\ UNCHANGED <<mac, since, cancelled, error, target, host, link, clock, unseen>>

\* No row matches, or arp has failed.
PollFindsNone ==
  /\ pc = "poll"
  /\ pc' = "wait" /\ since' = clock
  /\ \/ Answers(mac) = {} /\ UNCHANGED unseen
     \/ unseen' = clock
  /\ UNCHANGED <<mac, cancelled, error, bag, target, host, link, clock>>

\* The timer of 10 s and the end of the context: when both have come, select
\* takes either.
Again ==
  /\ pc = "wait" /\ clock > since
  /\ pc' = "poll"
  /\ UNCHANGED <<mac, since, cancelled, error, bag, target, host, link, clock, unseen>>

\* Mutation: the timeout is that of the build's context, which has none.
Expired_NoTimeout == cancelled

Expired == cancelled \/ clock = Deadline

\* Mutation: select is left instead of the step, which then continues.
GiveUp_Breaks ==
  /\ pc = "wait" /\ Expired
  /\ pc' = "continue"
  /\ UNCHANGED <<mac, since, cancelled, error, bag, target, host, link, clock, unseen>>

GiveUp ==
  /\ pc = "wait" /\ Expired
  /\ pc' = "halt"
  /\ UNCHANGED <<mac, since, cancelled, error, bag, target, host, link, clock, unseen>>

Cancel ==
  /\ ~cancelled /\ cancelled' = TRUE
  /\ UNCHANGED <<pc, mac, since, error, bag, target, host, link, clock, unseen>>

\* commHost: what StepConnect, the next step, connects to.
CommHost ==
  IF host # NoAddr THEN host ELSE IF bag # NoAddr THEN bag ELSE Loopback

Connect ==
  /\ pc = "continue"
  /\ pc' = "connect" /\ target' = CommHost
  /\ UNCHANGED <<mac, since, cancelled, error, bag, host, link, clock, unseen>>

-----------------------------------------------------------------------------
(* The link and the clock.                                                  *)

\* The table becomes t.
TableIs(t) ==
  /\ table' = t
  /\ unseen' = IF Shown(table) /\ Shown(t) THEN unseen ELSE clock

Rows(a) == {[phys |-> m, flags |-> f] : m \in {n \in Macs : holds'[n] = a}, f \in BOOLEAN}

\* A machine takes an address nobody has; the host may hear of it at once,
\* later, or never.
TakesAddress ==
  /\ \E m \in Macs, a \in Addrs :
       /\ \A n \in Macs : holds[n] # a
       /\ holds' = [holds EXCEPT ![m] = a]
       /\ had' = IF m = Ours THEN had \cup {a} ELSE had
       /\ TableIs(table) \/ \E row \in Rows(a) : TableIs([table EXCEPT ![a] = row])
  /\ UNCHANGED <<step, host, clock>>

\* A machine reboots, or its lease ends.
LosesAddress ==
  /\ \E m \in Macs : holds[m] # NoAddr /\ holds' = [holds EXCEPT ![m] = NoAddr]
  /\ UNCHANGED <<step, host, table, had, clock, unseen>>

\* A row is learnt, is asked for, or ages.
RowChanges ==
  /\ UNCHANGED holds
  /\ \E a \in Addrs :
       \E row \in Rows(a) \cup [phys : {NoMac}, flags : BOOLEAN] :
         TableIs([table EXCEPT ![a] = row])
  /\ UNCHANGED <<step, host, had, clock>>

Tick ==
  /\ pc = "wait" /\ clock = since /\ clock < Deadline
  /\ clock' = clock + 1
  /\ unseen' = IF Shown(table) THEN unseen ELSE clock'
  /\ UNCHANGED <<step, host, link>>

Step == GetMac \/ PollFinds \/ PollFindsNone \/ Again \/ GiveUp \/ Connect

AddressNext ==
  Step \/ Cancel \/ TakesAddress \/ LosesAddress \/ RowChanges \/ Tick

\* The step goes on by itself, and so does time; nothing is asked of the guest.
AddressSpec ==
  /\ AddressInit /\ [][AddressNext]_addressVars
  /\ WF_addressVars(Step) /\ WF_addressVars(Tick)

-----------------------------------------------------------------------------
(* Properties.                                                              *)

\* What the step looks for is arp's form of the VNIC's MAC address, and of no
\* other on the link (step_wait_guest_address.go:64-66, 85-91).
MacIsRecognized ==
  mac # NoMac => \A m \in Macs : mac = ArpForm(m) <=> m = Ours

\* The communicator connects to the configured host or, without one, to an
\* address the guest has had: never to another machine's row, nor to the host
\* itself, the last resort of commHost (step_wait_guest_address.go:119-131,
\* ssh.go:9-22).
ConnectsToItsGuest ==
  pc = "connect" => IF host # NoAddr THEN target = host ELSE target \in had

\* A guest that the table shows for the whole of the last interval is found: the
\* step does not give up (step_wait_guest_address.go:44-57).
FoundInTime ==
  pc = "halt" /\ ~error /\ ~cancelled => unseen >= Deadline - 1

\* The step answers the runner once, the address is in the state bag when it
\* continues and only then, and an error when there was no MAC address; the end
\* of the hour halts without one (step_wait_guest_address.go:35-57).
Outcome ==
  INSTANCE StepOutcome WITH
    Produces <- {"guestAddress"}, MayHalt <- TRUE,
    answer   <- IF pc = "halt" THEN "halt"
                ELSE IF pc \in {"continue", "connect"} THEN "continue" ELSE "running",
    put      <- (IF error THEN {"error"} ELSE {})
                \cup (IF bag # NoAddr THEN {"guestAddress"} ELSE {})

ImplementsStep == Outcome!OutcomeSpec

\* The step ends (step_wait_guest_address.go:30, 51-56).
AddressStepEnds == <>(pc \in {"halt", "connect"})
=============================================================================
