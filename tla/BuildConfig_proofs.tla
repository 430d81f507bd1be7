------------------------- MODULE BuildConfig_proofs -------------------------
(***************************************************************************)
(* Proofs about the configuration, for every set of templates.             *)
(***************************************************************************)
EXTENDS BuildConfig, TLAPS

\* A name is defaulted to a name, and once.
LEMMA DefaultFacts ==
  \A v, d \in Names : /\ Default(v, "", d) \in Names
                       /\ Default(Default(v, "", d), "", d) = Default(v, "", d)
BY DEF Default, Names

\* The same of the numbers: the VNC ports and the memory.
LEMMA NumberFacts ==
  \A n \in Int :
    /\ Default(n, 0, VNCPortMin) \in Int /\ Default(n, 0, VNCPortMax) \in Int
    /\ Default(Default(n, 0, VNCPortMin), 0, VNCPortMin) = Default(n, 0, VNCPortMin)
    /\ Default(Default(n, 0, VNCPortMax), 0, VNCPortMax) = Default(n, 0, VNCPortMax)
    /\ MemorySize(n) \in Int /\ MemorySize(MemorySize(n)) = MemorySize(n)
BY DEF Default, MemorySize, VNCPortMin, VNCPortMax

\* CommConfig.Prepare keeps the type, and sets its defaults once.
LEMMA DefaultedCommFacts ==
  ASSUME NEW m \in CommType
  PROVE  /\ DefaultedComm(m) \in CommType
         /\ DefaultedComm(DefaultedComm(m)) = DefaultedComm(m)
BY DEF DefaultedComm, Default, CommType

\* A configuration is known by its fields.
LEMMA ConfigOfFields ==
  ASSUME NEW f \in BOOLEAN, NEW s \in BOOLEAN, NEW z \in Names, NEW p \in CPUType,
         NEW m \in CommType, NEW n \in Int, NEW o \in Names, NEW a \in Int,
         NEW b \in Int, NEW h \in Names, NEW l \in Names, NEW v \in Names
  PROVE  [force |-> f, sdk |-> s, disk_size |-> z, cpu |-> p, comm |-> m, memory |-> n,
          output_directory |-> o, vnc_port_min |-> a, vnc_port_max |-> b,
          host_nic |-> h, vnic_link |-> l, vnic_name |-> v] \in TemplateType
BY DEF TemplateType

\* The fields of a configuration, and what Prepare makes of those that have a
\* default.
LEMMA DefaultedFields ==
  ASSUME NEW c \in TemplateType
  PROVE  /\ c.force \in BOOLEAN /\ c.sdk \in BOOLEAN /\ c.cpu \in CPUType
         /\ c.disk_size \in Names /\ c.host_nic \in Names
         /\ DefaultedComm(c.comm) \in CommType
         /\ Default(c.output_directory, "", "default") \in Names
         /\ Default(c.vnic_link, "", c.host_nic) \in Names
         /\ Default(c.vnic_name, "", "default") \in Names
         /\ Default(c.vnc_port_min, 0, VNCPortMin) \in Int
         /\ Default(c.vnc_port_max, 0, VNCPortMax) \in Int
         /\ MemorySize(c.memory) \in Int
<1>1. /\ c.force \in BOOLEAN /\ c.sdk \in BOOLEAN /\ c.cpu \in CPUType
      /\ c.disk_size \in Names /\ c.host_nic \in Names
      /\ c.output_directory \in Names /\ c.vnic_link \in Names /\ c.vnic_name \in Names
      /\ c.memory \in Int /\ c.vnc_port_min \in Int /\ c.vnc_port_max \in Int
      /\ c.comm \in CommType
  BY DEF TemplateType
<1>2. "default" \in Names
  BY DEF Names
<1>3. MemorySize(c.memory) \in Int
  BY <1>1, NumberFacts
<1>4. Default(c.vnc_port_min, 0, VNCPortMin) \in Int
  BY <1>1, NumberFacts, Zenon
<1>5. Default(c.vnc_port_max, 0, VNCPortMax) \in Int
  BY <1>1, NumberFacts, Zenon
<1>6. DefaultedComm(c.comm) \in CommType
  BY <1>1, DefaultedCommFacts
<1>7. /\ Default(c.output_directory, "", "default") \in Names
      /\ Default(c.vnic_link, "", c.host_nic) \in Names
      /\ Default(c.vnic_name, "", "default") \in Names
  BY <1>1, <1>2, DefaultFacts
<1> QED  BY <1>1, <1>3, <1>4, <1>5, <1>6, <1>7, Zenon

\* What Prepare makes of a configuration is one.
LEMMA DefaultedType ==
  ASSUME NEW c \in TemplateType
  PROVE  Defaulted(c) \in TemplateType
BY DefaultedFields, ConfigOfFields, Zenon DEF Defaulted

\* Defaults are not defaulted again.
LEMMA DefaultedTwice ==
  ASSUME NEW c \in TemplateType
  PROVE  Defaulted(Defaulted(c)) = Defaulted(c)
<1> DEFINE d == Defaulted(c)
<1>1. /\ c.comm \in CommType /\ c.memory \in Int /\ c.host_nic \in Names
      /\ c.output_directory \in Names /\ c.vnic_link \in Names /\ c.vnic_name \in Names
      /\ c.vnc_port_min \in Int /\ c.vnc_port_max \in Int
  BY DEF TemplateType
<1>2. DefaultedComm(d.comm) = d.comm
  BY <1>1, DefaultedCommFacts DEF Defaulted
<1>3. MemorySize(d.memory) = d.memory
  BY <1>1, NumberFacts DEF Defaulted
<1>4. "default" \in Names
  BY DEF Names
<1>5. Default(d.output_directory, "", "default") = d.output_directory
  BY <1>1, <1>4, DefaultFacts DEF Defaulted
<1>6. Default(d.vnic_link, "", d.host_nic) = d.vnic_link
  BY <1>1, DefaultFacts DEF Defaulted
<1>7. Default(d.vnic_name, "", "default") = d.vnic_name
  BY <1>1, <1>4, DefaultFacts DEF Defaulted
<1>8. Default(d.vnc_port_min, 0, VNCPortMin) = d.vnc_port_min
  <2>1. d.vnc_port_min = Default(c.vnc_port_min, 0, VNCPortMin)
    BY DEF Defaulted
  <2> HIDE DEF d
  <2> QED  BY <1>1, <2>1, NumberFacts, Zenon
<1>9. Default(d.vnc_port_max, 0, VNCPortMax) = d.vnc_port_max
  <2>1. d.vnc_port_max = Default(c.vnc_port_max, 0, VNCPortMax)
    BY DEF Defaulted
  <2> HIDE DEF d
  <2> QED  BY <1>1, <2>1, NumberFacts, Zenon
<1>10. Defaulted(d) =
        [force |-> d.force, sdk |-> d.sdk, disk_size |-> d.disk_size, cpu |-> d.cpu,
         comm |-> d.comm, memory |-> d.memory,
         output_directory |-> d.output_directory,
         vnc_port_min |-> d.vnc_port_min, vnc_port_max |-> d.vnc_port_max,
         host_nic |-> d.host_nic, vnic_link |-> d.vnic_link, vnic_name |-> d.vnic_name]
  <2> HIDE DEF d
  <2> QED  BY <1>2, <1>3, <1>5, <1>6, <1>7, <1>8, <1>9, Zenon DEF Defaulted
<1>11. d = [force |-> d.force, sdk |-> d.sdk, disk_size |-> d.disk_size, cpu |-> d.cpu,
         comm |-> d.comm, memory |-> d.memory,
         output_directory |-> d.output_directory,
         vnc_port_min |-> d.vnc_port_min, vnc_port_max |-> d.vnc_port_max,
         host_nic |-> d.host_nic, vnic_link |-> d.vnic_link, vnic_name |-> d.vnic_name]
  BY DEF Defaulted
<1> QED  BY <1>10, <1>11, Zenon

\* The product of two positive counts is positive.
LEMMA ProductPositive ==
  ASSUME NEW m \in Nat \ {0}, NEW n \in Nat \ {0}
  PROVE  m * n \in Nat \ {0}
BY SMT

\* A product of whole numbers is one.
LEMMA ProductWhole ==
  ASSUME NEW m \in Int, NEW n \in Int
  PROVE  m * n \in Int
OBVIOUS

\* Counts are whole numbers.
LEMMA CountsAreWhole ==
  ASSUME NEW c \in CPUType
  PROVE  c.cpus \in Int /\ c.sockets \in Int /\ c.cores \in Int /\ c.threads \in Int
<1>1. Counts \subseteq Int  BY DEF Counts
<1> QED  BY <1>1 DEF CPUType

\* getMaxCPUs gives a whole number, whatever the counts are.
LEMMA MaxCPUsWhole ==
  ASSUME NEW s \in Int, NEW k \in Int, NEW t \in Int
  PROVE  MaxCPUs(s, k, t) \in Int
<1> DEFINE packages == IF k > 0 /\ s > 0 THEN s * k ELSE s
           inner    == IF packages = 0 THEN k ELSE packages
           total    == IF t > 0 /\ inner # 0 THEN inner * t ELSE inner
<1>1. packages \in Int  BY ProductWhole
<1>2. inner \in Int  BY <1>1
<1>3. total \in Int
  <2> HIDE DEF inner
  <2> QED  BY <1>2, ProductWhole
<1>4. MaxCPUs(s, k, t) = IF total = 0 THEN t ELSE total  BY DEF MaxCPUs
<1> HIDE DEF total
<1> QED  BY <1>3, <1>4

\* getMaxCPUs computes the product of the counts that are given, if the first
\* of them is positive (config.go:63-85).
LEMMA MaxCPUsIsProduct ==
  ASSUME NEW c \in CPUType, Leading(c) > 0
  PROVE  /\ MaxCPUs(c.sockets, c.cores, c.threads) = Product(c)
         /\ Product(c) \in Nat \ {0}
<1> DEFINE s == c.sockets
           k == c.cores
           t == c.threads
<1>1. s \in Int /\ k \in Int /\ t \in Int
  BY CountsAreWhole
<1>2. \/ s > 0
      \/ s = 0 /\ k > 0
      \/ s = 0 /\ k = 0 /\ t > 0
  BY <1>1 DEF Leading
<1>3. s > 0 /\ k > 0 => s * k \in Nat \ {0}
  BY <1>1, ProductPositive
<1> DEFINE p == IF s > 0 THEN s ELSE 1
           q == IF k > 0 THEN k ELSE 1
           r == IF t > 0 THEN t ELSE 1
<1>4. Product(c) = p * q * r
  BY DEF Product, Given
<1>5. p \in Nat \ {0} /\ q \in Nat \ {0} /\ r \in Nat \ {0}
  BY <1>1
<1>6. p * q \in Nat \ {0}
  BY <1>5, ProductPositive
<1>7. p * q * r \in Nat \ {0}
  BY <1>5, <1>6, ProductPositive
<1>8. MaxCPUs(s, k, t) = p * q * r
  <2> HIDE DEF s, k, t
  <2>1. CASE s = 0 /\ k = 0
    BY <2>1, <1>1, <1>2 DEF MaxCPUs
  <2>2. CASE s = 0 /\ k > 0
    BY <2>2, <1>1, <1>7 DEF MaxCPUs
  <2>3. CASE s > 0 /\ ~(k > 0)
    BY <2>3, <1>1, <1>7 DEF MaxCPUs
  <2>4. CASE s > 0 /\ k > 0
    BY <2>4, <1>1, <1>3, <1>7 DEF MaxCPUs
  <2> QED  BY <1>1, <1>2, <2>1, <2>2, <2>3, <2>4
<1> QED  BY <1>4, <1>7, <1>8

\* Without a topology there is no maximum.
LEMMA MaxCPUsOfNone ==
  ASSUME NEW c \in CPUType, Leading(c) = 0
  PROVE  MaxCPUs(c.sockets, c.cores, c.threads) = 0
BY CountsAreWhole DEF Leading, MaxCPUs

\* cmdline's count is never 0, whatever the counts are (config.go:26-60).
LEMMA VCPUsNotZero ==
  ASSUME NEW c \in CPUType
  PROVE  VCPUs(c) \in Int \ {0}
<1> DEFINE most == MaxCPUs(c.sockets, c.cores, c.threads)
<1>1. c.cpus \in Int /\ most \in Int
  BY CountsAreWhole, MaxCPUsWhole
<1> HIDE DEF most
<1>2. VCPUs(c) = IF most = 0 /\ c.cpus = 0 THEN 1
                 ELSE IF Default(c.cpus, 0, most) > most /\ most # 0 THEN most
                 ELSE Default(c.cpus, 0, most)
  BY DEF VCPUs, most
<1> QED  BY <1>1, <1>2 DEF Default

\* cmdline's count is positive, within the topology and what was asked for, if
\* no negative count gets to it (config.go:26-60).
LEMMA VCPUsFit ==
  ASSUME NEW c \in CPUType, c.cpus >= 0, Leading(c) >= 0
  PROVE  /\ VCPUs(c) >= 1
         /\ HasTopology(c) => VCPUs(c) <= Product(c)
         /\ c.cpus = 0 /\ HasTopology(c) => VCPUs(c) = Product(c)
         /\ c.cpus # 0 /\ (HasTopology(c) => c.cpus <= Product(c))
              => VCPUs(c) = c.cpus
<1>1. c.cpus \in Int /\ Leading(c) \in Int
  BY CountsAreWhole DEF Leading
<1>2. CASE Leading(c) > 0
  BY <1>1, <1>2, MaxCPUsIsProduct DEF VCPUs, Default, HasTopology
<1>3. CASE Leading(c) = 0
  BY <1>1, <1>3, MaxCPUsOfNone DEF VCPUs, Default, HasTopology
<1> QED  BY <1>1, <1>2, <1>3

-----------------------------------------------------------------------------
(* The inductive invariant.                                                 *)

\* What is true of a configuration that Prepare has accepted, and of the
\* launch that follows.
ConfigInv ==
  /\ ConfigTypeOK
  /\ AcceptedIsSettled
  /\ stage = "launched" => vcpus = VCPUs(conf.cpu)

\* Every step keeps the invariant.
LEMMA ConfigStep == ConfigInv /\ [ConfigNext]_configVars => ConfigInv'
<1> SUFFICES ASSUME ConfigInv, [ConfigNext]_configVars
             PROVE  ConfigInv'
  OBVIOUS
<1>1. CASE Prepare
  <2>1. conf \in TemplateType /\ conf' = Defaulted(conf)
    BY <1>1 DEF ConfigInv, ConfigTypeOK, Prepare
  <2>2. ConfigTypeOK'
    BY <1>1, <2>1, DefaultedType DEF ConfigInv, ConfigTypeOK, Prepare
  <2>3. Defaulted(conf') = conf'
    BY <2>1, DefaultedTwice
  <2>4. stage' = "accepted" => ~Refused(conf)'
    <3>1. Refused(conf)' <=> Refused(conf')
      BY <1>1 DEF Prepare, Refused
    <3> QED  BY <1>1, <3>1 DEF Prepare
  <2>5. stage' \in {"accepted", "refused"}
    BY <1>1 DEF Prepare
  <2> QED
    BY <2>2, <2>3, <2>4, <2>5 DEF ConfigInv, AcceptedIsSettled, Accepted
<1>2. CASE Launch
  <2>1. ConfigTypeOK'
    <3>1. conf.cpu \in CPUType
      BY DEF ConfigInv, ConfigTypeOK, TemplateType
    <3>2. VCPUs(conf.cpu) \in Int \ {0}
      BY <3>1, VCPUsNotZero
    <3> QED  BY <1>2, <3>2 DEF ConfigInv, ConfigTypeOK, Launch
  <2>2. AcceptedIsSettled'
    BY <1>2 DEF ConfigInv, AcceptedIsSettled, Accepted, Launch, Refused
  <2>3. vcpus' = VCPUs(conf'.cpu)
    BY <1>2 DEF Launch
  <2> QED  BY <2>1, <2>2, <2>3 DEF ConfigInv
<1>3. CASE UNCHANGED configVars
  BY <1>3 DEF ConfigInv, ConfigTypeOK, AcceptedIsSettled, Accepted, Refused, configVars
<1> QED  BY <1>1, <1>2, <1>3 DEF ConfigNext

\* The invariant holds of every configuration the program gets to
\* (config.go:117-222).
THEOREM ConfigInvariant == ConfigSpec => []ConfigInv
<1>1. ConfigInit => ConfigInv
  BY TemplatesAssumption
  DEF ConfigInit, ConfigInv, ConfigTypeOK, AcceptedIsSettled, Accepted
<1> QED  BY <1>1, ConfigStep, PTL DEF ConfigSpec

\* Preparing a template gives a configuration of its type, and launching it a
\* count of CPUs that is not 0, for all counts (config.go:26-85, 147-215).
THEOREM ConfigTypeCorrect == ConfigSpec => []ConfigTypeOK
<1>1. ConfigInv => ConfigTypeOK  BY DEF ConfigInv
<1> QED  BY <1>1, ConfigInvariant, PTL

\* No check looked at a field before its default was set (config.go:147-215).
THEOREM SettledWhenAccepted == ConfigSpec => []AcceptedIsSettled
<1>1. ConfigInv => AcceptedIsSettled  BY DEF ConfigInv
<1> QED  BY <1>1, ConfigInvariant, PTL

\* An accepted build has VNC ports to search, from 5900 to 65535, and host
\* ports in order from a positive one (config.go:183-207, comm_config.go:18-35).
THEOREM PortRanges == ConfigSpec => []AcceptedPortRanges
<1>1. ConfigInv => AcceptedPortRanges
  <2> SUFFICES ASSUME ConfigInv, Accepted
               PROVE  AcceptedPortRanges
    BY DEF AcceptedPortRanges
  <2>1. conf \in TemplateType /\ Defaulted(conf) = conf /\ ~Refused(conf)
    BY DEF ConfigInv, ConfigTypeOK, AcceptedIsSettled
  <2>2. /\ conf.comm.host_port_min \in Int /\ conf.comm.host_port_max \in Int
        /\ conf.vnc_port_min \in Int /\ conf.vnc_port_max \in Int
    BY <2>1 DEF TemplateType, CommType
  <2>3. conf.comm.host_port_min # 0
    <3>1. conf.comm = DefaultedComm(conf.comm)
      <4>1. Defaulted(conf).comm = DefaultedComm(conf.comm)
        BY DEF Defaulted
      <4> QED  BY <2>1, <4>1, Zenon
    <3>2. conf.comm.host_port_min = Default(conf.comm.host_port_min, 0, 2222)
      BY <3>1 DEF DefaultedComm
    <3> QED  BY <3>2 DEF Default
  <2>4. ~HostPortsRefused(conf.comm) /\ ~VNCPortsRefused(conf)
    BY <2>1 DEF Refused
  <2> QED
    BY <2>2, <2>3, <2>4 DEF AcceptedPortRanges, HostPortsRefused, VNCPortsRefused
<1> QED  BY <1>1, ConfigInvariant, PTL

\* The CPU argument agrees with the counts asked for, unless the CPU count or
\* the first count of the topology is negative (config.go:19-85).
THEOREM CPUArgument == ConfigSpec => []CPUsFitTopology
<1>1. ConfigInv => CPUsFitTopology
  <2> SUFFICES ASSUME ConfigInv, stage = "launched"
               PROVE  CPUsFitTopology
    BY DEF CPUsFitTopology
  <2>1. conf.cpu \in CPUType
    BY DEF ConfigInv, ConfigTypeOK, TemplateType
  <2>2. vcpus = VCPUs(conf.cpu)
    BY DEF ConfigInv
  <2> QED  BY <2>1, <2>2, VCPUsFit DEF CPUsFitTopology
<1> QED  BY <1>1, ConfigInvariant, PTL

=============================================================================
