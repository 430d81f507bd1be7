---------------------------- MODULE BuildConfig ----------------------------
(***************************************************************************)
(* The configuration of a build: what Config.Prepare (config.go) and       *)
(* CommConfig.Prepare (comm_config.go) make of the template, and the CPU   *)
(* argument that BhyveDriver.Start derives from it (CPUConfig.cmdline).    *)
(*                                                                         *)
(* Only the fields that are defaulted, checked or computed with are here;  *)
(* an absent string is "" and an absent number 0.  The parts of the SDK    *)
(* (ISO, HTTP, CD, VNC, shutdown and communicator options) check their own *)
(* fields: sdk is whether they accept them.                                *)
(***************************************************************************)
EXTENDS Integers

CONSTANT Templates \* the decoded templates to consider

Names == {"", "given", "default"}

\* A count may be negative, since nothing checks it.  The product of three
\* counts within the limit (2^21 - 1) is one that Go's 64-bit int can hold.
CountLimit == 2097151
Counts == {n \in Int : -CountLimit <= n /\ n <= CountLimit}

\* CPUConfig and CommConfig.
CPUType  == [cpus : Counts, sockets : Counts, cores : Counts, threads : Counts]
CommType == [host_port_min : Int, host_port_max : Int]

TemplateType ==
  [force : BOOLEAN, sdk : BOOLEAN, disk_size : Names, memory : Int,
   output_directory : Names, comm : CommType, cpu : CPUType,
   vnc_port_min : Int, vnc_port_max : Int,
   host_nic : Names, vnic_link : Names, vnic_name : Names]

ASSUME TemplatesAssumption == Templates \subseteq TemplateType

VARIABLES
  conf,   \* Builder.config
  stage,  \* decoded, accepted or refused by Prepare, launched
  exists, \* does the output directory exist?
  vcpus   \* the count in bhyve's -c argument, 0 until launched

configVars == <<conf, stage, exists, vcpus>>

ConfigTypeOK ==
  /\ conf \in TemplateType
  /\ stage \in {"decoded", "accepted", "refused", "launched"}
  /\ exists \in BOOLEAN
  /\ vcpus \in Int /\ (vcpus # 0 <=> stage = "launched")

ConfigInit ==
  /\ conf \in Templates
  /\ stage = "decoded"
  /\ exists \in BOOLEAN
  /\ vcpus = 0

-----------------------------------------------------------------------------
(* Prepare.                                                                 *)

Default(value, absent, default) == IF value = absent THEN default ELSE value

VNCPortMin == 5900
VNCPortMax == 6000

MemorySize(n) == IF n < 10 THEN 512 ELSE n

DefaultedComm(m) ==
  [host_port_min |-> Default(m.host_port_min, 0, 2222),
   host_port_max |-> Default(m.host_port_max, 0, 4444)]

\* Every default is set before the first check that looks at its field.
Defaulted(c) ==
  [force |-> c.force, sdk |-> c.sdk, disk_size |-> c.disk_size, cpu |-> c.cpu,
   comm             |-> DefaultedComm(c.comm),
   memory           |-> MemorySize(c.memory),
   output_directory |-> Default(c.output_directory, "", "default"),
   vnc_port_min     |-> Default(c.vnc_port_min, 0, VNCPortMin),
   vnc_port_max     |-> Default(c.vnc_port_max, 0, VNCPortMax),
   host_nic         |-> c.host_nic,
   vnic_link        |-> Default(c.vnic_link, "", c.host_nic),
   vnic_name        |-> Default(c.vnic_name, "", "default")]

HostPortsRefused(m) == m.host_port_min > m.host_port_max \/ m.host_port_min < 0

\* Mutation: the lower port may be any.
VNCPortsRefused_NoFloor(c) ==
  \/ c.vnc_port_min > 65535 \/ c.vnc_port_max > 65535
  \/ c.vnc_port_min > c.vnc_port_max

VNCPortsRefused(c) ==
  \/ c.vnc_port_min < 5900
  \/ c.vnc_port_min > 65535 \/ c.vnc_port_max > 65535
  \/ c.vnc_port_min > c.vnc_port_max

Refused(c) ==
  \/ ~c.sdk
  \/ c.disk_size = ""
  \/ ~c.force /\ exists
  \/ HostPortsRefused(c.comm)
  \/ VNCPortsRefused(c)

\* Mutation: the checks are made on the template.
Prepare_ChecksFirst ==
  /\ stage = "decoded"
  /\ conf' = Defaulted(conf)
  /\ stage' = IF Refused(conf) THEN "refused" ELSE "accepted"
  /\ UNCHANGED <<exists, vcpus>>

Prepare ==
  /\ stage = "decoded"
  /\ conf' = Defaulted(conf)
  /\ stage' = IF Refused(conf') THEN "refused" ELSE "accepted"
  /\ UNCHANGED <<exists, vcpus>>

-----------------------------------------------------------------------------
(* The CPU argument.                                                        *)

\* getMaxCPUs multiplies what is positive, and takes the first count that is
\* not 0 as it is.
MaxCPUs(sockets, cores, threads) ==
  LET packages == IF cores > 0 /\ sockets > 0 THEN sockets * cores ELSE sockets
      inner    == IF packages = 0 THEN cores ELSE packages
      total    == IF threads > 0 /\ inner # 0 THEN inner * threads ELSE inner
  IN IF total = 0 THEN threads ELSE total

\* Mutation: a count above the topology is passed on.
VCPUs_Unclamped(c) ==
  LET most == MaxCPUs(c.sockets, c.cores, c.threads)
  IN IF most = 0 /\ c.cpus = 0 THEN 1 ELSE Default(c.cpus, 0, most)

\* Mutation: no count is given, and none is taken for it.
VCPUs_NoDefault(c) ==
  LET most  == MaxCPUs(c.sockets, c.cores, c.threads)
      count == Default(c.cpus, 0, most)
  IN IF count > most /\ most # 0 THEN most ELSE count

\* cmdline: the topology's product by default, and never more than it.
VCPUs(c) ==
  LET most  == MaxCPUs(c.sockets, c.cores, c.threads)
      count == Default(c.cpus, 0, most)
  IN IF most = 0 /\ c.cpus = 0 THEN 1
     ELSE IF count > most /\ most # 0 THEN most
     ELSE count

Launch ==
  /\ stage = "accepted"
  /\ vcpus' = VCPUs(conf.cpu)
  /\ stage' = "launched"
  /\ UNCHANGED <<conf, exists>>

ConfigNext == Prepare \/ Launch

ConfigSpec == ConfigInit /\ [][ConfigNext]_configVars

-----------------------------------------------------------------------------
(* Properties.                                                              *)

Accepted == stage \in {"accepted", "launched"}

\* The VNC ports of an accepted build are a range that is not empty, from 5900
\* to 65535, both ends allowed, whatever the template gave or left out; the
\* lower host port is positive and not above the upper one, which has no bound
\* (config.go:183-207, comm_config.go:18-35, step_configure_vnc.go:60-65).
AcceptedPortRanges ==
  Accepted =>
    /\ 5900 <= conf.vnc_port_min
    /\ conf.vnc_port_min <= conf.vnc_port_max
    /\ conf.vnc_port_max <= 65535
    /\ 0 < conf.comm.host_port_min
    /\ conf.comm.host_port_min <= conf.comm.host_port_max

\* What the messages of the refusals say is required: "both be below 65535"
\* (config.go:201), "vnc_port_min must be less than vnc_port_max" (line 206),
\* "host_port_min must be less than host_port_max" (comm_config.go:30).  The
\* comparisons are with > and so accept 65535 and equal ends.
PortsAsMessagesSay ==
  Accepted =>
    /\ conf.vnc_port_min < 65535 /\ conf.vnc_port_max < 65535
    /\ conf.vnc_port_min < conf.vnc_port_max
    /\ conf.comm.host_port_min < conf.comm.host_port_max

\* An accepted configuration is settled: preparing it again would change
\* nothing in it and would find nothing wrong with it, so no check looked at
\* a field before its default was set (config.go:147-215, comm_config.go:18-35).
AcceptedIsSettled == Accepted => Defaulted(conf) = conf /\ ~Refused(conf)

\* Reference: a count that is absent stands for one.
Given(n) == IF n > 0 THEN n ELSE 1

Product(c) == Given(c.sockets) * Given(c.cores) * Given(c.threads)

\* The first count of the topology that is given, or 0.
Leading(c) ==
  IF c.sockets # 0 THEN c.sockets ELSE IF c.cores # 0 THEN c.cores ELSE c.threads

HasTopology(c) == Leading(c) # 0

\* If neither the CPU count nor the first count of the topology is negative,
\* bhyve gets at least one virtual CPU, exactly as many as asked for if the
\* topology has room for them, and never more than the topology has.  A negative
\* count after the first is passed over; one of those two is not, and bhyve is
\* given a negative number of CPUs (config.go:19-85).
CPUsFitTopology ==
  stage = "launched" /\ conf.cpu.cpus >= 0 /\ Leading(conf.cpu) >= 0 =>
    /\ vcpus >= 1
    /\ HasTopology(conf.cpu) => vcpus <= Product(conf.cpu)
    /\ conf.cpu.cpus = 0 /\ HasTopology(conf.cpu) => vcpus = Product(conf.cpu)
    /\ conf.cpu.cpus # 0 /\ (HasTopology(conf.cpu) => conf.cpu.cpus <= Product(conf.cpu))
         => vcpus = conf.cpu.cpus
=============================================================================
