--------------------------- MODULE MCBuildConfig ---------------------------
(* Instances of BuildConfig for TLC. *)
EXTENDS BuildConfig

Plain ==
  [force |-> FALSE, sdk |-> TRUE, disk_size |-> "given", memory |-> 0,
   output_directory |-> "", comm |-> [host_port_min |-> 0, host_port_max |-> 0],
   cpu |-> [cpus |-> 0, sockets |-> 0, cores |-> 0, threads |-> 0],
   vnc_port_min |-> 0, vnc_port_max |-> 0,
   host_nic |-> "given", vnic_link |-> "", vnic_name |-> ""]

\* Both sides of every boundary of the port checks, and of the defaults that
\* an absent other end is compared with.
PortTemplates ==
  {[Plain EXCEPT !.vnc_port_min = a, !.vnc_port_max = b,
                 !.comm.host_port_min = x, !.comm.host_port_max = y] :
     a \in {-1, 0, 5899, 5900, 6000, 6001, 65535, 65536},
     b \in {-1, 0, 5899, 5900, 6000, 65535, 65536},
     x \in {-1, 0, 1, 4444, 4445}, y \in {-1, 0, 1, 2221, 2222}}

OptionTemplates ==
  {[Plain EXCEPT !.force = f, !.sdk = s, !.disk_size = d, !.memory = m,
                 !.output_directory = o, !.vnic_link = l] :
     f \in BOOLEAN, s \in BOOLEAN, d \in {"", "given"}, m \in {0, 9, 10, 1024},
     o \in {"", "given"}, l \in {"", "default"}}

CPUTemplates ==
  {[Plain EXCEPT !.cpu.cpus = n, !.cpu.sockets = s, !.cpu.cores = c, !.cpu.threads = t] :
     n \in -1..9, s \in -1..3, c \in -1..2, t \in -1..2}

\* One port of each kind, and the last one.
OnePortTemplates ==
  {[Plain EXCEPT !.vnc_port_min = 65535, !.vnc_port_max = 65535,
                 !.comm.host_port_min = 4444, !.comm.host_port_max = 4444]}

MCTemplates == PortTemplates \cup OptionTemplates \cup CPUTemplates
=============================================================================
