---------------------------- MODULE BootCommand -----------------------------
(***************************************************************************)
(* stepTypeBootCommand: the boot commands are typed, key by key, over one  *)
(* VNC connection to the bhyve that runs when the step dials.              *)
(*                                                                         *)
(* A guest that reboots ends its bhyve, and the connection with it, while  *)
(* the driver starts another: the keys under way are lost, and a key that  *)
(* is sent later fails, or is lost before the sender knows.                *)
(* Commands are rendered and parsed when their turn has come, by the SDK,  *)
(* which here only fails or does not.                                      *)
(***************************************************************************)
EXTENDS Integers, FiniteSets, SequencesExt

CONSTANTS
  Keys,       \* of each command, the keys it is parsed into
  Broken,     \* the commands that cannot be rendered or parsed
  Templates,  \* the configurations to consider, see TemplateType
  MaxBoots    \* bound on the boots of the VM

NoCommand == "none"

Commands == DOMAIN Keys

TemplateType ==
  [command : Commands \cup {NoCommand}, \* boot_command, joined
   steps   : Seq(Seq(Commands)),        \* boot_steps, less their descriptions
   wait    : BOOLEAN,                   \* is boot_wait, by default 10 s, positive?
   disable : BOOLEAN,                   \* disable_vnc, refused with a boot_command
   debug   : BOOLEAN]                   \* packer build -debug

ASSUME BootAssumption ==
  /\ NoCommand \notin Commands
  /\ \A c \in Commands : Keys[c] \in Seq(Range(Keys[c]))
  /\ Broken \subseteq Commands
  /\ Templates \subseteq TemplateType
  /\ MaxBoots \in Nat \ {0}

VARIABLES
  config,    \* the template
  pc,        \* of the step: boot, dial, handshake, command, keys, pause; or
             \* its answer: continue, halt
  cur,       \* number of the boot step at hand
  key,       \* number of its next key
  sent,      \* the keys that were sent without an error
  conn,      \* the boot it is connected to; 0: none
  wire,      \* the keys under way
  error,     \* is there an error in the bag?
  cancelled, \* is the build cancelled?
  boots,     \* how often the VM was started
  up,        \* does it run?
  received   \* what the VM has received: keys, and the boots they came to

typing   == <<config, pc, cur, key, sent, error>>
machine  == <<boots, up>>
bootVars == <<typing, conn, wire, cancelled, machine, received>>

\* Mutation: the boot steps are typed after the boot command.
BootSteps_Both ==
  (IF config.command # NoCommand THEN <<<<config.command>>>> ELSE <<>>) \o config.steps

\* A boot command takes the place of all boot steps.
BootSteps ==
  IF config.command # NoCommand THEN <<<<config.command>>>> ELSE config.steps

AllKeys == UNION {Range(Keys[c]) : c \in Commands}

\* A key that the VM has received, and the boot it came to.
Receipt == [boot : 1..MaxBoots, key : AllKeys]

Typed == Keys[BootSteps[cur][1]]

BootTypeOK ==
  /\ config \in Templates
  /\ pc \in {"boot", "dial", "handshake", "command", "keys", "pause", "continue", "halt"}
  /\ cur \in 1..(Len(BootSteps) + 1)
  /\ pc = "keys" => key \in 1..(Len(Typed) + 1)
  /\ sent \in Seq(AllKeys) /\ wire \in Seq(AllKeys)
  /\ boots \in 1..MaxBoots /\ conn \in 0..boots
  /\ error \in BOOLEAN /\ (error => pc = "halt") /\ cancelled \in BOOLEAN /\ up \in BOOLEAN
  /\ received \in Seq(Receipt)

\* stepBhyve has started the VM.
BootInit ==
  /\ config \in Templates
  /\ pc = "boot" /\ cur = 1 /\ key = 1 /\ sent = <<>>
  /\ conn = 0 /\ wire = <<>> /\ error = FALSE /\ cancelled = FALSE
  /\ boots = 1 /\ up \in BOOLEAN /\ received = <<>>

-----------------------------------------------------------------------------
(* The step.                                                                *)

Fail ==
  /\ pc' = "halt" /\ error' = TRUE
  /\ UNCHANGED <<cur, key, sent, conn, wire>>

Goto(place) == pc' = place /\ UNCHANGED <<cur, key, sent, conn, wire, error>>

\* Nothing is waited for, or connected to, with VNC disabled.
BootWait ==
  /\ pc = "boot"
  /\ \/ config.disable /\ Goto("continue")
     \/ ~config.disable /\ Goto("dial")
     \/ ~config.disable /\ config.wait /\ cancelled /\ Goto("halt")

Dial ==
  /\ pc = "dial"
  /\ \/ up /\ pc' = "handshake" /\ conn' = boots /\ UNCHANGED <<cur, key, sent, wire, error>>
     \/ Fail

Connected == conn = boots /\ up

Handshake ==
  /\ pc = "handshake"
  /\ (Connected /\ Goto("command")) \/ Fail

\* Mutation: an empty boot step is taken for the end.
Command_EmptyEnds ==
  /\ pc = "command"
  /\ IF cur > Len(BootSteps) \/ BootSteps[cur] = <<>>
     THEN Goto("continue")
     ELSE IF BootSteps[cur][1] \in Broken
     THEN Fail
     ELSE pc' = "keys" /\ key' = 1 /\ UNCHANGED <<cur, sent, conn, wire, error>>

\* The head of the loop: the next boot step, if it is not empty, is prepared.
Command ==
  /\ pc = "command"
  /\ \/ cur > Len(BootSteps) /\ Goto("continue")
     \/ /\ cur <= Len(BootSteps)
        /\ \/ /\ BootSteps[cur] = <<>>
              /\ cur' = cur + 1 /\ UNCHANGED <<pc, key, sent, conn, wire, error>>
           \/ /\ BootSteps[cur] # <<>> /\ BootSteps[cur][1] \in Broken
              /\ Fail
           \/ /\ BootSteps[cur] # <<>> /\ BootSteps[cur][1] \notin Broken
              /\ pc' = "keys" /\ key' = 1
              /\ UNCHANGED <<cur, sent, conn, wire, error>>

\* The key is sent, or is lost because the connection has ended.
Sends(k) ==
  /\ sent' = Append(sent, k)
  /\ wire' = IF Connected THEN Append(wire, k) ELSE wire

\* Mutation: the step goes on after the error.
Unsent_Ignored == error' = TRUE /\ UNCHANGED <<pc, cur, key, sent, conn, wire>>

\* Mutation: the key whose sending has failed is sent over a new connection.
Unsent_Redials == conn' = boots /\ UNCHANGED <<pc, cur, key, sent, wire, error>>

\* Mutation: the error is not put in the state bag.
Unsent_Silent == Goto("halt")

Unsent == Fail

\* expressionSequence.Do looks at the context before each of its expressions.
SendKey ==
  /\ pc = "keys" /\ key <= Len(Typed)
  /\ \/ cancelled /\ Fail
     \/ /\ ~cancelled
        /\ Sends(Typed[key]) /\ key' = key + 1
        /\ UNCHANGED <<pc, cur, conn, error>>
     \/ ~cancelled /\ ~Connected /\ Unsent

\* The command has been typed; with -debug the user is asked to go on.
CommandDone ==
  /\ pc = "keys" /\ key > Len(Typed)
  /\ pc' = IF config.debug THEN "pause" ELSE "command"
  /\ cur' = cur + 1
  /\ UNCHANGED <<key, sent, conn, wire, error>>

\* Mutation: a cancelled build waits for the user all the same.
Unpaused_UserOnly == FALSE

\* The pause of a cancelled build ends.
Unpaused == cancelled

Resume == pc = "pause" /\ Unpaused /\ Goto("command")

UserResumes == pc = "pause" /\ Goto("command")

TypeStep ==
  /\ BootWait \/ Dial \/ Handshake \/ Command \/ SendKey \/ CommandDone \/ Resume
  /\ UNCHANGED <<config, cancelled, machine, received>>

User ==
  /\ UserResumes
  /\ UNCHANGED <<config, cancelled, machine, received>>

-----------------------------------------------------------------------------
(* The build, the connection and the VM.                                    *)

Cancel ==
  /\ ~cancelled /\ cancelled' = TRUE
  /\ UNCHANGED <<typing, conn, wire, machine, received>>

Deliver ==
  /\ wire # <<>> /\ Connected
  /\ received' = Append(received, [boot |-> conn, key |-> Head(wire)])
  /\ wire' = Tail(wire)
  /\ UNCHANGED <<typing, conn, cancelled, machine>>

\* The VM powers off or reboots: bhyve exits ...
VMExit ==
  /\ up /\ up' = FALSE /\ wire' = <<>>
  /\ UNCHANGED <<typing, conn, cancelled, boots, received>>

\* ... and is started again.
VMRestart ==
  /\ ~up /\ boots < MaxBoots
  /\ up' = TRUE /\ boots' = boots + 1
  /\ UNCHANGED <<typing, conn, wire, cancelled, received>>

BootNext == TypeStep \/ User \/ Cancel \/ Deliver \/ VMExit \/ VMRestart

\* The step goes on by itself; nothing is asked of the user or of the guest.
BootSpec == BootInit /\ [][BootNext]_bootVars /\ WF_bootVars(TypeStep)

-----------------------------------------------------------------------------
(* Properties.                                                              *)

\* What has to be typed: the boot command or, without one, the first element
\* of every boot step that is not empty.
Asked(t) == IF t.command # NoCommand THEN <<<<t.command>>>> ELSE t.steps

\* The keys to be typed, each by its step and its number there.
Places(t) ==
  UNION {{i} \X DOMAIN Keys[Asked(t)[i][1]] : i \in {j \in DOMAIN Asked(t) : Asked(t)[j] # <<>>}}

KeyAt(t, place) == Keys[Asked(t)[place[1]][1]][place[2]]

\* The places before key number k of step i.
Before(t, i, k) == {p \in Places(t) : p[1] < i \/ (p[1] = i /\ p[2] < k)}

\* The keys in the order of their places.
Wanted(t) ==
  [n \in 1..Cardinality(Places(t)) |->
     KeyAt(t, CHOOSE p \in Places(t) : Cardinality(Before(t, p[1], p[2])) = n - 1)]

\* Whatever is lost, the VM receives the first keys of what has to be typed, in
\* order and each once (step_type_boot_command.go:44-50, 130-169).
ReceivedInOrder == IsPrefix([i \in DOMAIN received |-> received[i].key], Wanted(config))

\* All keys reach the same boot: none receives the rest of what was meant for
\* an earlier one (step_type_boot_command.go:90-97, 164-169).
ReceivedInOneBoot ==
  \A i, j \in DOMAIN received : received[i].boot = received[j].boot

\* A step that continues has sent everything, or has nothing to send to
\* (step_type_boot_command.go:44-52, 66-69, 130-184).
ContinuesWhenSent ==
  pc = "continue" => sent = IF config.disable THEN <<>> ELSE Wanted(config)

\* The step answers the runner once, puts nothing in the state bag but an error
\* with which it ends, and halts without one only when the build is cancelled
\* (step_type_boot_command.go:66-112, 149-184).
Outcome ==
  INSTANCE StepOutcome WITH
    Produces <- {}, MayHalt <- FALSE,
    answer   <- IF pc \in {"continue", "halt"} THEN pc ELSE "running",
    put      <- IF error THEN {"error"} ELSE {}

ImplementsStep == Outcome!OutcomeSpec

\* The step ends, unless the user lets it wait (step_type_boot_command.go:72-80,
\* 171-182).
BootStepEnds ==
  <>(pc \in {"continue", "halt"}) \/ <>[](pc = "pause" /\ ~cancelled)
=============================================================================
