--------------------------- MODULE MCBootCommand ----------------------------
(* Instances of BootCommand for TLC. *)
EXTENDS BootCommand

\* Two commands with a key in common, one without keys and one that is wrong.
FewKeys == [install |-> <<"a", "b">>, reboot |-> <<"b", "c">>, nothing |-> <<>>, wrong |-> <<"d">>]

SomeSteps ==
  {<<>>, <<<<>>, <<"install">>, <<>>, <<"reboot">>>>, <<<<"nothing">>, <<"reboot">>, <<"wrong">>>>}

SomeTemplates ==
  [command : {NoCommand, "install", "wrong"}, steps : SomeSteps,
   wait : BOOLEAN, disable : {FALSE}, debug : BOOLEAN]
  \cup [command : {NoCommand}, steps : SomeSteps,
        wait : BOOLEAN, disable : {TRUE}, debug : {FALSE}]

\* Wanted is the concatenation of the keys of what is asked for.
ASSUME WantedIsSpelled ==
  \A t \in Templates :
    LET steps == SelectSeq(Asked(t), LAMBDA s : s # <<>>)
    IN Wanted(t) = FlattenSeq([i \in DOMAIN steps |-> Keys[steps[i][1]]])
=============================================================================
