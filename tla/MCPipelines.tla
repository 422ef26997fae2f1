---------------------------- MODULE MCPipelines ----------------------------
(* Every program with every command or pair of commands, separators where   *)
(* the usage line does not want them, and each fork() that may fail.        *)
EXTENDS Pipelines

Job(prog, args) == [prog |-> prog, args |-> args, tty |-> TRUE, there |-> TRUE, fails |-> 0]
Quiet(j) == [j EXCEPT !.tty = FALSE]
NoFile(j) == [j EXCEPT !.there = FALSE]
NoFork(j, q) == [j EXCEPT !.fails = q]

OneCommand == {Job(prog, <<c>>) :
  prog \in {"5_12", "5_13", "5_18A", "5_18B", "5_27", "5_28", "5_29"}, c \in Commands}
Joined == {Job(prog, <<a, ";;", b>>) :
  prog \in {"5_26", "5_30"}, a \in Commands, b \in Commands}
Misplaced == {Job(prog, args) : prog \in {"5_26", "5_30"},
  args \in {<<"cat", "cat", "cat">>, <<";;", "cat", "cat">>, <<"cat", "cat", ";;">>,
           <<";;", "cat", ";;", "cat">>, <<"cat", ";;", ";;">>, <<"cat", ";;", "true", ";;">>}}
SideBySide == {Job("5_13", args) :
  args \in {<<"cat", ";;", "cat">>, <<";;", "abort", "true", ";;", ";;", "none", ";;">>}}
Alone == {Job(prog, <<>>) : prog \in {"5_14", "5_25"}}
Others == {Job(prog, <<"cat">>) : prog \in {"5_18C", "5_18D"}}

One == Alone \cup {Job(prog, <<"cat">>) :
  prog \in {"5_12", "5_18A", "5_18B", "5_18C", "5_18D", "5_27", "5_28", "5_29"}}
Two == {Job("5_29", <<c>>) : c \in {"cat", "true"}}
  \cup {Job(prog, <<c, ";;", "cat">>) : prog \in {"5_13", "5_26", "5_30"}, c \in Images}
Childless ==
  {NoFork(j, 2) : j \in One \cup Two \cup {Quiet(j) : j \in Alone}}
    \cup {NoFork(j, 3) : j \in Two \cup {Quiet(j) : j \in Two}}

MCJobs ==
  OneCommand \cup Joined \cup Misplaced \cup SideBySide \cup Alone \cup Others
    \cup {Quiet(j) : j \in Alone \cup {Job("5_29", <<"cat">>), Job("5_27", <<"true">>)}}
    \cup {NoFile(Job(prog, <<"cat">>)) : prog \in {"5_18A", "5_18B", "5_18C", "5_18D"}}
    \cup Childless
=============================================================================
