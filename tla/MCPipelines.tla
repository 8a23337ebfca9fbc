---------------------------- MODULE MCPipelines -----------------------------
(* Model values for module Pipelines.                                      *)
EXTENDS Pipelines

One(cmds, i, o) == [cmds |-> cmds, input |-> i, output |-> o]
Plain(cmds) == One(cmds, "given", "given")

\* all pipelines of one to three commands, some of them redirected
Single ==
  {<<Plain(cmds)>> : cmds \in UNION {[1..n -> Kinds] : n \in 1..3}}
    \cup {<<One(<<"filter", "filter">>, i, o)>> : i, o \in {"given", "file", "missing"}}

\* two pipelines, of which the first may be redirected, or three
Several ==
  {<<One(first, i, "given"), One(<<"filter">>, "given", o)>> :
      first \in {<<"source", "filter">>, <<"filter", "none">>}, i, o \in {"given", "file"}}
    \cup {<<Plain(<<"endless", "head">>), Plain(<<"source", "filter", "head">>)>>,
          <<One(<<"source">>, "given", "file"), One(<<"filter">>, "file", "given"),
            Plain(<<"none">>)>>}

AllTasks == Single \cup Several

=============================================================================
