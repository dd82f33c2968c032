---------------------------- MODULE MCZXOptimize ----------------------------
\* Two qubits; every circuit of two of the gates, and five longer ones before
\* each of the gates: they reach the gadget rules and the matches that cost the
\* graph its causal flow.  The commands that join graphs and the rules asked for
\* one by one are given on a few of them.
EXTENDS ZXOptimize

One(op, p, q) == [op |-> op, phase |-> p, qubits |-> <<q>>]
Two(of, p, q, r) == [op |-> "control", of |-> of, phase |-> p, qubits |-> <<q, r>>]

H(q) == One("h", Pi, q)
CX(q, r) == Two("px", Pi, q, r)
CZ(q, r) == Two("pz", Pi, q, r)
CS(q, r) == Two("pz", HalfPi, q, r)

Gates == {H(0), One("pz", 1, 0), One("px", HalfPi, 1), CX(0, 1), CS(0, 1)}
Long ==
  {<<CX(1, 0), CZ(1, 0), H(1), CZ(0, 1), H(1), One("px", 1, 0), CZ(1, 0), H(1)>>,
   <<One("pz", 7, 1), CX(1, 0), H(0), CX(0, 1), One("pz", 3, 1), CZ(1, 0), CX(0, 1)>>,
   <<H(0), CX(0, 1), CX(1, 0), CZ(0, 1), CX(0, 1), CZ(1, 0)>>,
   <<One("px", Pi, 0), One("px", 1, 1), CS(1, 0), CX(1, 0), CS(0, 1)>>,
   <<One("ry", HalfPi, 0), One("py", 1, 1), CX(1, 0), H(1), One("pz", 7, 1)>>}
Short == {<<a, b>> : a \in Gates, b \in Gates}

On(circuits, scripts) ==
  {[qubits |-> 2, gates |-> c, commands |-> cs] : c \in circuits, cs \in scripts}
Do(names) == [i \in DOMAIN names |-> [do |-> names[i]]]
With(how, n, gates) == <<[do |-> how, other |-> [qubits |-> n, gates |-> gates]]>>
WithItself(how) == <<[do |-> how, other |-> Itself]>>

\* One routine each.
Reduced == On(Short \cup {c \o <<b>> : c \in Long, b \in Gates},
              {Do(<<r>>) : r \in {"interior", "clifford", "full", "causal"}})
           \cup On(Long, {Do(<<"dynamic">>), Do(<<"symbolic">>)})
           \cup On(Short \cup Long, {Do(<<"partition_2">>), Do(<<"partition_3", "full">>)})

\* Rules by themselves: every two of them in a row, and in orders no routine has.
Rewritten ==
  On({<<CX(0, 1), CX(1, 0), CX(0, 1)>>, <<H(0), CS(0, 1), CX(1, 0)>>},
     {Do(<<r, s>>) : r \in Rules \cup Recolorings, s \in Rules \cup Recolorings})
  \cup
  On(Long, {Do(<<"to_x", "spider_fusion", "to_z", "lcomp", "pivot">>),
            Do(<<"to_z", "spider_fusion", "pivot_gadget", "phase_gadget", "state_copy">>),
            Do(<<"clifford", "pivot_gadget", "state_copy", "phase_gadget", "identity">>),
            Do(<<"full", "state_copy", "interior">>)})
  \cup
  \* two gadgets with opposite phases on the same parity
  On({<<CX(0, 1), One("pz", 1, 1), CX(0, 1)>> \o b \o <<CX(1, 0), One("pz", 7, 0), CX(1, 0)>> :
        b \in {<<>>, <<H(0)>>, <<One("pz", Pi, 0), One("pz", HalfPi, 1)>>}},
     {Do(<<"interior", "pivot_gadget", "phase_gadget", "state_copy">>),
      Do(<<"dynamic">>), Do(<<"symbolic">>)})

\* Joined with another graph, or with itself once it is reduced.
Joined2 ==
  On({<<One("pz", 1, 0), CX(0, 1)>>, <<CS(0, 1), H(0)>>},
     {With("compose", 2, <<CX(0, 1), One("pz", 7, 0)>>) \o Do(<<"adjoint", "full">>),
      With("compose", 1, <<One("pz", 1, 0)>>) \o With("tensor", 1, <<H(0)>>) \o Do(<<"interior">>),
      Do(<<"clifford">>) \o WithItself("compose") \o Do(<<"dynamic">>),
      Do(<<"adjoint">>) \o WithItself("compose") \o Do(<<"causal">>)})

MCSessions == Reduced \cup Rewritten \cup Joined2
=============================================================================
