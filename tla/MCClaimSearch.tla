---------------------------- MODULE MCClaimSearch ----------------------------
(***************************************************************************)
(* Families of small inputs for ClaimSearch.                               *)
(***************************************************************************)
EXTENDS ClaimSearchProperties

\* Capacities: "mem" of 8 fractions, 4 wholes.
Plain == {[name |-> "mem", value |-> 8, policy |-> {}]}
WithPolicy(p) == {[name |-> "mem", value |-> 8, policy |-> {p}]}
Policy(default, values, range) ==
    [default |-> default, validValues |-> values, validRange |-> range]
From(min, max, step) == {[min |-> min, max |-> max, step |-> step]}

Policies == {
    Policy({}, <<>>, {}), Policy({3}, <<>>, {}), Policy({9}, <<>>, {}),
    Policy({2}, <<2, 5, 8>>, {}), Policy({3}, <<2, 5>>, {}),
    Policy({2}, <<5, 2>>, {}), Policy({}, <<2>>, {}),
    Policy({2}, <<2>>, From({2}, {}, {})),
    Policy({4}, <<>>, From({3}, {6}, {})), Policy({4}, <<>>, From({}, {6}, {})),
    Policy({2}, <<>>, From({2}, {}, {4})), Policy({2}, <<>>, From({2}, {6}, {2})),
    Policy({2}, <<>>, From({2}, {6}, {0})), Policy({4}, <<>>, From({2}, {}, {4})),
    Policy({2}, <<>>, From({2}, {}, {8}))}

\* Devices, slices and requests.
Verdicts(v) == [gpu |-> v, nic |-> "other"]
Device(name, share, capacity, attributes, verdict) ==
    [name |-> name, shareable |-> share, supported |-> TRUE,
     verdict |-> verdict, capacity |-> capacity, attributes |-> attributes]
Slice(node, pool, devices) ==
    [managed |-> TRUE, healthy |-> TRUE, supported |-> TRUE, node |-> node,
     driver |-> "drv", pool |-> pool, generation |-> 1, count |-> 1,
     devices |-> devices]
Alt(name, class, mode, count, demand) ==
    [name |-> name, class |-> class, mode |-> mode, count |-> count,
     demand |-> demand, extras |-> FALSE]
Exactly(name, count) ==
    [exactly |-> <<Alt(<<name>>, "gpu", "ExactCount", count, {})>>,
     firstAvailable |-> <<>>]
Demanding(name, demand) ==
    [exactly |-> <<Alt(<<name>>, "gpu", "ExactCount", 1, demand)>>,
     firstAvailable |-> <<>>]
AllOf(name) ==
    [exactly |-> <<Alt(<<name>>, "gpu", "All", 0, {})>>, firstAvailable |-> <<>>]
Prefer(name, first, second) ==
    [exactly |-> <<>>,
     firstAvailable |-> <<[first EXCEPT !.name = <<name, "a">>],
                          [second EXCEPT !.name = <<name, "b">>]>>]
Count(n) == Alt(<<>>, "gpu", "ExactCount", n, {})
Every == Alt(<<>>, "gpu", "All", 0, {})
Missing == Alt(<<>>, "none", "ExactCount", 1, {})
Match(requests) ==
    [kind |-> "match", attribute |-> <<"drv", "numa">>, requests |-> requests]

Input(requests, constraints, slices, committed) ==
    [requests |-> requests, constraints |-> constraints, slices |-> slices,
     committed |-> committed, classes |-> {"gpu", "nic"}]
-----------------------------------------------------------------------------
\* Two requests with alternatives over two nodes; attributes by either name,
\* missing or not comparable.
Attributes == {
    <<>>,
    (<<"drv", "numa">> :> {<<"int", 0>>}),
    (<<"numa">> :> {<<"int", 1>>}),
    (<<"drv", "numa">> :> {<<"int", 1>>}) }
Odd == {
    (<<"numa">> :> {<<"int", 0>>, <<"string", 0>>}),
    (<<"drv", "numa">> :> {<<"list", 0>>}) }
FirstRequests == {
    Exactly("r", 1), Prefer("r", Count(2), Count(1)), Prefer("r", Missing, Count(2)),
    Prefer("r", Every, Count(1)), AllOf("r")}
SecondRequests == {
    Exactly("q", 0), Prefer("q", Count(2), Count(1)), AllOf("q"),
    Prefer("q", Missing, Missing)}
Scopes == {{}, {<<"r", "a">>, <<"q">>}, {<<"r">>, <<"q">>}}
TwoNodes(a, b, c) ==
    <<Slice("n1", "p1", <<Device("d1", FALSE, {}, a, Verdicts("match")),
                          Device("d2", FALSE, {}, b, Verdicts("match"))>>),
      Slice("n2", "p2", <<Device("d1", FALSE, {}, <<>>, Verdicts("other")),
                          Device("d2", FALSE, {}, c, Verdicts("match")),
                          Device("d3", FALSE, {}, b, Verdicts("match")),
                          Device("d4", FALSE, {}, a, Verdicts("match"))>>)>>

ConstrainedInputs ==
    {Input(<<r, q>>, constraints, TwoNodes(a, b, c), <<>>) :
        r \in FirstRequests, q \in SecondRequests,
        constraints \in {<<Match(scope)>> : scope \in Scopes},
        a \in Attributes, b \in Attributes, c \in Attributes \cup Odd}
    \cup {Input(<<r, q>>, <<>>, TwoNodes(<<>>, <<>>, <<>>), <<>>) :
            r \in FirstRequests, q \in SecondRequests}
-----------------------------------------------------------------------------
\* Shareable devices: every policy, with shares of other claims and of an
\* earlier request.
D1(share, amount) ==
    [id |-> <<"drv", "p1", "d1">>, shared |-> share, amount |-> amount]
Commitments == {<<>>, <<D1(TRUE, 3)>>, <<D1(TRUE, 3), D1(TRUE, 6)>>,
                <<D1(FALSE, 0)>>, <<D1(TRUE, 3), D1(FALSE, 0)>>}
Mem(q) == {[name |-> "mem", amount |-> q]}
Demands == {Mem(q) : q \in {1, 2, 3, 4, 5, 7}}
    \cup {{}, {[name |-> "cores", amount |-> 1]}}
Big == Alt(<<>>, "gpu", "ExactCount", 1, Mem(6))
Small == Alt(<<>>, "gpu", "ExactCount", 1, Mem(1))
ShareRequests ==
    {<<Demanding("r", d)>> : d \in Demands}
    \cup {<<Demanding("r", d), Demanding("q", e)>> :
            d \in {{}, Mem(3)}, e \in {Mem(2), Mem(4)}}
    \cup {<<Prefer("r", Big, Small), Demanding("q", Mem(3))>>}
SharingInputs ==
    {Input(requests, <<>>,
           <<Slice("n1", "p1",
                <<Device("d1", TRUE, capacity, <<>>, Verdicts("match")),
                  Device("d2", share, Plain, <<>>, Verdicts("match"))>>)>>,
           committed) :
        requests \in ShareRequests, share \in BOOLEAN, committed \in Commitments,
        capacity \in {WithPolicy(p) : p \in Policies} \cup {Plain, {}}}
-----------------------------------------------------------------------------
\* All mode: two slices on one node, one on another, whose generations and
\* counts agree or not.
Exclusive(name) == Device(name, FALSE, {}, <<>>, Verdicts("match"))
Part(node, pool, generation, count, healthy, devices) ==
    [Slice(node, pool, devices) EXCEPT !.generation = generation,
        !.count = count, !.healthy = healthy]
AllRequests == {
    <<AllOf("r")>>, <<Prefer("r", Every, Count(1))>>,
    <<Exactly("r", 1), AllOf("q")>>, <<Exactly("r", 1), Prefer("q", Every, Count(1))>>}
AllInputs ==
    {Input(requests, <<>>,
           <<Part("n1", "p1", g, c, healthy, <<Exclusive("d1"), Exclusive("d2")>>),
             Part("n1", pool, h, d, TRUE, <<Exclusive("d3"), Exclusive("d4")>>),
             Part("n2", "p1", g, e, TRUE, <<Exclusive("d5")>>)>>,
           committed) :
        requests \in AllRequests, healthy \in BOOLEAN, pool \in {"p1", "p2"},
        g \in 1..2, h \in 1..2, c \in 1..2, d \in 1..2, e \in 1..2,
        committed \in {<<>>, <<[id |-> <<"drv", "p3", "d1">>, shared |-> TRUE,
                                amount |-> 1]>>}}
-----------------------------------------------------------------------------
\* What ClaimPlan is about: both nodes publish the same identities.
PlainInputs ==
    {Input(<<request>>, <<>>,
           <<Part("n1", "p1", 1, 2, healthy,
                <<Device("d1", s, Plain, <<>>, Verdicts("match")),
                  Device("d2", t, Plain, <<>>, Verdicts(v))>>),
             Part("n2", "p1", 1, 2, TRUE,
                <<Device("d1", u, Plain, <<>>, Verdicts("match")),
                  Device("d2", FALSE, Plain, <<>>, Verdicts(v))>>)>>,
           committed) :
        request \in {Exactly("r", 0), Exactly("r", 2), Exactly("r", 3),
                     Demanding("r", Mem(5)), Demanding("r", Mem(9)),
                     [exactly |-> <<[Missing EXCEPT !.name = <<"r">>]>>,
                      firstAvailable |-> <<>>]},
        s \in BOOLEAN, t \in BOOLEAN, u \in BOOLEAN, v \in {"match", "other"},
        healthy \in BOOLEAN,
        committed \in Commitments \cup {<<D1(TRUE, 9)>>}}
-----------------------------------------------------------------------------
\* What the planner refuses, with and without constraints.
Usual == Alt(<<"r">>, "gpu", "ExactCount", 1, {})
Refused == {
    [exactly |-> <<>>, firstAvailable |-> <<>>],
    [exactly |-> <<Usual>>, firstAvailable |-> <<Usual>>],
    [exactly |-> <<[Usual EXCEPT !.extras = TRUE]>>, firstAvailable |-> <<>>],
    Exactly("r", 4), Exactly("r", -1),
    [exactly |-> <<[Usual EXCEPT !.mode = "All"]>>, firstAvailable |-> <<>>],
    [exactly |-> <<[Usual EXCEPT !.mode = "Other"]>>, firstAvailable |-> <<>>],
    Prefer("r", Count(1), Count(4))}
OddSlices ==
    LET usual == Slice("n1", "p1", <<Exclusive("d1")>>) IN
    {<<usual>>,
     <<[usual EXCEPT !.managed = FALSE], [usual EXCEPT !.pool = "p2"]>>,
     <<[usual EXCEPT !.supported = FALSE, !.node = NoNode]>>,
     <<usual, [usual EXCEPT !.supported = FALSE, !.node = NoNode, !.pool = "p2"]>>,
     <<[usual EXCEPT !.devices[1].supported = FALSE]>>,
     <<[usual EXCEPT !.devices[1].verdict = Verdicts("error")]>>,
     <<[usual EXCEPT !.devices[1].capacity = WithPolicy(Policy({}, <<>>, {}))]>>}
OddInputs ==
    {Input(<<request>>, constraints, slices, <<>>) :
        request \in Refused \cup {Exactly("r", 1), AllOf("r"), Exactly("r", 2)},
        slices \in OddSlices,
        constraints \in {<<>>, <<Match({<<"r">>})>>, <<Match({<<"x">>})>>,
                         <<[Match({}) EXCEPT !.kind = "distinct"]>>}}
    \cup {Input(<<request, Exactly("q", 1)>>, <<>>, slices, <<>>) :
            request \in {Exactly("r", 1), AllOf("r")}, slices \in OddSlices}

AnyInput == <<ConstrainedInputs, SharingInputs, AllInputs, PlainInputs, OddInputs>>
=============================================================================
