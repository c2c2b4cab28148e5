----------------------------- MODULE MCApiLinks -----------------------------
(***************************************************************************)
(* Instances of ApiLinks for TLC: the ways to reach the service.           *)
(***************************************************************************)
EXTENDS ApiLinks

AllWords == STRING

Host(name, port) == [name |-> name, port |-> port]
Address(scheme, name, port) == [scheme |-> scheme, host |-> Host(name, port)]
Rule(from, to) == [from |-> from, to |-> to]

AsIs == <<Rule(<< >>, << >>)>>
Service == Host("service", "8181")

\* Nothing in between.
Direct ==
    [front |-> Address("http", "service", "8181"), rules |-> AsIs, host |-> Service,
     sendsUrl |-> FALSE, proto |-> << >>, forwardedHost |-> << >>, forwardedPort |-> << >>]

\* A proxy that takes a prefix away, or puts the service's own in its place, and
\* says what was asked for.
Telling(rules) ==
    [front |-> Address("https", "edge", ""), rules |-> rules, host |-> Service,
     sendsUrl |-> TRUE, proto |-> <<"http">>, forwardedHost |-> <<Host("inner", "")>>,
     forwardedPort |-> <<"9000">>]

\* A proxy that leaves paths alone and says which scheme, host and port it has.
Forwarding(front, host, forwardedHost, forwardedPort) ==
    [front |-> front, rules |-> AsIs, host |-> host, sendsUrl |-> FALSE,
     proto |-> <<front.scheme, "http">>, forwardedHost |-> forwardedHost,
     forwardedPort |-> forwardedPort]

AllSetups ==
    {Direct,
     Telling(<<Rule(<<"team">>, << >>)>>),
     Telling(<<Rule(<<"v1-secrets">>, << >>)>>),
     Telling(<<Rule(<<"api">>, <<"v1-secrets">>), Rule(<< >>, << >>)>>),
     Forwarding(Address("https", "edge", ""), Service,
                <<Host("edge", ""), Host("inner", "8080")>>, <<"443", "8080">>),
     Forwarding(Address("https", "edge", "8443"), Host("edge", "9000"), << >>, <<"8443">>),
     [Forwarding(Address("http", "edge", ""), Host("edge", ""), << >>, << >>)
        EXCEPT !.rules = <<Rule(<<"v1-secrets">>, <<"v1-secrets">>)>>]}

\* The theorems are about set-ups like these, and not about the one below.
ASSUME SetupsAreTransparent == \A s \in AllSetups : Transparent(s)

\* The proxy is behind another one: its own port is in the host, the outer one's
\* in X-Forwarded-Port.
PortSetups ==
    {Forwarding(Address("https", "edge", ""), Service, <<Host("edge", "8443")>>, <<"443">>)}

ASSUME PortSetupsAreNot == \A s \in PortSetups : ~Transparent(s)

Starts ==
    {<<"v1-secrets">>, <<"v1-secrets", "">>, <<"v1-secrets", "schemas", "other">>,
     <<"v1-secrets", "secrets", "create">>, <<"v1-secrets", "secrets", "purge">>, <<"nowhere">>}
=============================================================================
