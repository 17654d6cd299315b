---------------------------- MODULE MCPacketPath ----------------------------
(***************************************************************************)
(* A finite instance of PacketPath: four addresses of one family and one   *)
(* of the other, prefixes that nest, rows chosen so that they collide.     *)
(***************************************************************************)
EXTENDS PacketPath, Sequences

P4(net) == [fam |-> 4, len |-> Len(net), net |-> net]
All4 == P4(<<>>)
Half == P4(<<0>>)
One == P4(<<0, 0>>)
Other == P4(<<0, 1>>)
All6 == [fam |-> 6, len |-> 0, net |-> <<>>]
A4(bits) == [fam |-> 4, bits |-> bits]
A6(bits) == [fam |-> 6, bits |-> bits]

MCLocal == {A4(<<1, 1>>)}

Ban(cidr, proto, port, expires) ==
  [table |-> "ban", cidr |-> cidr, proto |-> proto, port |-> port, expires |-> expires]
FwRule(cidr, action, proto, port, priority) ==
  [table |-> "rule", cidr |-> cidr, action |-> action, proto |-> proto, port |-> port,
   priority |-> priority]
TrustedRow(cidr) == [table |-> "trusted", cidr |-> cidr]
ThreatRow(cidr) == [table |-> "threat", cidr |-> cidr]

MCBans == {Ban(All4, "any", 0, 2), Ban(Half, "any", 0, 1), Ban(Half, "any", 0, 2),
           Ban(One, "any", 0, 1), Ban(One, "any", 0, 2), Ban(One, "tcp", 80, 1)}
MCRules == {FwRule(All4, "deny", "any", 0, 0), FwRule(Half, "allow", "any", 0, 0),
            FwRule(Half, "deny", "any", 0, 1), FwRule(Half, "deny", "any", 80, 1),
            FwRule(One, "allow", "any", 0, 1), FwRule(One, "allow", "tcp", 80, 1),
            FwRule(Other, "deny", "tcp", 0, 1), FwRule(All6, "deny", "icmp", 0, 1)}
MCOthers == {TrustedRow(All4), TrustedRow(Half), TrustedRow(One), TrustedRow(All6),
             ThreatRow(Half), ThreatRow(One),
             [table |-> "geo", cidr |-> Half, country |-> "c1"],
             [table |-> "geo", cidr |-> One, country |-> "c2"],
             [table |-> "country", country |-> "c1", action |-> "deny"],
             [table |-> "country", country |-> "c1", action |-> "allow"],
             [table |-> "limit", proto |-> "tcp", port |-> 80, priority |-> 1],
             [table |-> "limit", proto |-> "any", port |-> 0, priority |-> 1],
             [table |-> "defense", flags |-> {"ip", "flood"}],
             [table |-> "defense", flags |-> {"enabled", "ip"}]}
MCCandidates == MCBans \cup MCRules \cup MCOthers

Pkt(src, proto, dport, shape) ==
  [src |-> src, proto |-> proto, dport |-> dport, shape |-> shape]
MCPackets ==
  {Pkt(A4(b), "tcp", 80, "ok") : b \in {0, 1} \X {0, 1}}
    \cup {Pkt(A4(<<0, 0>>), "icmp", 0, "ok"), Pkt(A6(<<0, 0>>), "icmp", 0, "ok"),
          Pkt(A4(<<0, 0>>), "tcp", 0, "cut"), Pkt(A4(<<0, 0>>), "other", 0, "not_ip")}
=============================================================================
