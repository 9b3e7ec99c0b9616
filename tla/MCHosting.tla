----------------------------- MODULE MCHosting -----------------------------
EXTENDS Hosting

Say(signature, key, revocations) ==
  [c \in Columns |-> CASE c = "signature" -> signature [] c = "key" -> key [] OTHER -> revocations]
Plain == Say(Unsaid, Unsaid, Unsaid)
Line(source, package, columns) == [source |-> source, package |-> package, columns |-> columns]
Text(header, lines) == [header |-> header, lines |-> lines, torn |-> FALSE]

MCPackages == {"p", "q"}
MCKeys == {"k1", "k2"}
MCValues == MCKeys \cup {"other"}    \* any text no artifact of the instance says
Bare == Line("official", "p", Plain)
Declared == Line("official", "p", Say(Empty, Empty, Empty))
Signed(k) == Line("official", "p", Say(k, Empty, Empty))
Full(k) == Line("official", "p", Say(k, k, k))
Other(columns) == Line("official", "q", columns)
OfUser(package) == Line("user", package, Plain)

MCPublished == {Text("absent", <<Bare>>), Text("absent", <<Signed("k1")>>)}
MCInitialLocks ==
  {[official |-> Text("ours", <<Bare>>), user |-> Text("absent", <<>>)],
   [official |-> Text("absent", <<Bare, Full("k1")>>), user |-> Text("absent", <<OfUser("p")>>)],
   [official |-> Text("absent", <<Declared>>), user |-> Text("ours", <<>>)],
   [official |-> Text("absent", <<Full("k1"), Other(Plain)>>), user |-> Text("absent", <<>>)]}
\* Both files with a header of their own, each readable by itself.
MCHeaders == {[official |-> Text("ours", <<Bare>>), user |-> Text("ours", <<>>)]}
Said(record) == [record |-> record, lines |-> <<record>>]
\* The last asks for pins, of which the last holds a line end and a line.
MCRequests ==
  {Said(r) : r \in {Full("k1"), Full("k2"), OfUser("p"), OfUser("q"),
                    Other(Say("k1", "k1", "k1")), Line("user", "p", Say("k1", Empty, Empty))}}
  \cup {[record |-> Line("user", "q", Say("k1", "k1", "other")),
         lines |-> <<Line("user", "q", Say("k1", "k1", "k1")), Full("k2")>>]}

Good(manifest, key) ==
  [manifest |-> manifest, fits |-> TRUE, digest |-> "matches", given |-> Unsaid, signer |-> key]
Flawed(artifact) ==
  {[artifact EXCEPT !.fits = FALSE], [artifact EXCEPT !.digest = "differs"],
   [artifact EXCEPT !.digest = "malformed"]}
Unproven(artifact) == {[artifact EXCEPT !.given = "k2"], [artifact EXCEPT !.signer = Unsaid]}
OfficialOnes == {Good(Full("k1"), "k1"), Good(Full("k2"), "k2")}
Offered == OfficialOnes \cup {Good(OfUser("p"), Unsaid)}
MCArtifacts ==
  Offered \cup {Good(OfUser("q"), Unsaid)}
  \cup UNION {Flawed(a) : a \in Offered} \cup UNION {Unproven(a) : a \in OfficialOnes}

MCPolicies == {[official |-> TRUE, user |-> TRUE, digest |-> FALSE]}
MCTrusts == {[keys |-> {"k1", "k2"}, revoked |-> {"q"}, digest |-> TRUE],
             [keys |-> {}, revoked |-> {}, digest |-> FALSE]}
MCChannels == {{"official", "community"}}
\* Two programs with a fault, or with an edition; a program and a host with
\* either; a host that is opened again; a host that replaces twice.
Bound(a, f, e, o, c) ==
  [asks |-> a, faults |-> f, editions |-> e, openings |-> o, calls |-> c]
MCBudgets ==
  {Bound(2, 1, 0, 0, 0), Bound(2, 0, 1, 0, 0), Bound(1, 1, 0, 1, 0), Bound(1, 0, 1, 1, 0),
   Bound(0, 0, 0, 2, 1), Bound(0, 0, 0, 1, 2)}
MCOneWrite == {Bound(1, 0, 0, 1, 0)}
MCPlans == {[graft |-> "g", needs |-> {}], [graft |-> "h", needs |-> {"g"}]}
=============================================================================
