---------------------------- MODULE MCAcquisition ----------------------------
(***************************************************************************)
(* Small instances of Acquisition: a provider p that lists one match, a    *)
(* provider q that lists two legs of it on either side, spelled otherwise. *)
(* Only an alias brings them together, and the match of p, half-way        *)
(* between the legs and silent on its competition, is then ambiguous.      *)
(***************************************************************************)
EXTENDS Acquisition, TLC

CONSTANTS p, q, match, leg1, leg2, short, long, rival, cup, league, e1, e2, e3

MCListings == {match, leg1, leg2}
MCProviders == {p, q}
MCNames == {short, long, rival}
MCEventIds == {e1, e2, e3}
IdSymmetry == Permutations(MCEventIds)

\* Every spelling normalises to a participant of its own.
MCNormal == [n \in MCNames |-> n]

Listing(provider, home, competition) ==
    [provider |-> provider, home |-> home, away |-> rival,
     competition |-> competition]

MCListed == match :> Listing(p, short, Silent)
            @@ leg1 :> Listing(q, long, cup)
            @@ leg2 :> Listing(q, long, league)

\* One match and two legs that no alias is needed to bring together.
MCSameSpelling == [l \in MCListings |-> [MCListed[l] EXCEPT !.home = long]]

MCFirstKickoff == match :> 1 @@ leg1 :> 0 @@ leg2 :> 2

MCAliasFile == {[source |-> p, alias |-> short, canonical |-> long]}

BothAliases == MCAliasFile \cup
               {[source |-> q, alias |-> long, canonical |-> short]}

NoAliases == {}

CONSTANTS w1, w2, w3
AnySource == [w \in Workers |-> MCProviders]
OneEach == [w \in Workers |-> IF w = w1 THEN {p} ELSE {q}]
=============================================================================
