------------------------------- MODULE MCReports -------------------------------
(* Reports with constants for TLC: call trees of a root and three nodes, over *)
(* functions of the program, of a library, a native one, and idle time.       *)
EXTENDS Reports

MCUrls == {"app.js", "lib.js", "kareem.js"}
MCUrlKind == [u \in MCUrls |-> IF u = "kareem.js" THEN "npm" ELSE "app"]
MCPackageOf == [u \in MCUrls |-> IF u = "kareem.js" THEN "kareem" ELSE "app:src"]

CallFrame(name, script, url) == [name |-> name, script |-> script, url |-> url]

Root == CallFrame("(root)", "0", "")
Idle == CallFrame("(idle)", "0", "")
Tasks == CallFrame("runMicrotasks", "0", "")
Wrap == CallFrame("wrap", "2", "kareem.js")
CallF == CallFrame("f", "1", "app.js")
CallG == CallFrame("g", "1", "app.js")
CallH == CallFrame("h", "", "lib.js")

Frames == {CallF, CallG, CallH, Wrap, Tasks, Idle}

(* Parents of nodes 2, 3 and 4 below root 1. *)
Chain == <<1, 2, 3>>
Fork == <<1, 2, 2>>
Split == <<1, 1, 3>>
TwoRoots == <<1, 0, 3>>

Children(t) == [n \in 1..4 |-> SelectSeq(<<2, 3, 4>>, LAMBDA c : t[c - 1] = n)]

Sample(n, d, l) == [id |-> n, delta |-> d, label |-> l]

Steady == <<Sample(2, 1, "a"), Sample(3, 2, "b"), Sample(4, 4, "a"),
            Sample(4, 1, ""), Sample(1, 1, "")>>

(* A clock that goes back and a node that is missing. *)
Uneven == <<Sample(4, 2, "a"), Sample(3, -1, "a"), Sample(2, 0, "b"),
            Sample(9, 5, "b"), Sample(3, 3, "")>>

Profile(t, fs, ts) ==
  [frame |-> <<Root, fs[1], fs[2], fs[3]>>, children |-> Children(t),
   hits |-> <<1, 0, 2, 3>>, samples |-> ts, duration |-> 8]

(* Nothing but the root was seen at work. *)
Elsewhere == <<Sample(1, 3, "a")>>

Threes == Frames \X Frames \X Frames
Singles == {Profile(t, fs, Steady) : t \in {Chain, Fork, Split}, fs \in Threes}
      \cup {Profile(Chain, fs, Uneven) : fs \in Threes}

(* No samples, only hits; children that are missing. *)
Legacy(p) == [p EXCEPT !.samples = <<>>]
Truncated(p) == [p EXCEPT !.children = [n \in 1..4 |-> <<9>> \o p.children[n]]]

Few == {Profile(Chain, <<CallF, Wrap, CallH>>, Steady),
        Profile(Chain, <<CallG, Wrap, CallH>>, Uneven),
        Profile(Chain, <<Wrap, Tasks, Wrap>>, Steady),
        Profile(TwoRoots, <<CallF, Wrap, CallF>>, Steady),
        Profile(Fork, <<Wrap, Idle, CallH>>, Steady),
        Profile(Chain, <<Tasks, CallG, Tasks>>, Uneven),
        Profile(Chain, <<CallF, Wrap, CallG>>, Elsewhere)}
Odd == {Legacy(p) : p \in Few} \cup {Truncated(p) : p \in Few}

MCBatches == {<<p>> : p \in Singles \cup Few \cup Odd} \cup {<<p, q>> : p \in Few, q \in Few \cup Odd}
=============================================================================
