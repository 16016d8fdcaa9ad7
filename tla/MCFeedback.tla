----------------------------- MODULE MCFeedback ------------------------------
(***************************************************************************)
(* Feedback with the exposure control alone, over a scene that it can make *)
(* too dark and too bright, one that no setting makes bright enough and    *)
(* one that none makes dark enough; the white balance alone, over scenes   *)
(* that drift by the tolerance and scenes without light or without one     *)
(* colour; both, over a scene that changes; and a camera with a signed     *)
(* control, without algorithms.  A step of the exposure control is of two  *)
(* to three bins, and a fifth buffer in bridge or stream would be one too  *)
(* many.  A client may set a value of more than one word.                  *)
(***************************************************************************)
EXTENDS Feedback

Set(c, v) == [op |-> "set", control |-> c, value |-> v]
Dev(e, g) == [exposure |-> e, gain |-> g, red |-> 12, blue |-> 12, brightness |-> -1]
Scene(l, r, g, b) == [light |-> l, red |-> r, green |-> g, blue |-> b]
Grey(l) == Scene(l, 1, 1, 1)

Exposure(start, post) ==
    [algorithms : {{"agc"}}, devices : {{<<"exposure", "gain">>}}, starts : {{start}},
     scenes : {{Grey(0)}}, changes : {0}, posts : {{<<post>>}}, requests : {1}]

Extremes ==
    [algorithms : {{"agc"}}, devices : {{<<"exposure", "gain">>}, {<<"exposure">>}, {<<"gain">>}},
     starts : {{Dev(1, 19)}}, scenes : {{Grey(-25)}, {Grey(30)}}, changes : {0},
     posts : {{<<Set("gain", 1)>>}}, requests : {1}]

White(scenes, changes) ==
    [algorithms : {{"awb"}}, devices : {{<<"red", "blue">>}}, starts : {{Dev(1, 1)}},
     scenes : {scenes}, changes : {changes}, posts : {{<<Set("red", 3), Set("gain", 1)>>}},
     requests : {1}]

Both ==
    [algorithms : {{"agc", "awb"}}, devices : {{<<"exposure", "gain">>, <<"red", "blue">>}},
     starts : {{Dev(1, 19)}}, scenes : {{Grey(-4), Scene(14, 4, 1, 1)}}, changes : {1},
     posts : {{}}, requests : {0}]

Plain ==
    [algorithms : {{}}, devices : {{<<"brightness">>}}, starts : {{Dev(0, 0)}}, scenes : {{Grey(0)}},
     changes : {0}, posts : {{<<Set("brightness", v)>> : v \in {-1, 1, 99, 127}}},
     requests : {3}]

MCSettings ==
    UNION {Exposure(Dev(1, 1), Set("exposure", 19 + Word)),
           Exposure(Dev(19, 19), Set("gain", 1)), Extremes,
           White({Scene(0, 12, 12, 12), Scene(0, 12, 13, 12), Scene(0, 12, 14, 12)}, 2),
           White({Grey(0), Scene(0, 0, 0, 0), Scene(0, 0, 0, 1), Scene(0, 0, 1, 1)}, 2),
           White({Grey(0), Scene(0, 4, 1, 1), Scene(0, 1, 0, 1), Scene(0, 1, 1, 12)}, 1),
           Both, Plain}
=============================================================================
