------------------------------ MODULE MCFormats -------------------------------
(***************************************************************************)
(* Formats with the two bridges of conf/rpi-pipeline.json, two sizes and   *)
(* two codecs.                                                             *)
(***************************************************************************)
EXTENDS Formats

\* Sessions overlap on devices that keep their capture format, and come one after
\* another on devices that may reset it.
MCSettings == {[resets |-> FALSE, overlap |-> TRUE], [resets |-> TRUE, overlap |-> FALSE]}

\* Devices that take every format, only the small ones, only one codec, or a size of each.
MCTakes ==
    {Format, {f \in Format : f.size = "small"}, {f \in Format : f.codec = "MJPG"},
     {[size |-> "small", codec |-> "MJPG"], [size |-> "large", codec |-> "raw"]}}
=============================================================================
