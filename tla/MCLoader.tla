------------------------------- MODULE MCLoader -------------------------------
(***************************************************************************)
(* Loader with the shapes of conf/uvc.json and conf/rpi-pipeline.json, the *)
(* configuration of pipeline_test.cpp, where a node is mentioned twice,    *)
(* and one whose algorithm names a node that no other part mentions.       *)
(***************************************************************************)
EXTENDS Loader

CONSTANTS camera, isp, encoder, other

MCNodes == {camera, isp, encoder, other}

Bridge(from, to) == [source |-> from, sink |-> to]
Agc(node) == [name |-> "rpi-agc", device |-> node]
Control(from, of, decoder) == [stats |-> from, algorithms |-> of, decoder |-> decoder]

MCAlgorithms == {"rpi-agc"}
MCDecoders == {"bcm2835-isp"}

Uvc == [bridges |-> <<>>, source |-> camera, controls |-> <<>>]
Rpi == [bridges |-> <<Bridge(camera, isp), Bridge(other, encoder)>>, source |-> encoder,
        controls |-> <<Control(isp, <<Agc(camera), Agc(isp)>>, "bcm2835-isp")>>]
Test == [bridges |-> <<Bridge(camera, isp), Bridge(isp, encoder)>>, source |-> encoder,
         controls |-> <<>>]
Wrong == [bridges |-> <<Bridge(camera, isp)>>, source |-> isp,
          controls |-> <<Control(isp, <<Agc(camera), Agc(other)>>, "bcm2835-isp")>>]
Unknown == [bridges |-> <<>>, source |-> camera,
            controls |-> <<Control(isp, <<Agc(camera)>>, "none")>>]

MCConfigs == {Uvc, Rpi, Test, Wrong, Unknown}
MCKinds == {{"capture", "output"}, {"capture", "output", "meta"}, {"capture"}, {"meta"}}
=============================================================================
