----------------------------- MODULE MCClasses -----------------------------
(***************************************************************************)
(* Classes a sketch uses, side by side: SD on five clusters, the driver    *)
(* under it on two blocks, String and Stream.  `scene' says which of them  *)
(* is at work in a behaviour.                                              *)
(***************************************************************************)
EXTENDS SdLibrary, SdCard, WString, Stream

CONSTANT Scenes

MCFilePaths == {<<"f">>, <<"d", "f">>}
MCDirPaths == {<<"d">>}
MCModes == {{"read"}, {"read", "write", "creat"}, {"read", "write", "creat", "trunc"},
            {"read", "write", "creat", "append", "sync"}}
MCRuns == {<<1>>, <<2, 3>>, <<4, 5, 6>>}
MCCounts == 0..4

\* Texts of 1 (a), 2 (b) and 3 (a blank); of 97 (a), 98 (b) and 32.  No target
\* overlaps itself and no replacement completes what is replaced.
MCTexts == {<<>>, <<1>>, <<1, 2>>, <<3, 1>>, <<2, 3, 2>>}
MCPairs == {<<<<1>>, <<2>>>>, <<<<1, 2>>, <<3>>>>, <<<<1>>, <<2, 3>>>>, <<<<3>>, <<>>>>,
            <<<<3>>, <<2, 2>>>>}
\* "ab" is replaced by "bbb": in "aab" it completes another "ab".
MCCompleting == {<<<<1, 2>>, <<2, 2, 2>>>>}
ASSUME PairsAssumption == StayApart(MCPairs) /\ ~StayApart(MCCompleting)
MCTargets == {<<>>, <<32>>, <<97>>, <<97, 98>>}
MCTerminators == {<<>>, <<98>>, <<32>>}

VARIABLE scene
classVars == <<scene, sdVars, cardVars, stringVars, streamVars>>

ClassesInit ==
  /\ scene \in Scenes
  /\ SdInit /\ CardInit /\ StringInit /\ StreamInit
  /\ scene # "stream" => coming = <<>>
  /\ scene # "string" => text = <<>>
  /\ scene # "card" => s.type = "SD1"
  /\ scene # "sd" => m = SDClass_begin(Fresh(Formatted))
ClassesNext ==
  \/ scene = "sd" /\ SdNext /\ UNCHANGED <<scene, cardVars, stringVars, streamVars>>
  \/ scene = "card" /\ CardNext /\ UNCHANGED <<scene, sdVars, stringVars, streamVars>>
  \/ scene = "string" /\ StringNext /\ UNCHANGED <<scene, sdVars, cardVars, streamVars>>
  \/ scene = "stream" /\ StreamNext /\ UNCHANGED <<scene, sdVars, cardVars, stringVars>>
ClassesSpec == ClassesInit /\ [][ClassesNext]_classVars
=============================================================================
