----------------------------- MODULE MCPipeline -----------------------------
(***************************************************************************)
(* Values for TLC: two sets of the iPhone and one of Android, a fourth of  *)
(* the lines for testing.  In Good each class of the iPhone's six frames   *)
(* outnumbers the one frame that is taken, on Android only one class does; *)
(* in Poor there is no noise, in Short a frame at the end of the audio is  *)
(* incomplete, in Torn a capture fails half way.                           *)
(***************************************************************************)
EXTENDS Pipeline

MCSetsOf == [p \in {"Ios", "Android"} |->
               IF p = "Ios" THEN <<"MondayNight", "WednesdayMorning">> ELSE <<"Android">>]

F(t, c, k) == [set |-> t, class |-> c, nr |-> k, whole |-> TRUE]
Of(S) == [frames |-> S, regular |-> TRUE]

Good ==
  ("MondayNight" :> Of({F("MondayNight", c, 0) : c \in 1..3}))
    @@ ("WednesdayMorning" :> Of({F("WednesdayMorning", c, 0) : c \in 1..3}))
    @@ ("Android" :> Of({F("Android", c, 0) : c \in 1..3} \cup {F("Android", 1, 1)}))

Poor ==
  ("MondayNight" :> Of({F("MondayNight", 1, 1), F("MondayNight", 2, 1)}))
    @@ ("WednesdayMorning" :> Of({F("WednesdayMorning", 1, 1)}))
    @@ ("Android" :> Of({F("Android", 2, 2)}))

Short == [Good EXCEPT !["WednesdayMorning"] =
            Of({[F("WednesdayMorning", 2, 2) EXCEPT !.whole = FALSE], F("WednesdayMorning", 1, 2)})]

Torn == [Good EXCEPT !["WednesdayMorning"].regular = FALSE]

MCCaptures == {Good, Poor, Short, Torn}
=============================================================================
