--------------------------- MODULE MCShowWeather ---------------------------
(* Instances of ShowWeather: sets of painters, one picture or two.          *)
EXTENDS ShowWeather, TLC

OnePicture  == <<1>>
TwoPictures == <<2, 1>>
=============================================================================
