--------------------------- MODULE MCWeatherFetch ---------------------------
(* Instance of WeatherFetch: one thread that changes the city, and one that *)
(* refreshes the data and repaints the screen in turn.                      *)
EXTENDS WeatherFetch, TLC

CONSTANTS weather, key, c1, c2
=============================================================================
