------------------------- MODULE MCWeatherExchange --------------------------
(* Instances of WeatherExchange for TLC. *)
EXTENDS WeatherExchange

CONSTANTS p1, p2, t1, Goe, Wf, f1, f2

TwoPlain == {p1, p2}
OnePlain == {p1}
Three == {p1, p2, t1}

OneStation == {<<Goe>>}
TwoStations == {<<Goe>>, <<Goe, Wf>>}

Benign == {InvalidId}
AnyByte == StationId \cup {InvalidId}
\* The station id whose value is 0.
Zero == {Goe}
============================================================================
