-------------------------- MODULE MCPacketFraming ---------------------------
(* An instance of PacketFraming for TLC: the packets shrunk in proportion, *)
(* the buffer no larger than the longest.                                  *)
EXTENDS PacketFraming

CONSTANTS Handshake, Pong, WeatherStatus

Sizes == [t \in {Handshake, Pong, WeatherStatus} |->
             CASE t = Handshake -> 3 [] t = Pong -> 1 [] t = WeatherStatus -> 4]
============================================================================
