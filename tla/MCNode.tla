------------------------------- MODULE MCNode -------------------------------
(* Instances of Node for TLC.  An exchange, its address and the transfers to *)
(* it are written as functions from small numbers.                          *)
EXTENDS NodeSettlement

Alice == "alice address"
Bob   == "bob address"
Empty == "empty"
BothAddresses == {Alice, Bob}

\* A monitor whose chain has no exchange and no transfer makes empty passes
\* only; instances about one chain leave the other out.
Tron == {"tron"}
Bsc  == {"bsc"}

One   == {1}
Two   == {1, 2}

\* Two exchanges whose requests raced for one address, of 100.00 and 105.00 USDT.
AskedApart    == [e \in Two |-> IF e = 1 THEN 10000 ELSE 10500]
SharedAddress == [e \in Two |-> Alice]
TronTwo       == [i \in Two |-> "tron"]
BscTwo        == [i \in Two |-> "bsc"]

\* An exchange on each chain.
BothChains == {"tron", "bsc"}
OneEach    == [i \in Two |-> IF i = 1 THEN "tron" ELSE "bsc"]
OwnAddress == [i \in Two |-> IF i = 1 THEN Alice ELSE Bob]
AskedSame  == [e \in Two |-> 10000]

\* One exchange.
AskedOne   == [e \in One |-> 10000]
AliceOnly  == [e \in One |-> Alice]
TronOne    == [e \in One |-> "tron"]
BscOne     == [e \in One |-> "bsc"]

\* Two exact transfers to Alice.
ToAliceTwice == [t \in Two |-> Alice]
ExactTwice   == [t \in Two |-> 10000]
\* The second one is too much.
ExactAndOver == [t \in Two |-> IF t = 1 THEN 10000 ELSE 10500]
OwnHash      == [t \in Two |-> t]

\* Two exact transfers and one that is too much.
Three             == {1, 2, 3}
ToAliceThrice     == [t \in Three |-> Alice]
ExactTwiceAndOver == [t \in Three |-> IF t = 3 THEN 10500 ELSE 10000]
TronThree         == [t \in Three |-> "tron"]
OwnHash3          == [t \in Three |-> t]
=============================================================================
