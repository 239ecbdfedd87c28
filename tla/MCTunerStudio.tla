---------------------------- MODULE MCTunerStudio ----------------------------
EXTENDS TunerStudio

\* The second byte of the page is the first behind engine_configuration_s.
MCRequests ==
  << [command |-> "plain",   offset |-> 0, values |-> <<>>],
     [command |-> "query",   offset |-> 0, values |-> <<>>],
     [command |-> "ignored", offset |-> 0, values |-> <<>>],
     [command |-> "query",   offset |-> 2, values |-> <<1>>],
     [command |-> "execute", offset |-> 0, values |-> <<4>>],
     [command |-> "reset",   offset |-> 0, values |-> <<>>],
     [command |-> "chunk",   offset |-> 0, values |-> <<1, 2>>],
     [command |-> "chunk",   offset |-> 1, values |-> <<1>>],
     [command |-> "chunk",   offset |-> 2, values |-> <<1>>],
     [command |-> "single",  offset |-> 0, values |-> <<3>>],
     [command |-> "burn",    offset |-> 0, values |-> <<>>],
     [command |-> "text",    offset |-> 0, values |-> <<>>] >>
==============================================================================
