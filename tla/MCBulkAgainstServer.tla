------------------------ MODULE MCBulkAgainstServer ------------------------
(* Lists of up to three values: an EIN the server knows in two spellings, one
   it does not, and a value that is no EIN; beside the two attempts a connection
   of another client, which asks for any one thing the server tells apart. *)
EXTENDS BulkAgainstServer

MCValues ==
    {Spelled("e1", "plain"), Spelled("e1", "hyphenated"), Spelled("e3", "plain"),
     Unusable("malformed")}

MCKnown == {"e1"}

MCOtherRequests ==
    {Single("e3"), Single(RateLimited), Single(Transient), Single(Slow),
     Bulk(<<"e3", "e3">>), Bulk(<<"e1", "e3", "e3">>), Garbled, Keyless}

MCConnections == Attempts \cup {3}
=============================================================================
