-------------------------- MODULE MCRequestParser --------------------------
EXTENDS RequestParser

\* GET / HTTP/1.1 with no headers.
Get11 == <<"M", "SP", "W", "SP", "V1", "CR", "LF", "CR", "LF">>
\* POST / HTTP/1.1 with a one-byte body.
Post1 == <<"M", "SP", "W", "SP", "V1", "CR", "LF",
           "CL", ":", "SP", "1", "CR", "LF", "CR", "LF", "B">>
\* POST / HTTP/1.0 with Content-Length: -1.
PostNeg == <<"M", "SP", "W", "SP", "V0", "CR", "LF",
             "CL", ":", "SP", "-1", "CR", "LF", "CR", "LF">>
\* POST / HTTP/1.0 with two headers, MAX_HEADERS of them here.
PostFull == <<"M", "SP", "W", "SP", "V0", "CR", "LF",
              "K", ":", "SP", "W", "CR", "LF",
              "CL", ":", "SP", "1", "CR", "LF", "CR", "LF", "B">>

MCRequests == {Get11, Post1, PostNeg, PostFull}
====
