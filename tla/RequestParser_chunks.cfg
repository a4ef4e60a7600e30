\* Requests fed to read_data in chunks of every size; the parser's verdict
\* after each call against the grammar of spec.md 4.4.
CONSTANTS
    Requests <- MCRequests
    MaxRequests = 2
    MaxHeaders = 2
    MaxBody = 1
    Cap = 26
SPECIFICATION Spec
INVARIANT ParseAgrees
\* The connection really stops: close_connection ends it.
CHECK_DEADLOCK FALSE
