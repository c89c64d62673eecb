SPECIFICATION Spec
CONSTANTS
  Upstreams <- MCUpstreams
  Uses = {"connect", "http", "https"}
  Words = {"HTTP", "200", "407", "CRLF", "h", "b1", "b2"}
  HttpReplies <- MCHttpReplies
  BoundLengths = {5, 6, 18}
  Banners <- MCBanners
  Endings = {"eof", "reset", "silent"}
  ReadMax = 4
  LineMax = 5
  Responses <- MCResponses
  HeadRead = 4
  HeadMax = 8
CHECK_DEADLOCK FALSE
INVARIANT ClientDecodesBody
