SPECIFICATION Spec
CONSTANTS
    NoCall = NoCall
    Calls <- MCCalls
    ForeignTexts <- MCForeignTexts
    ForeignReplies <- MCForeignReplies
    LowerOf <- MCLowerOf
    HostPort <- MCHostPort
    StatusCodes = {201, 404}
    HeaderNames <- MCHeaderNames
    HeaderValues <- MCHeaderValues
    Bodies <- MCBodies
    Jsons <- MCJsons
    Extensions = {"html", "bin"}
    MaxCalls = 2
    MaxNumber = 600
INVARIANTS
    RequestParsed
    CallCarried
    FramingAgrees
    ResponseCarried
    ReplyUnderstood
