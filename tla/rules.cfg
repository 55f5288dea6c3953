SPECIFICATION Spec
CONSTANTS
  RoomAgents <- TwoAgents
  People <- TwoPeople
  Interests <- TheirInterests
  Small <- Thanks
  Texts <- SomeTexts
  Addressees <- SomeAddressees
  MaxTalk = 2
  Formats = {"sse", "ndjson", "json"}
  Responses <- SomeResponses
  Bodies <- SomeBodies
  ItemLimit = 3
  BodyLimit = 4
INVARIANTS WakesWhoIsAsked PiecesDoNotMatter CheckForetells
CHECK_DEADLOCK FALSE
