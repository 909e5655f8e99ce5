\* Posts of up to five characters, cut at two for a caption and four for a message.
SPECIFICATION FairSpec
CONSTANTS
    Letters = {"a"}
    MessageLimit = 4
    CaptionLimit = 2
    MaxLength = 5
    MaxRetries = 1
    MaxPublishes = 2
INVARIANTS PostInv NothingTruncated ChunksFollowInOrder ResultIsWholePost
PROPERTIES PublishReturns CutsDropNewlines
