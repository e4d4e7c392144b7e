CONSTANTS
    InputGroups <- PassInputs
    OutLens <- ConvOutLens
SPECIFICATION Spec
INVARIANTS TypeOK TextMeaning AttrMeaning CommentAgrees PIAgrees DocTypeAgrees ScriptAgrees
    ToHtmlMeaning RoundTrip TagAgrees MetaEncoding
PROPERTIES LoopAdvances OutputFits
CHECK_DEADLOCK FALSE
