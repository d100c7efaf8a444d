CONSTANTS
    eyes = eyes
    ok = ok
    chatTurn = chatTurn
    toolCall = toolCall
    Emoji = {eyes, ok}
    Requesters = {chatTurn, toolCall}
    SeenMax = 2
    MaxPosted = 3
    MaxSnaps = 1
    MaxRestarts = 1
SYMMETRY Symmetry
SPECIFICATION ReactionsSpec
INVARIANTS
    ReactionsTypeOK
    OwnIsRetractable
    OneTurnPerReaction
CHECK_DEADLOCK FALSE
