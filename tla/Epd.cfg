SPECIFICATION Spec
CONSTANT COUNT_IMG_LIST = 3
INVARIANT AwakeWhenCommanded
INVARIANT BaseBeforePartial
INVARIANT QuiescentShowsWanted
PROPERTY RefreshNotAborted
PROPERTY ImageEventuallyShown
PROPERTY EventuallySleeps
