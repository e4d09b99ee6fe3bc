SPECIFICATION SdFairSpec
INVARIANTS MountAgrees HungUnanswered
PROPERTIES CardMounts PullIsSeen
