SPECIFICATION FairSpec
CONSTANT Size = 3
PROPERTY PositionTaken
