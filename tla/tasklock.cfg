SPECIFICATION FairOutageSpec
CONSTANTS
  Workers = {w1, w2}
  None = None
  MaxStops = 2
  kubelet = kubelet
  balancer = balancer
  healthcheck = healthcheck
  Probers <- SomeProbers
  Asks <- WhatTheyAsk
  MaxCount = 1
INVARIANTS
  MutualExclusion
PROPERTIES
  RunsAgain
  AnswersTruthful
  RecoversFromOutage
